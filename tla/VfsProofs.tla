----------------------------- MODULE VfsProofs -----------------------------
(***************************************************************************)
(* The tree of vnodes, for any names, any paths and any number of vnodes:  *)
(* every vnode that a path can name is found by its path, no path leads to *)
(* the others, and a lookup finds what LookupMeans says, no more and no    *)
(* less.                                                                   *)
(*                                                                         *)
(* The invariant says what makes the vnodes a tree: each is in the list of *)
(* its parent, a directory, under a name no other vnode there has, and the *)
(* parents lead up to the root.  What a walk down the tree does is then    *)
(* shown along the path, from one component to the next.                   *)
(***************************************************************************)
EXTENDS Vfs, WellFoundedInduction, TLAPS

\* up gives every vnode the names on the way to it from the root.
Ascends(up) ==
    /\ up \in [Node -> Seq(Name)] /\ up[Root] = <<>>
    /\ \A v \in Node \ {Root} : up[v] = Append(up[parent[v]], name[v])

TypeOK ==
    /\ alive \subseteq Node /\ Root \in alive
    /\ name \in [Node -> Name] /\ type \in [Node -> Kind]
    /\ parent \in [Node -> alive]
    /\ children \in [Node -> Seq(Node)]
    /\ type[Root] = "DIR" /\ dangling \in BOOLEAN

\* Every vnode is in the list of its parent, and the lists have no others but
\* one that was freed.
InLists ==
    /\ \A v \in alive \ {Root} :
          /\ type[parent[v]] = "DIR"
          /\ \E k \in DOMAIN children[parent[v]] : children[parent[v]][k] = v
    /\ \A d \in alive : \A k \in DOMAIN children[d] :
          /\ children[d][k] # Root /\ parent[children[d][k]] = d
          /\ Sound => children[d][k] \in alive

\* No directory has a name twice.
OneName ==
    \A d \in alive : \A j, k \in DOMAIN children[d] :
        name[children[d][j]] = name[children[d][k]] => j = k

MountsOK ==
    /\ mounts \in Seq(alive) /\ Len(mounts) \in {1, 2} /\ mounts[1] = Root
    /\ \A k \in DOMAIN mounts : type[mounts[k]] = "DIR" /\ name[mounts[k]] \in Component

\* Vnodes are created only in directories that lookups can find.
InNamed == \A v \in alive \ {Root} : name[parent[v]] \in Component

TreeInv ==
    /\ TypeOK /\ InLists /\ OneName /\ MountsOK /\ InNamed
    /\ \E up : Ascends(up)

-----------------------------------------------------------------------------
(* Numbers, and functions defined along them.                              *)

\* A set of numbers has a smallest one.
LEMMA Least ==
    ASSUME NEW S, S \subseteq Nat, S # {}
    PROVE  \E x \in S : \A y \in S : x <= y
<1>1. \E x \in S : \A y \in S : ~(<<y, x>> \in OpToRel(<, Nat))
  BY WFMin, NatLessThanWellFounded
<1>2. PICK x \in S : \A y \in S : ~(<<y, x>> \in OpToRel(<, Nat))
  BY <1>1
<1>3. \A y \in S : x <= y
  <2> TAKE y \in S
  <2>1. x \in Nat /\ y \in Nat
    OBVIOUS
  <2>2. ~(y < x)
    BY ZenonT(40), <1>2, <2>1 DEF OpToRel
  <2> QED BY <2>1, <2>2
<1> QED BY <1>3

\* Min finds it.
LEMMA MinLeast ==
    ASSUME NEW S, S \subseteq Nat, S # {}
    PROVE  Min(S) \in S /\ \A y \in S : Min(S) <= y
BY ZenonT(40), Least DEF Min

\* A set that contains 0, and with every number the next one, up to len,
\* contains all of them.
LEMMA Upwards ==
    ASSUME NEW len \in Nat, NEW T, 0 \in T, \A k \in 1 .. len : k - 1 \in T => k \in T
    PROVE  \A k \in 0 .. len : k \in T
<1> DEFINE S == {k \in 0 .. len : k \notin T}
<1> SUFFICES ASSUME S # {} PROVE FALSE
  OBVIOUS
<1>1. S \subseteq Nat
  OBVIOUS
<1> HIDE DEF S
<1>2. PICK k \in S : \A j \in S : k <= j
  BY ZenonT(40), <1>1, Least
<1>3. k \in 1 .. len /\ k - 1 \in 0 .. len
  BY DEF S
<1>4. k - 1 \in T
  BY <1>2, <1>3 DEF S
<1> QED BY <1>3, <1>4 DEF S

\* f starts with x, and each of its values follows from the one before.
Follows(f, len, S, x, G) ==
    f \in [0 .. len -> S] /\ f[0] = x /\ \A k \in 1 .. len : f[k] = G[<<k, f[k - 1]>>]

\* A function on 0 .. len can be defined by its first value and by what follows
\* each of its values.
LEMMA Recursion ==
    ASSUME NEW len \in Nat, NEW S, NEW x \in S, NEW G \in [(1 .. len) \X S -> S]
    PROVE  \E f : Follows(f, len, S, x, G)
<1> DEFINE Upto(m) == \E f \in [0 .. m -> S] : f[0] = x /\ \A k \in 1 .. m : f[k] = G[<<k, f[k - 1]>>]
           T == {m \in 0 .. len : Upto(m)}
<1>1. 0 \in T
  <2> DEFINE f == [k \in 0 .. 0 |-> x]
  <2>1. f \in [0 .. 0 -> S] /\ f[0] = x /\ 1 .. 0 = {}
    OBVIOUS
  <2>2. Upto(0)
    BY ZenonT(40), <2>1
  <2> QED BY <2>2
<1>2. ASSUME NEW m \in 1 .. len, m - 1 \in T PROVE m \in T
  <2>1. PICK f \in [0 .. m - 1 -> S] : f[0] = x /\ \A k \in 1 .. m - 1 : f[k] = G[<<k, f[k - 1]>>]
    BY <1>2
  <2> DEFINE y == G[<<m, f[m - 1]>>]
             g == [k \in 0 .. m |-> IF k = m THEN y ELSE f[k]]
  <2>2. y \in S
    BY <2>1
  <2>3. g \in [0 .. m -> S] /\ g[0] = x
    BY <2>1, <2>2
  <2>4. ASSUME NEW k \in 1 .. m PROVE g[k] = G[<<k, g[k - 1]>>]
    <3>1. g[k - 1] = f[k - 1] /\ k - 1 \in 0 .. m - 1
      OBVIOUS
    <3>2. CASE k = m
      <4>1. g[k] = y /\ <<k, g[k - 1]>> = <<m, f[m - 1]>>
        BY <3>1, <3>2
      <4> QED BY ZenonT(40), <4>1
    <3>3. CASE k # m
      BY <2>1, <3>1, <3>3
    <3> QED BY <3>2, <3>3
  <2> HIDE DEF g
  <2>5. Upto(m)
    BY <2>3, <2>4
  <2> QED BY <2>5
<1> HIDE DEF T
<1>3. len \in T
  BY <1>1, <1>2, Upwards
<1> QED BY <1>3 DEF T, Follows

-----------------------------------------------------------------------------
(* Lookups in one directory.                                               *)

\* Where a walk can be.
Place == Node \cup {NULL}

\* Vnodes are not NULL.
LEMMA Numbers == Node \subseteq Nat /\ NULL \notin Node /\ Root \in Node
BY VfsAssumption DEF Node, NULL, Root

\* vfs_lookup finds a child by its name, the only one of that name.
LEMMA LookupFinds ==
    ASSUME TypeOK, OneName, NEW d \in alive, NEW k \in DOMAIN children[d]
    PROVE  vfs_lookup(d, name[children[d][k]]) = children[d][k]
<1> DEFINE same == {j \in DOMAIN children[d] : name[children[d][j]] = name[children[d][k]]}
<1>1. children[d] \in Seq(Node)
  BY DEF TypeOK
<1>2. \A j \in same : j = k
  BY DEF OneName
<1>3. same = {k}
  BY <1>2
<1>4. same \subseteq Nat
  BY <1>1
<1>5. Min(same) = k
  BY <1>3, <1>4, MinLeast
<1> QED BY <1>3, <1>5 DEF vfs_lookup

\* What vfs_lookup finds is a child of that name; without one it finds NULL.
LEMMA LookupIsChild ==
    ASSUME TypeOK, NEW d \in Node, NEW n
    PROVE  \/ /\ vfs_lookup(d, n) = NULL
              /\ \A k \in DOMAIN children[d] : name[children[d][k]] # n
           \/ \E k \in DOMAIN children[d] :
                /\ vfs_lookup(d, n) = children[d][k]
                /\ children[d][k] \in Node /\ name[children[d][k]] = n
<1> DEFINE same == {j \in DOMAIN children[d] : name[children[d][j]] = n}
<1>1. children[d] \in Seq(Node)
  BY DEF TypeOK
<1>2. CASE same = {}
  BY <1>2 DEF vfs_lookup
<1>3. CASE same # {}
  <2>1. same \subseteq Nat
    BY <1>1
  <2>2. Min(same) \in same
    BY <1>3, <2>1, MinLeast
  <2>3. vfs_lookup(d, n) = children[d][Min(same)]
    BY <1>3 DEF vfs_lookup
  <2> HIDE DEF same
  <2>4. PICK j : j = Min(same)
    OBVIOUS
  <2>5. j \in DOMAIN children[d] /\ name[children[d][j]] = n
    BY <2>2, <2>4 DEF same
  <2>6. children[d][j] \in Node
    BY <1>1, <2>5
  <2> QED BY <2>3, <2>4, <2>5, <2>6
<1> QED BY <1>2, <1>3

\* A turn of the walk stays among the places.
LEMMA TurnPlace ==
    ASSUME TypeOK, NEW a \in Place, NEW n
    PROVE  Turn(a, n) \in Place
<1>1. CASE a = NULL \/ type[a] # "DIR"
  BY <1>1 DEF Turn
<1>2. CASE ~(a = NULL \/ type[a] # "DIR")
  <2>1. a \in Node /\ Turn(a, n) = vfs_lookup(a, n)
    BY <1>2 DEF Turn, Place
  <2> QED BY <2>1, LookupIsChild DEF Place
<1> QED BY <1>1, <1>2

-----------------------------------------------------------------------------
(* Walks.                                                                  *)

\* f gives the places of the walk from r along p.
WalkOf(f, r, p) ==
    /\ f \in [0 .. Len(p) -> Place] /\ f[0] = r
    /\ \A k \in 1 .. Len(p) : f[k] = Turn(f[k - 1], p[k])

\* There is such a function, and Walk is its last value.
LEMMA WalkExists ==
    ASSUME TypeOK, NEW r \in Place, NEW p \in Seq(Name)
    PROVE  \E f : WalkOf(f, r, p) /\ Walk(r, p) = f[Len(p)]
<1> DEFINE len == Len(p)
           Def(h) == [k \in 0 .. len |-> IF k = 0 THEN r ELSE Turn(h[k - 1], p[k])]
           at == CHOOSE h : h = Def(h)
           G == [z \in (1 .. len) \X Place |-> Turn(z[2], p[z[1]])]
<1>1. len \in Nat /\ Walk(r, p) = at[len]
  BY DEF Walk
<1> HIDE DEF len
<1>2. G \in [(1 .. len) \X Place -> Place]
  BY TurnPlace
<1>3. \A k \in 1 .. len, a \in Place : G[<<k, a>>] = Turn(a, p[k])
  OBVIOUS
<1> HIDE DEF G
<1>f. PICK f : Follows(f, len, Place, r, G)
  BY ZenonT(40), <1>1, <1>2, Recursion
<1>4. /\ f \in [0 .. len -> Place] /\ f[0] = r
      /\ \A k \in 1 .. len : f[k] = G[<<k, f[k - 1]>>]
  BY <1>f DEF Follows
<1>5. ASSUME NEW k \in 1 .. len PROVE f[k] = Turn(f[k - 1], p[k])
  <2>1. f[k - 1] \in Place
    BY <1>1, <1>4
  <2> QED BY ZenonT(40), <1>3, <1>4, <2>1
<1>6. f = Def(f)
  <2>1. \A k \in 0 .. len : f[k] = IF k = 0 THEN r ELSE Turn(f[k - 1], p[k])
    BY <1>1, <1>4, <1>5
  <2> QED BY <1>4, <2>1
<1>7. at = Def(at)
  BY ZenonT(40), <1>6
<1> HIDE DEF at
<1>8. at[0] = r /\ \A k \in 1 .. len : at[k] = Turn(at[k - 1], p[k])
  BY <1>1, <1>7
<1> DEFINE T == {k \in 0 .. len : at[k] = f[k]}
<1>9. 0 \in T
  BY <1>1, <1>4, <1>8
<1>10. ASSUME NEW k \in 1 .. len, k - 1 \in T PROVE k \in T
  BY <1>1, <1>5, <1>8, <1>10
<1>11. \A k \in 0 .. len : k \in T
  <2> HIDE DEF T
  <2> QED BY ZenonT(40), <1>1, <1>9, <1>10, Upwards
<1>12. at[len] = f[len]
  BY <1>1, <1>11
<1>13. WalkOf(f, r, p)
  BY <1>4, <1>5 DEF WalkOf, len
<1> QED BY <1>1, <1>12, <1>13 DEF len

\* There is only one.
LEMMA WalkUnique ==
    ASSUME TypeOK, NEW r \in Place, NEW p \in Seq(Name), NEW f, WalkOf(f, r, p)
    PROVE  Walk(r, p) = f[Len(p)]
<1>1. PICK g : WalkOf(g, r, p) /\ Walk(r, p) = g[Len(p)]
  BY WalkExists
<1> DEFINE len == Len(p)
           T == {k \in 0 .. len : g[k] = f[k]}
<1>2. len \in Nat
  OBVIOUS
<1>3. 0 \in T
  BY <1>1 DEF WalkOf
<1>4. ASSUME NEW k \in 1 .. len, k - 1 \in T PROVE k \in T
  <2>1. g[k] = Turn(g[k - 1], p[k]) /\ f[k] = Turn(f[k - 1], p[k])
    BY <1>1 DEF WalkOf
  <2>2. g[k - 1] = f[k - 1]
    BY <1>4
  <2> QED BY <2>1, <2>2
<1> HIDE DEF T, len
<1>5. \A k \in 0 .. len : k \in T
  BY <1>2, <1>3, <1>4, Upwards
<1>6. len \in T
  BY <1>2, <1>5
<1> QED BY <1>1, <1>6 DEF T, len

\* A walk along p \o q is one along p and then one along q.
LEMMA WalkOnward ==
    ASSUME TypeOK, NEW r \in Place, NEW p \in Seq(Name), NEW q \in Seq(Name)
    PROVE  Walk(r, p) \in Place /\ Walk(r, p \o q) = Walk(Walk(r, p), q)
<1>0. p \o q \in Seq(Name)
  OBVIOUS
<1>1. PICK f : WalkOf(f, r, p \o q) /\ Walk(r, p \o q) = f[Len(p \o q)]
  BY ZenonT(40), <1>0, WalkExists
<1> DEFINE g == [k \in 0 .. Len(p) |-> f[k]]
           h == [k \in 0 .. Len(q) |-> f[Len(p) + k]]
<1>2. /\ Len(p \o q) = Len(p) + Len(q) /\ Len(p) \in Nat /\ Len(q) \in Nat
      /\ \A k \in 1 .. Len(p) : (p \o q)[k] = p[k]
      /\ \A k \in 1 .. Len(q) : (p \o q)[Len(p) + k] = q[k]
  OBVIOUS
<1>3. /\ f \in [0 .. Len(p) + Len(q) -> Place] /\ f[0] = r
      /\ \A k \in 1 .. Len(p) + Len(q) : f[k] = Turn(f[k - 1], (p \o q)[k])
  BY <1>1, <1>2 DEF WalkOf
<1>4. WalkOf(g, r, p)
  <2>1. g \in [0 .. Len(p) -> Place] /\ g[0] = r
    BY <1>2, <1>3
  <2>2. ASSUME NEW k \in 1 .. Len(p) PROVE g[k] = Turn(g[k - 1], p[k])
    <3>1. g[k] = f[k] /\ g[k - 1] = f[k - 1]
      BY <1>2
    <3>2. f[k] = Turn(f[k - 1], p[k])
      BY <1>2, <1>3
    <3> QED BY <3>1, <3>2
  <2> HIDE DEF g
  <2> QED BY <2>1, <2>2 DEF WalkOf
<1>5. Walk(r, p) = f[Len(p)] /\ f[Len(p)] \in Place
  <2>1. g[Len(p)] = f[Len(p)]
    BY <1>2
  <2>2. f[Len(p)] \in Place
    BY <1>2, <1>3
  <2> HIDE DEF g
  <2> QED BY <1>4, <2>1, <2>2, WalkUnique
<1>6. WalkOf(h, f[Len(p)], q)
  <2>1. h \in [0 .. Len(q) -> Place] /\ h[0] = f[Len(p)]
    BY <1>2, <1>3
  <2>2. ASSUME NEW k \in 1 .. Len(q) PROVE h[k] = Turn(h[k - 1], q[k])
    <3>1. h[k] = f[Len(p) + k] /\ h[k - 1] = f[(Len(p) + k) - 1]
      BY <1>2
    <3>2. f[Len(p) + k] = Turn(f[(Len(p) + k) - 1], (p \o q)[Len(p) + k])
      BY SMTT(60), <1>2, <1>3
    <3> QED BY <1>2, <3>1, <3>2
  <2> HIDE DEF h
  <2> QED BY <2>1, <2>2 DEF WalkOf
<1>7. h[Len(q)] = f[Len(p \o q)]
  BY <1>2
<1> HIDE DEF g, h
<1>8. Walk(f[Len(p)], q) = h[Len(q)]
  BY <1>5, <1>6, WalkUnique
<1> QED BY <1>1, <1>5, <1>7, <1>8

\* A walk along no component stays; along one it makes a turn.
LEMMA WalkShort ==
    ASSUME TypeOK, NEW r \in Place, NEW n \in Name
    PROVE  Walk(r, <<>>) = r /\ Walk(r, <<n>>) = Turn(r, n)
<1>0. <<>> \in Seq(Name) /\ <<n>> \in Seq(Name)
  OBVIOUS
<1>1. Walk(r, <<>>) = r
  <2>1. PICK f : WalkOf(f, r, <<>>) /\ Walk(r, <<>>) = f[Len(<<>>)]
    BY ZenonT(40), <1>0, WalkExists
  <2> QED BY <2>1 DEF WalkOf
<1>2. Walk(r, <<n>>) = Turn(r, n)
  <2>1. PICK f : WalkOf(f, r, <<n>>) /\ Walk(r, <<n>>) = f[Len(<<n>>)]
    BY ZenonT(40), <1>0, WalkExists
  <2>2. Len(<<n>>) = 1 /\ <<n>>[1] = n /\ 1 \in 1 .. 1
    OBVIOUS
  <2>3. f[0] = r /\ f[1] = Turn(f[0], n)
    BY <2>1, <2>2 DEF WalkOf
  <2> QED BY <2>1, <2>2, <2>3
<1> QED BY <1>1, <1>2

\* One more component is one more turn.
LEMMA WalkTurn ==
    ASSUME TypeOK, NEW r \in Place, NEW p \in Seq(Name), NEW n \in Name
    PROVE  Walk(r, p) \in Place /\ Walk(r, Append(p, n)) = Turn(Walk(r, p), n)
<1>1. Append(p, n) = p \o <<n>> /\ <<n>> \in Seq(Name)
  OBVIOUS
<1>2. Walk(r, p) \in Place /\ Walk(r, p \o <<n>>) = Walk(Walk(r, p), <<n>>)
  BY ZenonT(40), <1>1, WalkOnward
<1> QED BY <1>1, <1>2, WalkShort

\* Paths by their length: what holds of the empty path, and of a path with one
\* more component, holds of all.
LEMMA PathsUpwards ==
    ASSUME NEW T, <<>> \in T,
           \A p \in Seq(Name), n \in Name : p \in T => Append(p, n) \in T
    PROVE  Seq(Name) \subseteq T
<1> DEFINE S == {Len(p) : p \in Seq(Name) \ T}
<1> SUFFICES ASSUME S # {} PROVE FALSE
  OBVIOUS
<1>1. S \subseteq Nat
  OBVIOUS
<1>2. PICK k \in S : \A j \in S : k <= j
  <2> HIDE DEF S
  <2> QED BY ZenonT(40), <1>1, Least
<1>3. PICK p \in Seq(Name) : p \notin T /\ Len(p) = k
  OBVIOUS
<1>4. p # <<>>
  BY <1>3
<1> DEFINE b == SubSeq(p, 1, Len(p) - 1)
<1>5. /\ b \in Seq(Name) /\ p[Len(p)] \in Name /\ p = Append(b, p[Len(p)])
      /\ Len(b) = k - 1 /\ k \in Nat /\ k # 0
  BY <1>3, <1>4
<1>6. b \notin T
  BY ZenonT(40), <1>3, <1>5
<1>7. k - 1 \in S
  BY <1>5, <1>6
<1> HIDE DEF S
<1>8. k <= k - 1
  BY <1>2, <1>7
<1>9. k \in Nat
  BY <1>5
<1> QED BY <1>8, <1>9

-----------------------------------------------------------------------------
(* Walks in the tree.                                                      *)

\* A prefix is what a path starts with, and stays one when the path goes on.
LEMMA PrefixGoesOn ==
    ASSUME NEW s \in Seq(Name), NEW t \in Seq(Name), StartsWith(t, s)
    PROVE  /\ \E rest \in Seq(Name) : t = s \o rest
           /\ \A n \in Name : StartsWith(Append(t, n), s)
<1> DEFINE q == SubSeq(t, Len(s) + 1, Len(t))
<1>1. /\ Len(s) <= Len(t) /\ Len(s) \in Nat /\ Len(t) \in Nat
      /\ SubSeq(s, 1, Len(s)) = SubSeq(t, 1, Len(s))
  BY DEF StartsWith
<1>2. \A k \in 1 .. Len(s) : s[k] = t[k]
  <2> TAKE k \in 1 .. Len(s)
  <2>1. SubSeq(s, 1, Len(s))[k] = s[k] /\ SubSeq(t, 1, Len(s))[k] = t[k]
    BY <1>1
  <2> QED BY <1>1, <2>1
<1>3. q \in Seq(Name) /\ Len(q) = Len(t) - Len(s) /\ \A k \in 1 .. Len(q) : q[k] = t[k + Len(s)]
  BY <1>1
<1>4. t = s \o q
  <2> HIDE DEF q
  <2>1. s \o q \in Seq(Name) /\ Len(s \o q) = Len(t)
    BY <1>1, <1>3
  <2>2. \A k \in 1 .. Len(t) : (s \o q)[k] = t[k]
    BY SMTT(60), <1>1, <1>2, <1>3
  <2>3. PICK u : u = s \o q
    OBVIOUS
  <2>4. u \in Seq(Name) /\ Len(u) = Len(t) /\ \A k \in 1 .. Len(t) : u[k] = t[k]
    BY <2>1, <2>2, <2>3
  <2>5. u = t
    BY <2>4
  <2> QED BY <2>3, <2>5
<1>5. ASSUME NEW n \in Name PROVE StartsWith(Append(t, n), s)
  <2>1. Len(s) <= Len(Append(t, n))
    BY <1>1
  <2>2. SubSeq(t, 1, Len(s)) = SubSeq(Append(t, n), 1, Len(s))
    BY <1>1
  <2> QED BY <1>1, <2>1, <2>2 DEF StartsWith
<1>6. \E rest \in Seq(Name) : t = s \o rest
  <2> HIDE DEF q
  <2> QED BY <1>3, <1>4
<1> QED BY <1>5, <1>6

\* Paths that go on in the same way did so from the same path.
LEMMA AppendOne ==
    ASSUME NEW s \in Seq(Name), NEW t \in Seq(Name), NEW m \in Name, NEW n \in Name,
           Append(s, m) = Append(t, n)
    PROVE  s = t /\ m = n
<1>1. Len(s) \in Nat /\ Len(t) \in Nat /\ Len(Append(s, m)) = Len(s) + 1 /\ Len(Append(t, n)) = Len(t) + 1
  OBVIOUS
<1>2. Len(s) = Len(t)
  BY <1>1
<1>3. Append(s, m)[Len(s) + 1] = m /\ Append(t, n)[Len(t) + 1] = n
  OBVIOUS
<1>4. \A k \in 1 .. Len(s) : Append(s, m)[k] = s[k] /\ Append(t, n)[k] = t[k]
  BY <1>2
<1>5. \A k \in 1 .. Len(s) : s[k] = t[k]
  BY <1>4
<1>6. s = t
  BY <1>2, <1>5
<1> QED BY <1>2, <1>3, <1>6

\* What a sequence with one more element is made of.
LEMMA AppendIn ==
    ASSUME NEW s \in Seq(Name), NEW n \in Name, NEW S, Append(s, n) \in Seq(S)
    PROVE  s \in Seq(S) /\ n \in S
<1>1. Len(s) \in Nat /\ Len(Append(s, n)) = Len(s) + 1
  OBVIOUS
<1>2. \A k \in 1 .. Len(s) + 1 : Append(s, n)[k] \in S
  BY <1>1
<1>3. Append(s, n)[Len(s) + 1] = n /\ \A k \in 1 .. Len(s) : Append(s, n)[k] = s[k]
  OBVIOUS
<1>4. n \in S /\ \A k \in 1 .. Len(s) : s[k] \in S
  BY <1>1, <1>2, <1>3
<1> QED BY <1>4

\* Every path is a prefix of the same path with one more component.
LEMMA PrefixAppend ==
    ASSUME NEW s \in Seq(Name), NEW n \in Name
    PROVE  StartsWith(Append(s, n), s)
<1>1. Len(s) <= Len(Append(s, n))
  OBVIOUS
<1>2. SubSeq(s, 1, Len(s)) = SubSeq(Append(s, n), 1, Len(s))
  OBVIOUS
<1> QED BY <1>1, <1>2 DEF StartsWith

\* PathTo is the only function that ascends.
LEMMA PathToIs ==
    ASSUME TypeOK, NEW up, Ascends(up)
    PROVE  \A v \in Node : PathTo[v] = up[v]
<1> DEFINE Def(h) == [v \in Node |-> IF v = Root THEN <<>> ELSE Append(h[parent[v]], name[v])]
           pt == CHOOSE h : h = Def(h)
           T == {p \in Seq(Name) : \A v \in Node : up[v] = p => pt[v] = p}
<1>1. PathTo = pt
  BY DEF PathTo
<1>2. /\ up \in [Node -> Seq(Name)] /\ up[Root] = <<>> /\ Root \in Node
      /\ \A v \in Node \ {Root} : up[v] = Append(up[parent[v]], name[v])
  BY Numbers DEF Ascends
<1>3. up = Def(up)
  BY <1>2
<1>4. pt = Def(pt)
  BY ZenonT(40), <1>3
<1> HIDE DEF pt
<1>5. /\ pt[Root] = <<>>
      /\ \A v \in Node \ {Root} : pt[v] = Append(pt[parent[v]], name[v])
  BY ZenonT(40), <1>2, <1>4
<1>6. \A v \in Node : parent[v] \in Node /\ name[v] \in Name
  BY DEF TypeOK
<1>7. \A v \in Node \ {Root} : up[v] # <<>>
  BY <1>2, <1>6
<1>8. <<>> \in T
  BY <1>2, <1>5, <1>7
<1>9. ASSUME NEW p \in Seq(Name), NEW n \in Name, p \in T PROVE Append(p, n) \in T
  <2> SUFFICES ASSUME NEW v \in Node, up[v] = Append(p, n) PROVE pt[v] = Append(p, n)
    OBVIOUS
  <2>1. v # Root
    BY <1>2
  <2>2. Append(up[parent[v]], name[v]) = Append(p, n) /\ up[parent[v]] \in Seq(Name)
    BY ZenonT(40), <1>2, <1>6, <2>1
  <2>a. name[v] \in Name
    BY ZenonT(40), <1>6, <2>1
  <2>3. up[parent[v]] = p /\ name[v] = n
    BY <2>2, <2>a, AppendOne
  <2>4. pt[parent[v]] = p
    BY <1>6, <1>9, <2>3
  <2> QED BY <1>5, <2>1, <2>3, <2>4
<1>10. Seq(Name) \subseteq T
  <2> HIDE DEF T
  <2> QED BY <1>8, <1>9, PathsUpwards
<1> QED BY <1>1, <1>2, <1>10

\* A walk from the root along the path of a vnode ends at the vnode.
LEMMA WalkHome ==
    ASSUME TypeOK, InLists, OneName, NEW up, Ascends(up), NEW w \in alive
    PROVE  Walk(Root, up[w]) = w
<1> DEFINE T == {p \in Seq(Name) : \A v \in alive : up[v] = p => Walk(Root, p) = v}
<1>1. /\ up \in [Node -> Seq(Name)] /\ up[Root] = <<>> /\ Root \in Node
      /\ \A v \in Node \ {Root} : up[v] = Append(up[parent[v]], name[v])
  BY Numbers DEF Ascends
<1>2. \A v \in Node : parent[v] \in alive /\ name[v] \in Name
  BY DEF TypeOK
<1>3. alive \subseteq Node /\ Root \in Place
  BY Numbers DEF TypeOK, Place
<1>4. \A v \in Node \ {Root} : up[v] # <<>>
  BY <1>1, <1>2, <1>3
<1>5. <<>> \in T
  <2>1. Walk(Root, <<>>) = Root
    BY ZenonT(40), <1>2, <1>3, WalkShort
  <2> QED BY <1>1, <1>3, <1>4, <2>1
<1>6. ASSUME NEW p \in Seq(Name), NEW n \in Name, p \in T PROVE Append(p, n) \in T
  <2> SUFFICES ASSUME NEW v \in alive, up[v] = Append(p, n) PROVE Walk(Root, Append(p, n)) = v
    OBVIOUS
  <2>1. v # Root /\ v \in Node
    BY <1>1, <1>3
  <2>2. Append(up[parent[v]], name[v]) = Append(p, n) /\ up[parent[v]] \in Seq(Name)
    BY ZenonT(40), <1>1, <1>2, <1>3, <2>1
  <2>a. name[v] \in Name /\ parent[v] \in alive
    BY ZenonT(40), <1>2, <2>1
  <2>3. up[parent[v]] = p /\ name[v] = n /\ parent[v] \in alive
    BY SMTT(60), <2>2, <2>a, AppendOne
  <2>4. Walk(Root, p) = parent[v]
    BY <1>6, <2>3
  <2>5. Walk(Root, Append(p, n)) = Turn(parent[v], n)
    BY <1>3, <2>4, WalkTurn
  <2>6. PICK k \in DOMAIN children[parent[v]] : children[parent[v]][k] = v
    BY <2>1 DEF InLists
  <2>7. vfs_lookup(parent[v], n) = v
    BY <2>3, <2>6, LookupFinds
  <2>8. parent[v] # NULL /\ type[parent[v]] = "DIR"
    BY <1>3, <2>1, <2>3, Numbers DEF InLists
  <2> QED BY <2>5, <2>7, <2>8 DEF Turn
<1>7. Seq(Name) \subseteq T
  <2> HIDE DEF T
  <2> QED BY <1>5, <1>6, PathsUpwards
<1> QED BY <1>1, <1>3, <1>7

\* A walk from a file or a device stays there.
LEMMA WalkStays ==
    ASSUME TypeOK, NEW w \in Node, type[w] # "DIR", NEW q \in Seq(Name)
    PROVE  Walk(w, q) = w
<1> DEFINE T == {p \in Seq(Name) : Walk(w, p) = w}
<1>1. w \in Place
  BY DEF Place
<1>2. <<>> \in T
  <2>1. Walk(w, <<>>) = w
    BY ZenonT(40), <1>1, WalkShort, VfsAssumption
  <2> QED BY <2>1
<1>3. ASSUME NEW p \in Seq(Name), NEW n \in Name, p \in T PROVE Append(p, n) \in T
  <2>1. Walk(w, Append(p, n)) = Turn(w, n)
    BY <1>1, <1>3, WalkTurn
  <2>2. Turn(w, n) = w
    BY DEF Turn
  <2> QED BY <2>1, <2>2
<1>4. Seq(Name) \subseteq T
  <2> HIDE DEF T
  <2> QED BY <1>2, <1>3, PathsUpwards
<1> QED BY <1>4

\* w is the vnode of path p, or a file or a device on the way to it.
Reaches(up, w, p) == up[w] = p \/ (type[w] # "DIR" /\ StartsWith(p, up[w]))

\* The walk along a path finds what the path reaches.
LEMMA WalkFinds ==
    ASSUME TypeOK, InLists, OneName, NEW up, Ascends(up), NEW w \in alive,
           NEW p \in Seq(Name), Reaches(up, w, p)
    PROVE  Walk(Root, p) = w
<1>1. CASE up[w] = p
  BY <1>1, WalkHome
<1>2. CASE type[w] # "DIR" /\ StartsWith(p, up[w])
  <2>1. w \in Node /\ up[w] \in Seq(Name) /\ Root \in Place
    BY Numbers DEF TypeOK, Ascends, Place
  <2>2. PICK rest \in Seq(Name) : p = up[w] \o rest
    BY ZenonT(40), <1>2, <2>1, PrefixGoesOn
  <2>3. Walk(Root, up[w] \o rest) = Walk(Walk(Root, up[w]), rest)
    BY <2>1, WalkOnward
  <2> QED BY <1>2, <2>1, <2>2, <2>3, WalkHome, WalkStays
<1> QED BY <1>1, <1>2 DEF Reaches

\* What a lookup in a directory finds is a child of the directory, while no
\* list leads to a freed vnode.
LEMMA LookupAlive ==
    ASSUME TypeOK, InLists, Sound, NEW d \in alive, NEW n
    PROVE  \/ vfs_lookup(d, n) = NULL
           \/ /\ vfs_lookup(d, n) \in alive \ {Root}
              /\ parent[vfs_lookup(d, n)] = d /\ name[vfs_lookup(d, n)] = n
<1>1. d \in Node
  BY DEF TypeOK
<1>2. ASSUME NEW k \in DOMAIN children[d], vfs_lookup(d, n) = children[d][k], name[children[d][k]] = n
      PROVE  /\ vfs_lookup(d, n) \in alive \ {Root}
             /\ parent[vfs_lookup(d, n)] = d /\ name[vfs_lookup(d, n)] = n
  BY <1>2 DEF InLists
<1> QED BY <1>1, <1>2, LookupIsChild

\* What a walk from the root finds is reached by the path.
LEMMA WalkReaches ==
    ASSUME TypeOK, InLists, Sound, NEW up, Ascends(up), NEW q \in Seq(Name)
    PROVE  Walk(Root, q) = NULL \/ (Walk(Root, q) \in alive /\ Reaches(up, Walk(Root, q), q))
<1> DEFINE Good(p) == Walk(Root, p) = NULL \/ (Walk(Root, p) \in alive /\ Reaches(up, Walk(Root, p), p))
           T == {p \in Seq(Name) : Good(p)}
<1>1. /\ up \in [Node -> Seq(Name)] /\ up[Root] = <<>> /\ Root \in Node
      /\ \A v \in Node \ {Root} : up[v] = Append(up[parent[v]], name[v])
  BY Numbers DEF Ascends
<1>2. alive \subseteq Node /\ Root \in alive /\ Root \in Place
  BY Numbers DEF TypeOK, Place
<1>3. <<>> \in T
  <2>1. Walk(Root, <<>>) = Root
    BY ZenonT(40), <1>2, WalkShort, VfsAssumption
  <2>2. Good(<<>>)
    BY <1>1, <1>2, <2>1 DEF Reaches
  <2> QED BY <2>2
<1>4. ASSUME NEW p \in Seq(Name), NEW n \in Name, p \in T PROVE Append(p, n) \in T
  <2>0. PICK a : a = Walk(Root, p)
    OBVIOUS
  <2>1. Walk(Root, Append(p, n)) = Turn(a, n)
    BY <1>2, <2>0, WalkTurn
  <2>2. a = NULL \/ (a \in alive /\ Reaches(up, a, p))
    BY <1>4, <2>0
  <2>3. CASE a = NULL
    <3>1. Turn(a, n) = NULL
      BY <2>3 DEF Turn
    <3> QED BY <2>1, <3>1
  <2>4. CASE a # NULL /\ type[a] # "DIR"
    <3>1. Turn(a, n) = a /\ a \in alive /\ up[a] \in Seq(Name)
      BY <1>1, <1>2, <2>2, <2>4 DEF Turn
    <3>2. StartsWith(Append(p, n), up[a])
      BY <2>2, <2>4, <3>1, PrefixGoesOn, PrefixAppend DEF Reaches
    <3>3. Reaches(up, a, Append(p, n))
      BY <2>4, <3>2 DEF Reaches
    <3>4. Good(Append(p, n))
      BY <2>1, <3>1, <3>3
    <3> QED BY <3>4
  <2>5. CASE a # NULL /\ type[a] = "DIR"
    <3>1. Turn(a, n) = vfs_lookup(a, n) /\ a \in alive /\ up[a] = p
      BY <2>2, <2>5 DEF Turn, Reaches
    <3>2. CASE vfs_lookup(a, n) = NULL
      BY <2>1, <3>1, <3>2
    <3>3. CASE /\ vfs_lookup(a, n) \in alive \ {Root}
               /\ parent[vfs_lookup(a, n)] = a /\ name[vfs_lookup(a, n)] = n
      <4>1. PICK c \in alive \ {Root} : c = vfs_lookup(a, n)
        BY <3>3
      <4>2. up[c] = Append(p, n)
        BY SMTT(60), <1>1, <1>2, <3>1, <3>3, <4>1
      <4>3. Good(Append(p, n))
        BY <2>1, <3>1, <4>1, <4>2 DEF Reaches
      <4> QED BY <4>3
    <3> QED BY <3>1, <3>2, <3>3, LookupAlive
  <2> QED BY <2>3, <2>4, <2>5
<1>5. Seq(Name) \subseteq T
  <2> HIDE DEF T
  <2> QED BY <1>3, <1>4, PathsUpwards
<1> QED BY <1>5

\* What a walk along names that can be asked for comes to has such a name.
LEMMA WalkNamed ==
    ASSUME TypeOK, NEW r \in Node, name[r] \in Component, NEW q \in Seq(Component)
    PROVE  Walk(r, q) = NULL \/ name[Walk(r, q)] \in Component
<1> DEFINE Good(p) == Walk(r, p) = NULL \/ name[Walk(r, p)] \in Component
           T == {p \in Seq(Name) : p \in Seq(Component) => Good(p)}
<1>1. r \in Place /\ q \in Seq(Name) /\ "dev" \in Name
  BY VfsAssumption DEF Place
<1>2. <<>> \in T
  <2>1. Walk(r, <<>>) = r
    BY ZenonT(40), <1>1, WalkShort
  <2>2. Good(<<>>)
    BY <2>1
  <2> QED BY <2>2
<1>3. ASSUME NEW p \in Seq(Name), NEW n \in Name, p \in T PROVE Append(p, n) \in T
  <2> SUFFICES ASSUME Append(p, n) \in Seq(Component) PROVE Good(Append(p, n))
    OBVIOUS
  <2>1. p \in Seq(Component) /\ n \in Component
    BY AppendIn
  <2>2. PICK a : a = Walk(r, p)
    OBVIOUS
  <2>3. (a = NULL \/ name[a] \in Component) /\ a \in Place
    BY <1>1, <1>3, <2>1, <2>2, WalkTurn
  <2>4. Walk(r, Append(p, n)) = Turn(a, n)
    BY <1>1, <2>2, WalkTurn
  <2>5. Turn(a, n) = NULL \/ name[Turn(a, n)] \in Component
    <3>1. CASE a = NULL \/ type[a] # "DIR"
      BY <2>3, <3>1 DEF Turn
    <3>2. CASE ~(a = NULL \/ type[a] # "DIR")
      <4>1. a \in Node /\ Turn(a, n) = vfs_lookup(a, n)
        BY <2>3, <3>2 DEF Turn, Place
      <4> QED BY <2>1, <4>1, LookupIsChild
    <3> QED BY <3>1, <3>2
  <2> QED BY <2>4, <2>5
<1>4. Seq(Name) \subseteq T
  <2> HIDE DEF T
  <2> QED BY <1>2, <1>3, PathsUpwards
<1> QED BY <1>1, <1>4

\* The path of a vnode whose name can be asked for has only such names.
LEMMA PathNamed ==
    ASSUME TypeOK, InNamed, NEW up, Ascends(up), NEW w \in alive, name[w] \in Component
    PROVE  up[w] \in Seq(Component)
<1> DEFINE T == {p \in Seq(Name) : \A v \in alive : up[v] = p /\ name[v] \in Component => p \in Seq(Component)}
<1>1. /\ up \in [Node -> Seq(Name)] /\ up[Root] = <<>> /\ Root \in Node
      /\ \A v \in Node \ {Root} : up[v] = Append(up[parent[v]], name[v])
  BY Numbers DEF Ascends
<1>2. /\ \A v \in Node : parent[v] \in alive /\ name[v] \in Name
      /\ alive \subseteq Node
  BY DEF TypeOK
<1>3. <<>> \in T
  OBVIOUS
<1>4. ASSUME NEW p \in Seq(Name), NEW n \in Name, p \in T PROVE Append(p, n) \in T
  <2> SUFFICES ASSUME NEW v \in alive, up[v] = Append(p, n), name[v] \in Component
               PROVE  Append(p, n) \in Seq(Component)
    OBVIOUS
  <2>1. v # Root /\ v \in Node
    BY <1>1, <1>2
  <2>2. Append(up[parent[v]], name[v]) = Append(p, n) /\ up[parent[v]] \in Seq(Name)
    BY ZenonT(40), <1>1, <1>2, <2>1
  <2>a. name[v] \in Name /\ parent[v] \in alive
    BY ZenonT(40), <1>2, <2>1
  <2>3. up[parent[v]] = p /\ name[v] = n /\ parent[v] \in alive
    BY <2>2, <2>a, AppendOne
  <2>4. p \in Seq(Component)
    BY <1>4, <2>1, <2>3 DEF InNamed
  <2> QED BY <2>3, <2>4
<1>5. Seq(Name) \subseteq T
  <2> HIDE DEF T
  <2> QED BY <1>3, <1>4, PathsUpwards
<1> QED BY <1>1, <1>2, <1>5

-----------------------------------------------------------------------------
(* Lookups from the mounts.                                                *)

\* vfs_lazy_lookup tries the tree first, then what is below the second mount.
LEMMA LazyIs ==
    ASSUME TypeOK, MountsOK, NEW p
    PROVE  vfs_lazy_lookup(p) =
              IF Walk(Root, p) # NULL THEN Walk(Root, p)
              ELSE IF Len(mounts) = 1 THEN NULL ELSE Walk(mounts[2], p)
<1> DEFINE found == {k \in DOMAIN mounts : Walk(mounts[k], p) # NULL}
<1>1. mounts[1] = Root /\ mounts \in Seq(alive) /\ Len(mounts) \in {1, 2}
  BY DEF MountsOK
<1>2. found \subseteq Nat /\ found \subseteq 1 .. Len(mounts)
  BY <1>1
<1>m. PICK first : first = Min(found)
  OBVIOUS
<1>3. vfs_lazy_lookup(p) = IF found = {} THEN NULL ELSE Walk(mounts[first], p)
  BY <1>m DEF vfs_lazy_lookup
<1>4. CASE Walk(Root, p) # NULL
  <2>1. 1 \in found
    BY <1>1, <1>4
  <2> HIDE DEF found
  <2>2. first \in found /\ first <= 1
    BY ZenonT(40), <1>m, <1>2, <2>1, MinLeast
  <2>3. first \in 1 .. Len(mounts)
    BY <1>2, <2>2
  <2>4. first = 1
    BY <1>1, <2>2, <2>3
  <2> QED BY <1>1, <1>3, <1>4, <2>1, <2>4
<1>5. CASE Walk(Root, p) = NULL
  <2>1. 1 \notin found
    BY <1>1, <1>5
  <2>2. CASE found = {}
    <3>1. Len(mounts) = 2 => Walk(mounts[2], p) = NULL
      BY <1>1, <2>2
    <3> QED BY <1>1, <1>3, <1>5, <2>2, <3>1
  <2>3. CASE found # {}
    <3> HIDE DEF found
    <3>1. first \in found /\ first # 1
      BY ZenonT(40), <1>m, <1>2, <2>1, <2>3, MinLeast
    <3>2. first \in 1 .. Len(mounts)
      BY <1>2, <3>1
    <3>3. first = 2 /\ Len(mounts) = 2
      BY SMTT(60), <1>1, <3>1, <3>2
    <3> QED BY <1>3, <1>5, <2>3, <3>3
  <2> QED BY <2>2, <2>3
<1> QED BY <1>4, <1>5

\* A walk from a vnode is the end of a walk from the root.
LEMMA WalkFrom ==
    ASSUME TypeOK, InLists, OneName, NEW up, Ascends(up), NEW w \in alive, NEW p \in Seq(Name)
    PROVE  up[w] \o p \in Seq(Name) /\ Walk(w, p) = Walk(Root, up[w] \o p)
<1>1. up[w] \in Seq(Name) /\ Root \in Place
  BY Numbers DEF TypeOK, Ascends, Place
<1>2. Walk(Root, up[w] \o p) = Walk(Walk(Root, up[w]), p)
  BY <1>1, WalkOnward
<1> QED BY <1>1, <1>2, WalkHome

\* Sequences over a set are sequences over a larger one.
LEMMA SeqTypes ==
    ASSUME NEW S, NEW m \in Seq(S)
    PROVE  /\ \A k \in 1 .. Len(m) : m[k] \in S
           /\ \A R : S \subseteq R => m \in Seq(R)
OBVIOUS

\* The root of the second mount exists.
LEMMA SecondMount ==
    ASSUME MountsOK, Len(mounts) = 2
    PROVE  mounts[2] \in alive /\ name[mounts[2]] \in Component
<1>1. mounts \in Seq(alive) /\ 2 \in 1 .. Len(mounts) /\ 2 \in DOMAIN mounts
  BY DEF MountsOK
<1>2. name[mounts[2]] \in Component
  BY <1>1 DEF MountsOK
<1> QED BY <1>1, <1>2, SeqTypes

\* The root is that of the first one.
LEMMA RootNamed ==
    ASSUME MountsOK
    PROVE  name[Root] \in Component
<1>1. mounts[1] = Root /\ 1 \in DOMAIN mounts
  BY DEF MountsOK
<1> QED BY <1>1 DEF MountsOK

\* What vfs_lazy_lookup finds exists.
LEMMA LazyAlive ==
    ASSUME TreeInv, Sound, NEW p \in Seq(Name), vfs_lazy_lookup(p) # NULL
    PROVE  vfs_lazy_lookup(p) \in alive
<1>0. TypeOK /\ InLists /\ OneName /\ MountsOK
  BY DEF TreeInv
<1>1. PICK up : Ascends(up)
  BY DEF TreeInv
<1>2. Walk(Root, p) = NULL \/ Walk(Root, p) \in alive
  BY <1>0, <1>1, WalkReaches
<1>3. CASE Len(mounts) = 2
  <2>1. mounts[2] \in alive
    BY <1>0, <1>3, SecondMount
  <2>2. up[mounts[2]] \o p \in Seq(Name) /\ Walk(mounts[2], p) = Walk(Root, up[mounts[2]] \o p)
    BY <1>0, <1>1, <2>1, WalkFrom
  <2>3. Walk(mounts[2], p) = NULL \/ Walk(mounts[2], p) \in alive
    BY ZenonT(40), <1>0, <1>1, <2>2, WalkReaches
  <2> QED BY <1>0, <1>2, <1>3, <2>3, LazyIs
<1>4. CASE Len(mounts) = 1
  BY <1>0, <1>2, <1>4, LazyIs
<1> QED BY <1>0, <1>3, <1>4 DEF MountsOK

\* What vfs_lazy_lookup finds has a name that can be asked for.
LEMMA LazyNamed ==
    ASSUME TypeOK, MountsOK, NEW p \in Seq(Component), vfs_lazy_lookup(p) # NULL
    PROVE  name[vfs_lazy_lookup(p)] \in Component
<1>1. Root \in Node /\ Len(mounts) \in {1, 2}
  BY Numbers DEF MountsOK
<1>2. name[Root] \in Component
  BY RootNamed
<1>3. Walk(Root, p) = NULL \/ name[Walk(Root, p)] \in Component
  BY <1>1, <1>2, WalkNamed
<1>4. CASE Len(mounts) = 2
  <2>1. mounts[2] \in Node
    BY <1>4, SecondMount DEF TypeOK
  <2>2. name[mounts[2]] \in Component
    BY <1>4, SecondMount
  <2>3. Walk(mounts[2], p) = NULL \/ name[Walk(mounts[2], p)] \in Component
    BY <2>1, <2>2, WalkNamed
  <2> QED BY <1>3, <1>4, <2>3, LazyIs
<1>5. CASE Len(mounts) = 1
  BY <1>3, <1>5, LazyIs
<1> QED BY <1>1, <1>4, <1>5

\* The last vnode on the way exists, and has such a name.
LEMMA LastAlive ==
    ASSUME TypeOK, InLists, Sound, name[Root] \in Component, NEW p \in Seq(Component)
    PROVE  vfs_lazy_lookup_last(p) \in alive /\ name[vfs_lazy_lookup_last(p)] \in Component
<1> DEFINE len == Len(p)
           Way == [at : {v \in alive : name[v] \in Component}, stop : BOOLEAN]
           x == [at |-> Root, stop |-> FALSE]
           Def(h) == [k \in 0 .. len |-> IF k = 0 THEN x ELSE Further(h[k - 1], p[k])]
           last == CHOOSE h : h = Def(h)
           G == [z \in (1 .. len) \X Way |-> Further(z[2], p[z[1]])]
<1>1. len \in Nat /\ vfs_lazy_lookup_last(p) = last[len].at
  BY DEF vfs_lazy_lookup_last
<1>2. x \in Way
  BY DEF TypeOK
<1>3. ASSUME NEW w \in Way, NEW n \in Component PROVE Further(w, n) \in Way
  <2> DEFINE found == {v \in alive : name[v] \in Component}
  <2>1. vfs_lookup(w.at, n) = NULL \/ vfs_lookup(w.at, n) \in found
    BY LookupAlive
  <2> HIDE DEF found
  <2>2. w \in [at : found, stop : BOOLEAN]
    BY DEF found
  <2>3. Further(w, n) \in [at : found, stop : BOOLEAN]
    BY ZenonT(40), <2>1, <2>2 DEF Further
  <2> QED BY <2>3 DEF found
<1>c. \A k \in 1 .. len : p[k] \in Component
  OBVIOUS
<1> HIDE DEF len, x, Way
<1>4. G \in [(1 .. len) \X Way -> Way]
  BY <1>3, <1>c
<1>5. \A k \in 1 .. len, w \in Way : G[<<k, w>>] = Further(w, p[k])
  OBVIOUS
<1> HIDE DEF G
<1>6. PICK f : Follows(f, len, Way, x, G)
  BY ZenonT(40), <1>1, <1>2, <1>4, Recursion
<1>7. /\ f \in [0 .. len -> Way] /\ f[0] = x
      /\ \A k \in 1 .. len : f[k] = G[<<k, f[k - 1]>>]
  BY <1>6 DEF Follows
<1>8. ASSUME NEW k \in 1 .. len PROVE f[k] = Further(f[k - 1], p[k])
  <2>1. f[k - 1] \in Way
    BY <1>1, <1>7
  <2> QED BY ZenonT(40), <1>5, <1>7, <2>1
<1>9. f = Def(f)
  <2>1. \A k \in 0 .. len : f[k] = IF k = 0 THEN x ELSE Further(f[k - 1], p[k])
    BY <1>1, <1>7, <1>8
  <2> QED BY <1>7, <2>1
<1>10. last = Def(last)
  BY ZenonT(40), <1>9
<1> HIDE DEF last
<1>11. last[0] = x /\ \A k \in 1 .. len : last[k] = Further(last[k - 1], p[k])
  BY <1>1, <1>10
<1> DEFINE T == {k \in 0 .. len : last[k] \in Way}
<1>12. 0 \in T
  BY <1>1, <1>2, <1>11
<1>13. ASSUME NEW k \in 1 .. len, k - 1 \in T PROVE k \in T
  BY <1>1, <1>3, <1>c, <1>11, <1>13
<1>14. \A k \in 0 .. len : k \in T
  <2> HIDE DEF T
  <2> QED BY ZenonT(40), <1>1, <1>12, <1>13, Upwards
<1>15. last[len] \in Way
  BY <1>1, <1>14
<1> QED BY <1>1, <1>15 DEF Way

-----------------------------------------------------------------------------
(* The steps.                                                              *)

\* The vnode that is created next is none of those that exist.
LEMMA NewIsNew ==
    ASSUME TypeOK, alive # Node
    PROVE  New \in Node \ alive
<1>1. Node \ alive \subseteq Nat /\ Node \ alive # {}
  BY ZenonT(40), Numbers DEF TypeOK
<1> QED BY <1>1, MinLeast DEF New

\* What creating x in dir, and creating and freeing it, have in common: x gets
\* its fields, and dir is the only list that may get longer, by x.
Grows(x, dir, n, kind) ==
    /\ name' = [name EXCEPT ![x] = n] /\ type' = [type EXCEPT ![x] = kind]
    /\ parent' = [parent EXCEPT ![x] = dir]
    /\ children' \in [Node -> Seq(Node)] /\ \A d \in alive \ {dir} : children'[d] = children[d]
    /\ \/ alive' = alive \cup {x} /\ children'[x] = <<>> /\ children'[dir] = Append(children[dir], x)
       \/ alive' = alive /\ children'[dir] = children[dir]
       \/ alive' = alive /\ children'[dir] = Append(children[dir], x) /\ dangling'
    /\ Sound /\ dangling' \in BOOLEAN

\* A fresh name, in a directory.
Fresh(dir, n) ==
    type[dir] = "DIR" /\ \A k \in DOMAIN children[dir] : name[children[dir][k]] # n

\* Such a step keeps the fields of what exists.
LEMMA GrowsFields ==
    ASSUME TypeOK, NEW x \in Node \ alive, NEW dir \in alive, NEW n \in Name, NEW kind \in Kind,
           Grows(x, dir, n, kind)
    PROVE  /\ TypeOK'
           /\ \A v \in Node \ {x} : name'[v] = name[v] /\ type'[v] = type[v] /\ parent'[v] = parent[v]
           /\ name'[x] = n /\ parent'[x] = dir /\ alive \subseteq alive' /\ alive' \subseteq alive \cup {x}
<1>1. alive \subseteq alive' /\ alive' \subseteq alive \cup {x}
  BY DEF Grows
<1>2. /\ \A v \in Node \ {x} : name'[v] = name[v] /\ type'[v] = type[v] /\ parent'[v] = parent[v]
      /\ name'[x] = n /\ parent'[x] = dir
  BY DEF Grows, TypeOK
<1>3. name' \in [Node -> Name] /\ type' \in [Node -> Kind] /\ parent' \in [Node -> alive']
  BY ZenonT(40), <1>1 DEF Grows, TypeOK
<1>4. alive' \subseteq Node /\ Root \in alive' /\ type'[Root] = "DIR"
  BY <1>1, <1>2 DEF TypeOK
<1>5. TypeOK'
  BY ZenonT(40), <1>3, <1>4 DEF TypeOK, Grows
<1> QED BY <1>1, <1>2, <1>5

\* It keeps the ways up.
LEMMA GrowsAscends ==
    ASSUME TypeOK, NEW x \in Node \ alive, NEW dir \in alive, NEW n \in Name, NEW kind \in Kind,
           Grows(x, dir, n, kind), NEW up, Ascends(up)
    PROVE  Ascends([up EXCEPT ![x] = Append(up[dir], n)])'
<1> DEFINE q == [up EXCEPT ![x] = Append(up[dir], n)]
<1>1. /\ up \in [Node -> Seq(Name)] /\ up[Root] = <<>>
      /\ \A v \in Node \ {Root} : up[v] = Append(up[parent[v]], name[v])
  BY DEF Ascends
<1>2. /\ \A v \in Node \ {x} : name'[v] = name[v] /\ parent'[v] = parent[v]
      /\ name'[x] = n /\ parent'[x] = dir
  BY GrowsFields
<1>3. dir \in Node /\ dir # x /\ Root # x /\ \A v \in Node : parent[v] \in Node \ {x}
  BY DEF TypeOK
<1>4. /\ q \in [Node -> Seq(Name)] /\ q[x] = Append(up[dir], n)
      /\ \A v \in Node \ {x} : q[v] = up[v]
  BY <1>1, <1>3
<1> HIDE DEF q
<1>5. q[Root] = <<>>
  BY <1>1, <1>3, <1>4, Numbers
<1>6. ASSUME NEW v \in Node \ {Root} PROVE q[v] = Append(q[parent'[v]], name'[v])
  <2>1. CASE v = x
    BY ZenonT(40), <1>2, <1>3, <1>4, <2>1
  <2>2. CASE v # x
    <3>1. q[v] = up[v] /\ parent'[v] = parent[v] /\ name'[v] = name[v] /\ q[parent[v]] = up[parent[v]]
      BY <1>2, <1>3, <1>4, <2>2
    <3> QED BY <1>1, <3>1
  <2> QED BY <2>1, <2>2
<1>7. Ascends(q)'
  BY SMTT(60), <1>4, <1>5, <1>6 DEF Ascends
<1> QED BY <1>7 DEF q

\* It keeps every vnode in the list of its parent.
LEMMA GrowsInLists ==
    ASSUME TypeOK, InLists, NEW x \in Node \ alive, NEW dir \in alive, NEW n \in Name,
           NEW kind \in Kind, Grows(x, dir, n, kind), type[dir] = "DIR"
    PROVE  InLists'
<1>1. /\ \A v \in Node \ {x} : name'[v] = name[v] /\ type'[v] = type[v] /\ parent'[v] = parent[v]
      /\ parent'[x] = dir /\ alive \subseteq alive' /\ alive' \subseteq alive \cup {x}
  BY GrowsFields
<1>2. /\ dir \in Node /\ dir # x /\ Root # x /\ alive \subseteq Node
      /\ \A v \in Node : parent[v] \in alive
      /\ children \in [Node -> Seq(Node)] /\ children[dir] \in Seq(Node)
  BY DEF TypeOK
<1>3. /\ \A d \in alive \ {dir} : children'[d] = children[d]
      /\ children'[dir] = children[dir] \/ children'[dir] = Append(children[dir], x)
      /\ x \in alive' => children'[x] = <<>> /\ children'[dir] = Append(children[dir], x)
  BY SMTT(60), <1>2 DEF Grows
<1>4. \A d \in alive : \A k \in DOMAIN children[d] :
          k \in DOMAIN children'[d] /\ children'[d][k] = children[d][k]
  <2> TAKE d \in alive
  <2> TAKE k \in DOMAIN children[d]
  <2>1. CASE children'[d] = children[d]
    BY <2>1
  <2>2. CASE d = dir /\ children'[dir] = Append(children[dir], x)
    <3>1. k \in 1 .. Len(children[dir]) /\ Len(children[dir]) \in Nat
      BY SMTT(60), <1>2, <2>2
    <3> QED BY <1>2, <2>2, <3>1
  <2> QED BY <1>3, <2>1, <2>2
<1>5. ASSUME NEW v \in alive' \ {Root}
      PROVE  /\ type'[parent'[v]] = "DIR"
             /\ \E k \in DOMAIN children'[parent'[v]] : children'[parent'[v]][k] = v
  <2>1. CASE v = x
    <3>1. parent'[v] = dir /\ type'[dir] = "DIR" /\ children'[dir] = Append(children[dir], x)
      BY <1>1, <1>2, <1>3, <2>1
    <3>2. Len(children[dir]) + 1 \in DOMAIN children'[dir] /\ children'[dir][Len(children[dir]) + 1] = x
      BY SMTT(60), <1>2, <3>1
    <3> QED BY <2>1, <3>1, <3>2
  <2>2. CASE v # x
    <3>1. v \in alive \ {Root} /\ parent'[v] = parent[v] /\ parent[v] \in alive
      BY <1>1, <1>2, <2>2
    <3>2. PICK k \in DOMAIN children[parent[v]] : children[parent[v]][k] = v
      BY <3>1 DEF InLists
    <3>3. k \in DOMAIN children'[parent[v]] /\ children'[parent[v]][k] = v
      BY <1>4, <3>1, <3>2
    <3>4. type[parent[v]] = "DIR" /\ parent[v] \in Node \ {x}
      BY <1>2, <3>1 DEF InLists
    <3> QED BY <1>1, <3>1, <3>3, <3>4
  <2> QED BY <2>1, <2>2
<1>6. ASSUME NEW d \in alive', NEW k \in DOMAIN children'[d]
      PROVE  /\ children'[d][k] # Root /\ parent'[children'[d][k]] = d
             /\ Sound' => children'[d][k] \in alive'
  <2>1. d \in alive
    BY <1>1, <1>3
  <2>2. children[d] \in Seq(Node)
    BY <1>2, <2>1
  <2>3. CASE k \in DOMAIN children[d]
    <3>1. children'[d][k] = children[d][k] /\ children[d][k] \in Node
      BY <1>4, <2>1, <2>2, <2>3
    <3>2. children[d][k] # Root /\ parent[children[d][k]] = d /\ children[d][k] \in alive
      BY SMTT(60), <2>1, <2>3 DEF InLists, Grows
    <3> QED BY <1>1, <3>1, <3>2
  <2>4. CASE k \notin DOMAIN children[d]
    <3>1. d = dir /\ children'[dir] = Append(children[dir], x)
      BY <1>3, <2>1, <2>4
    <3>2. children'[d][k] = x
      BY <2>2, <2>4, <3>1
    <3>3. Sound' => x \in alive'
      BY <1>2, <2>2, <2>4, <3>1 DEF Grows, Sound
    <3> QED BY <1>1, <1>2, <3>1, <3>2, <3>3
  <2> QED BY <2>3, <2>4
<1> QED BY <1>5, <1>6 DEF InLists

\* It gives no directory a name twice.
LEMMA GrowsOneName ==
    ASSUME TypeOK, InLists, OneName, NEW x \in Node \ alive, NEW dir \in alive, NEW n \in Name,
           NEW kind \in Kind, Grows(x, dir, n, kind), Fresh(dir, n)
    PROVE  OneName'
<1>1. /\ \A v \in Node \ {x} : name'[v] = name[v]
      /\ name'[x] = n /\ alive' \subseteq alive \cup {x}
  BY GrowsFields
<1>2. /\ dir \in Node /\ dir # x /\ alive \subseteq Node
      /\ children \in [Node -> Seq(Node)]
  BY DEF TypeOK
<1>3. /\ \A d \in alive \ {dir} : children'[d] = children[d]
      /\ children'[dir] = children[dir] \/ children'[dir] = Append(children[dir], x)
      /\ x \in alive' => children'[x] = <<>>
  BY <1>2 DEF Grows
<1>4. ASSUME NEW d \in alive, NEW k \in DOMAIN children[d]
      PROVE  children[d][k] \in Node \ {x} /\ name'[children[d][k]] = name[children[d][k]]
  <2>1. children[d] \in Seq(Node)
    BY <1>2
  <2>2. children[d][k] \in alive
    BY DEF InLists, Grows
  <2> QED BY <1>1, <1>2, <2>2
<1>5. ASSUME NEW d \in alive', NEW j \in DOMAIN children'[d], NEW k \in DOMAIN children'[d],
             name'[children'[d][j]] = name'[children'[d][k]]
      PROVE  j = k
  <2>1. d \in alive
    BY <1>1, <1>3
  <2>2. CASE children'[d] = children[d]
    BY <1>4, <1>5, <2>1, <2>2 DEF OneName
  <2>3. CASE d = dir /\ children'[dir] = Append(children[dir], x)
    <3> DEFINE s == children[dir]
    <3>0. s \in Seq(Node)
      BY <1>2
    <3>1. j \in 1 .. Len(s) + 1 /\ k \in 1 .. Len(s) + 1 /\ Len(s) \in Nat
      BY <2>3, <3>0
    <3>2. \A i \in 1 .. Len(s) : children'[d][i] = s[i] /\ i \in DOMAIN children[dir]
      BY <2>3, <3>0
    <3>3. children'[d][Len(s) + 1] = x
      BY <2>3, <3>0
    <3>4. \A i \in 1 .. Len(s) : name'[children'[d][i]] = name[s[i]] /\ name[s[i]] # n
      BY <1>4, <3>2 DEF Fresh
    <3> HIDE DEF s
    <3>5. CASE j = Len(s) + 1 \/ k = Len(s) + 1
      BY <1>1, <1>5, <3>1, <3>3, <3>4, <3>5
    <3>6. CASE j \in 1 .. Len(s) /\ k \in 1 .. Len(s)
      BY <1>5, <3>2, <3>4, <3>6 DEF OneName, s
    <3> QED BY <3>1, <3>5, <3>6
  <2> QED BY <1>3, <2>1, <2>2, <2>3
<1> QED BY <1>5 DEF OneName

\* A step that grows the tree and keeps the mounts keeps the invariant.
LEMMA GrowsTree ==
    ASSUME TreeInv, NEW x \in Node \ alive, NEW dir \in alive, NEW n \in Name,
           NEW kind \in Kind, Grows(x, dir, n, kind), Fresh(dir, n), name[dir] \in Component,
           MountsOK'
    PROVE  TreeInv'
<1>0. TypeOK /\ InLists /\ OneName /\ InNamed
  BY DEF TreeInv
<1>1. PICK up : Ascends(up)
  BY DEF TreeInv
<1>2. Ascends([up EXCEPT ![x] = Append(up[dir], n)])'
  BY <1>0, <1>1, GrowsAscends
<1>3. (\E q : Ascends(q))'
  BY <1>2
<1>4. TypeOK' /\ InLists' /\ OneName'
  BY <1>0, GrowsFields, GrowsInLists, GrowsOneName DEF Fresh
<1>5. InNamed'
  <2> SUFFICES ASSUME NEW v \in alive' \ {Root} PROVE name'[parent'[v]] \in Component
    BY DEF InNamed
  <2>1. /\ \A w \in Node \ {x} : name'[w] = name[w] /\ parent'[w] = parent[w]
        /\ parent'[x] = dir /\ alive' \subseteq alive \cup {x}
    BY <1>0, GrowsFields
  <2>2. dir \in Node \ {x} /\ alive \subseteq Node /\ \A w \in Node : parent[w] \in Node \ {x}
    BY <1>0 DEF TypeOK
  <2>3. CASE v = x
    BY <2>1, <2>2, <2>3
  <2>4. CASE v # x
    BY <1>0, <2>1, <2>2, <2>4 DEF InNamed
  <2> QED BY <2>3, <2>4
<1> QED BY <1>3, <1>4, <1>5 DEF TreeInv

\* A step that only opens, or does nothing, keeps the invariant.
LEMMA TreeKept ==
    ASSUME TreeInv, UNCHANGED <<Tree, mounts, dangling>>
    PROVE  TreeInv'
<1>1. /\ alive' = alive /\ name' = name /\ type' = type /\ parent' = parent
      /\ children' = children /\ mounts' = mounts /\ dangling' = dangling
  BY DEF Tree
<1>2. TypeOK' /\ MountsOK'
  BY <1>1 DEF TreeInv, TypeOK, MountsOK
<1>3. InLists' /\ OneName' /\ InNamed'
  BY <1>1 DEF TreeInv, InLists, OneName, InNamed, Sound
<1>4. (\E up : Ascends(up))'
  BY <1>1 DEF TreeInv, Ascends
<1> QED BY <1>2, <1>3, <1>4 DEF TreeInv

\* The roots of the mounts stay the directories they are.
LEMMA MountsKept ==
    ASSUME TypeOK, MountsOK, NEW x \in Node \ alive, NEW dir \in alive, NEW n \in Name,
           NEW kind \in Kind, Grows(x, dir, n, kind), mounts' = mounts
    PROVE  MountsOK'
<1>1. /\ \A v \in Node \ {x} : type'[v] = type[v] /\ name'[v] = name[v]
      /\ alive \subseteq alive' /\ alive \subseteq Node
  BY ZenonT(40), GrowsFields DEF TypeOK
<1>2. mounts \in Seq(alive) /\ Len(mounts) \in {1, 2} /\ mounts[1] = Root
  BY DEF MountsOK
<1>3. \A k \in DOMAIN mounts : mounts[k] \in alive
  BY <1>2
<1>4. \A k \in DOMAIN mounts' : type'[mounts'[k]] = "DIR" /\ name'[mounts'[k]] \in Component
  BY <1>1, <1>3 DEF MountsOK
<1>5. mounts' \in Seq(alive')
  BY <1>1, <1>2
<1> QED BY <1>2, <1>4, <1>5 DEF MountsOK

\* What vfs_create_vnode does grows the tree by a vnode with a fresh name.
LEMMA CreatedGrows ==
    ASSUME TypeOK, Sound, NEW dir \in alive, NEW n \in Name, NEW kind \in Kind,
           CanCreate(dir, n), Created(dir, n, kind), UNCHANGED dangling
    PROVE  New \in Node \ alive /\ Grows(New, dir, n, kind) /\ Fresh(dir, n)
<1>1. New \in Node \ alive
  BY NewIsNew DEF Created
<1>2. Fresh(dir, n)
  <2>1. dir \in Node /\ type[dir] = "DIR" /\ vfs_lookup(dir, n) = NULL
    BY DEF TypeOK, CanCreate, Refuses, Exists
  <2> QED BY <2>1, LookupIsChild, Numbers DEF Fresh
<1>3. PICK x \in Node \ alive : x = New
  BY <1>1
<1>4. children' = [children EXCEPT ![x] = <<>>, ![dir] = Append(children[dir], x)]
  BY <1>3 DEF Created, Linked
<1>5. dir \in Node /\ dir # x /\ children \in [Node -> Seq(Node)] /\ children[dir] \in Seq(Node)
  BY DEF TypeOK
<1>6. Append(children[dir], x) \in Seq(Node)
  BY <1>5
<1>7. /\ children' \in [Node -> Seq(Node)]
      /\ children'[x] = <<>> /\ children'[dir] = Append(children[dir], x)
      /\ \A d \in Node \ {dir, x} : children'[d] = children[d]
  <2>1. PICK s \in Seq(Node) : s = Append(children[dir], x)
    BY ZenonT(40), <1>6
  <2>0. <<>> \in Seq(Node)
    OBVIOUS
  <2>2. PICK e \in Seq(Node) : e = <<>>
    BY ZenonT(40), <2>0
  <2>3. children' = [children EXCEPT ![x] = e, ![dir] = s]
    BY <1>4, <2>1, <2>2
  <2>4. /\ children' \in [Node -> Seq(Node)] /\ children'[x] = e /\ children'[dir] = s
        /\ \A d \in Node \ {dir, x} : children'[d] = children[d]
    BY ZenonT(40), <1>5, <2>3
  <2> QED BY <2>1, <2>2, <2>4
<1>8. \A d \in alive \ {dir} : children'[d] = children[d]
  BY <1>7 DEF TypeOK
<1>9. Grows(x, dir, n, kind)
  BY ZenonT(40), <1>3, <1>7, <1>8 DEF Grows, Created, TypeOK
<1> QED BY <1>1, <1>2, <1>3, <1>9

\* vfs_create_vnode, open, and devfs_add_dev keep the invariant.
LEMMA CreatedTree ==
    ASSUME TreeInv, Sound, NEW dir \in alive, name[dir] \in Component, NEW n \in Name,
           NEW kind \in Kind, CanCreate(dir, n), Created(dir, n, kind), UNCHANGED <<mounts, dangling>>
    PROVE  TreeInv'
<1>1. TypeOK /\ MountsOK
  BY DEF TreeInv
<1>2. New \in Node \ alive /\ Grows(New, dir, n, kind) /\ Fresh(dir, n)
  BY <1>1, CreatedGrows
<1>3. PICK x \in Node \ alive : x = New
  BY <1>2
<1>4. MountsOK'
  BY <1>1, <1>2, <1>3, MountsKept
<1> QED BY <1>2, <1>3, <1>4, GrowsTree

\* devfs_init keeps the invariant.
LEMMA MountTree ==
    ASSUME TreeInv, devfs_init
    PROVE  TreeInv'
<1>1. TypeOK /\ MountsOK /\ Sound /\ Root \in alive /\ "dev" \in Name /\ "DIR" \in Kind
  BY VfsAssumption DEF TreeInv, TypeOK, devfs_init, Kind
<1>2. New \in Node \ alive /\ Grows(New, Root, "dev", "DIR") /\ Fresh(Root, "dev")
  BY <1>1, CreatedGrows DEF devfs_init
<1>3. PICK x \in Node \ alive : x = New
  BY <1>2
<1>4. mounts \in Seq(alive) /\ Len(mounts) = 1 /\ mounts[1] = Root /\ mounts' = Append(mounts, x)
  BY <1>1, <1>3 DEF MountsOK, devfs_init, MountRoot
<1>5. /\ alive' = alive \cup {x} /\ type' = [type EXCEPT ![x] = "DIR"]
      /\ name' = [name EXCEPT ![x] = "dev"]
  BY <1>3 DEF devfs_init, Created
<1>n. name[Root] \in Component /\ "dev" \in Component
  BY <1>1, <1>4, RootNamed, VfsAssumption
<1>6. mounts' \in Seq(alive') /\ Len(mounts') = 2 /\ mounts'[1] = Root /\ mounts'[2] = x
  <2>1. mounts \in Seq(alive') /\ x \in alive'
    BY <1>4, <1>5, SeqTypes
  <2>2. Len(mounts') = 2 /\ mounts'[1] = Root /\ mounts'[2] = x
    <3>1. PICK m \in Seq(alive') : m = mounts
      BY <2>1
    <3>2. Len(Append(m, x)) = Len(m) + 1 /\ Append(m, x)[Len(m) + 1] = x
      BY <3>1
    <3>3. \A k \in 1 .. Len(m) : Append(m, x)[k] = m[k]
      BY <3>1
    <3>4. Len(m) = 1 /\ mounts' = Append(m, x)
      BY <1>4, <3>1
    <3>5. Len(mounts') = 2 /\ mounts'[2] = x
      BY <3>2, <3>4
    <3>6. mounts'[1] = m[1] /\ m[1] = Root
      BY <1>4, <3>1, <3>3, <3>4
    <3> QED BY <3>5, <3>6
  <2> QED BY <1>4, <2>1, <2>2
<1>7. /\ type'[x] = "DIR" /\ type'[Root] = "DIR"
      /\ name'[x] \in Component /\ name'[Root] \in Component
  BY <1>1, <1>5, <1>n DEF TypeOK
<1>8. \A k \in DOMAIN mounts' : k = 1 \/ k = 2
  BY <1>6
<1>9. MountsOK'
  BY <1>6, <1>7, <1>8 DEF MountsOK
<1> QED BY <1>1, <1>n, <1>2, <1>3, <1>9, GrowsTree

\* A vnode created and freed again keeps the invariant, as long as InLists
\* claims nothing of a list that leads to it.
LEMMA DeleteTree ==
    ASSUME TreeInv, NEW n \in Name, vfs_delete_node(n)
    PROVE  TreeInv'
<1>1. TypeOK /\ MountsOK /\ Sound /\ "DEV" \in Kind /\ alive # Node
  BY DEF TreeInv, vfs_delete_node, Kind
<1>2. mounts \in Seq(alive) /\ Len(mounts) = 2
  BY <1>1 DEF MountsOK, vfs_delete_node
<1>3. PICK dir \in alive : dir = mounts[2] /\ name[dir] \in Component
  BY <1>1, <1>2, SecondMount
<1>4. PICK x \in Node \ alive : x = New
  BY <1>1, NewIsNew
<1>5. Fresh(dir, n)
  <2>1. dir \in Node /\ type[dir] = "DIR" /\ vfs_lookup(dir, n) = NULL
    BY <1>1, <1>3 DEF TypeOK, vfs_delete_node, CanCreate, Refuses, Exists
  <2> QED BY <1>1, <2>1, LookupIsChild, Numbers DEF Fresh
<1>6. /\ name' = [name EXCEPT ![x] = n] /\ type' = [type EXCEPT ![x] = "DEV"]
      /\ parent' = [parent EXCEPT ![x] = dir] /\ alive' = alive /\ mounts' = mounts
      /\ dangling' = (children[dir] # <<>>)
      /\ children' = [children EXCEPT ![dir] = IF children[dir] = <<>> THEN <<>> ELSE Append(children[dir], x)]
  BY <1>3, <1>4 DEF vfs_delete_node
<1>7. dir \in Node /\ children \in [Node -> Seq(Node)] /\ children[dir] \in Seq(Node)
  BY <1>1 DEF TypeOK
<1>8. Append(children[dir], x) \in Seq(Node)
  BY <1>7
<1>9. /\ children' \in [Node -> Seq(Node)] /\ \A d \in Node \ {dir} : children'[d] = children[d]
      /\ \/ children'[dir] = children[dir]
         \/ children'[dir] = Append(children[dir], x) /\ children[dir] # <<>>
  BY <1>6, <1>7, <1>8
<1>10. \A d \in alive \ {dir} : children'[d] = children[d]
  BY <1>1, <1>9 DEF TypeOK
<1>11. dangling' \in BOOLEAN /\ (children[dir] # <<>> => dangling')
  BY ZenonT(40), <1>6
<1>12. Grows(x, dir, n, "DEV")
  BY <1>1, <1>6, <1>9, <1>10, <1>11 DEF Grows
<1>13. MountsOK'
  BY <1>1, <1>6, <1>12, MountsKept
<1> QED BY <1>1, <1>3, <1>5, <1>12, <1>13, GrowsTree

-----------------------------------------------------------------------------
(* The theorems.                                                           *)

\* The tree starts as the root alone.
LEMMA InitTree == Init => TreeInv
<1> SUFFICES ASSUME Init PROVE TreeInv
  OBVIOUS
<1>1. /\ Root \in Node /\ "dev" \in Component /\ "dev" \in Name /\ "DIR" \in Kind
      /\ alive = {Root}
  BY VfsAssumption, Numbers DEF Init, Kind
<1>4. TypeOK
  <2>0. <<>> \in Seq(Node)
    OBVIOUS
  <2>1. parent \in [Node -> alive] /\ children \in [Node -> Seq(Node)] /\ dangling \in BOOLEAN
    BY ZenonT(40), <1>1, <2>0 DEF Init
  <2>2. name \in [Node -> Name] /\ type \in [Node -> Kind] /\ type[Root] = "DIR"
    BY <1>1 DEF Init
  <2> QED BY <1>1, <2>1, <2>2 DEF TypeOK
<1>5. \A d \in alive : DOMAIN children[d] = {}
  BY <1>1 DEF Init
<1>6. InLists /\ OneName /\ InNamed
  BY <1>1, <1>5 DEF InLists, OneName, InNamed
<1>2. MountsOK
  BY <1>1 DEF Init, MountsOK
<1>3. \E up : Ascends(up)
  <2> DEFINE up == [v \in Node |-> IF v = Root THEN <<>> ELSE <<"dev">>]
  <2>1. Ascends(up)
    BY VfsAssumption, Numbers DEF Ascends, Init
  <2> QED BY <2>1
<1> QED BY <1>2, <1>3, <1>4, <1>6 DEF TreeInv

\* Every operation keeps the vnodes a tree.
LEMMA NextTree == TreeInv /\ [Next]_vars => TreeInv'
<1> SUFFICES ASSUME TreeInv, [Next]_vars PROVE TreeInv'
  OBVIOUS
<1>0. TypeOK /\ InLists /\ MountsOK
  BY DEF TreeInv
<1>p. /\ Component \subseteq Name /\ "DEV" \in Kind
      /\ \A p \in Path : p \in Seq(Component) /\ p \in Seq(Name)
      /\ \A g \in Given : g[1] \in Path /\ g[2] \in Name
  BY VfsAssumption DEF Kind
<1>1. ASSUME NEW path \in Path, NEW n \in Component, NEW kind \in Kind, vfs_create_vnode(path, n, kind)
      PROVE  TreeInv'
  <2>1. PICK dir : dir = vfs_lazy_lookup(path)
    OBVIOUS
  <2>2. Sound /\ dir \in alive /\ name[dir] \in Component
    BY <1>0, <1>p, <1>1, <2>1, LazyAlive, LazyNamed DEF vfs_create_vnode
  <2>3. UNCHANGED <<mounts, dangling>> /\ ((CanCreate(dir, n) /\ Created(dir, n, kind)) \/ UNCHANGED Tree)
    BY <1>1, <2>1 DEF vfs_create_vnode
  <2> QED BY <1>p, <2>2, <2>3, CreatedTree, TreeKept
<1>2. ASSUME NEW g \in Given, NEW create \in BOOLEAN, NEW memory \in BOOLEAN, NEW kind \in Kind,
             sys_open(g[1], g[2], create, memory, kind)
      PROVE  TreeInv'
  <2>0. PICK path \in Path, n \in Name : sys_open(path, n, create, memory, kind)
    BY <1>p, <1>2
  <2>1. PICK dir : dir = vfs_lazy_lookup_last(path)
    OBVIOUS
  <2>2. Sound /\ path \in Seq(Component)
    BY <1>p, <2>0 DEF sys_open
  <2>3. dir \in alive /\ name[dir] \in Component
    BY <1>0, <2>1, <2>2, RootNamed, LastAlive
  <2>4. UNCHANGED <<mounts, dangling>> /\ ((CanCreate(dir, n) /\ Created(dir, n, kind)) \/ UNCHANGED Tree)
    BY <2>0, <2>1 DEF sys_open
  <2> QED BY <2>2, <2>3, <2>4, CreatedTree, TreeKept
<1>3. CASE devfs_init
  BY <1>3, MountTree
<1>4. ASSUME NEW n \in Component, devfs_add_dev(n) PROVE TreeInv'
  <2>1. mounts \in Seq(alive) /\ Len(mounts) = 2 /\ Sound
    BY <1>0, <1>4 DEF MountsOK, devfs_add_dev
  <2>2. PICK dir \in alive : dir = mounts[2] /\ name[dir] \in Component
    BY <1>0, <2>1, SecondMount
  <2>3. UNCHANGED <<mounts, dangling>> /\ ((CanCreate(dir, n) /\ Created(dir, n, "DEV")) \/ UNCHANGED Tree)
    BY <1>4, <2>2 DEF devfs_add_dev
  <2> QED BY <1>p, <2>1, <2>2, <2>3, CreatedTree, TreeKept
<1>5. ASSUME NEW n \in Component, vfs_delete_node(n) PROVE TreeInv'
  BY <1>p, <1>5, DeleteTree
<1>6. CASE UNCHANGED vars
  BY <1>6, TreeKept DEF vars, Tree
<1> QED BY <1>1, <1>2, <1>3, <1>4, <1>5, <1>6 DEF Next

\* The vnodes are a tree: every one that exists is in the list of its parent, a
\* directory in which no other has its name, and the parents lead to the root.
THEOREM VfsTree == Spec => []TreeInv
BY InitTree, NextTree, PTL DEF Spec

\* Every vnode whose name can be asked for is found by its own path, whatever
\* was created, opened, mounted or freed before; one that open made under
\* another name is found by none.
THEOREM VfsFoundByPath == Spec => []FoundByPath
<1>1. TreeInv => FoundByPath
  <2> SUFFICES ASSUME TreeInv, NEW v \in alive
               PROVE  IF name[v] \in Component
                      THEN PathTo[v] \in Seq(Component) /\ vfs_lazy_lookup(PathTo[v]) = v
                      ELSE \A path \in Path : vfs_lazy_lookup(path) # v
    BY DEF FoundByPath
  <2>1. TypeOK /\ InLists /\ OneName /\ MountsOK /\ InNamed
    BY DEF TreeInv
  <2>2. PICK up : Ascends(up)
    BY DEF TreeInv
  <2>3. v \in Node /\ v # NULL
    BY <2>1, Numbers DEF TypeOK
  <2>4. CASE name[v] \in Component
    <3>1. PathTo[v] = up[v] /\ Walk(Root, up[v]) = v
      BY <2>1, <2>2, <2>3, PathToIs, WalkHome
    <3>2. up[v] \in Seq(Component)
      BY <2>1, <2>2, <2>4, PathNamed
    <3> QED BY <2>1, <2>3, <2>4, <3>1, <3>2, LazyIs
  <2>5. CASE name[v] \notin Component
    <3>1. \A path \in Path : vfs_lazy_lookup(path) # v
      <4> TAKE path \in Path
      <4>1. path \in Seq(Component)
        BY SMTT(60), VfsAssumption
      <4> QED BY <2>1, <2>3, <2>5, <4>1, LazyNamed
    <3> QED BY <2>5, <3>1
  <2> QED BY <2>4, <2>5
<1> QED BY <1>1, VfsTree, PTL

\* A lookup finds the vnode a path names or the file or device on the way to
\* it, first in the tree and then below the second mount, and finds nothing
\* only when there is none.
THEOREM VfsLookupMeans == Spec => []LookupMeans
<1>1. TreeInv => LookupMeans
  <2> SUFFICES ASSUME TreeInv, Sound PROVE LookupMeans
    BY DEF LookupMeans
  <2>1. TypeOK /\ InLists /\ OneName /\ MountsOK
    BY DEF TreeInv
  <2>2. PICK up : Ascends(up)
    BY DEF TreeInv
  <2>3. alive \subseteq Node /\ NULL \notin alive
    BY ZenonT(40), <2>1, Numbers DEF TypeOK
  <2> DEFINE Leads(p) == {w \in alive : PathTo[w] = p \/ (type[w] # "DIR" /\ StartsWith(p, PathTo[w]))}
  <2>4. \A p, w : w \in Leads(p) <=> w \in alive /\ Reaches(up, w, p)
    BY <2>1, <2>2, <2>3, PathToIs DEF Reaches
  <2> HIDE DEF Leads
  <2>5. \A p \in Seq(Name) : IF Leads(p) = {} THEN Walk(Root, p) = NULL
                            ELSE Walk(Root, p) # NULL /\ Walk(Root, p) \in Leads(p)
    <3> TAKE p \in Seq(Name)
    <3>1. \A w \in Leads(p) : Walk(Root, p) = w /\ w # NULL
      BY <2>1, <2>2, <2>3, <2>4, WalkFinds
    <3>2. Walk(Root, p) = NULL \/ Walk(Root, p) \in Leads(p)
      BY SMTT(60), <2>1, <2>2, <2>4, WalkReaches
    <3> QED BY <3>1, <3>2
  <2> SUFFICES ASSUME NEW path \in Path
               PROVE  LET v == vfs_lazy_lookup(path)
                          fallback == IF Len(mounts) = 1 THEN {} ELSE Leads(PathTo[mounts[2]] \o path) IN
                      IF Leads(path) # {} THEN v \in Leads(path)
                      ELSE IF v # NULL THEN v \in fallback ELSE fallback = {}
    BY DEF LookupMeans, Leads
  <2>6. path \in Seq(Name)
    <3>1. path \in Seq(Component) /\ Component \subseteq Name
      BY VfsAssumption
    <3> QED BY <3>1
  <2>7. CASE Leads(path) # {}
    BY <2>1, <2>5, <2>6, <2>7, LazyIs
  <2>8. CASE Leads(path) = {} /\ Len(mounts) = 1
    BY <2>1, <2>5, <2>6, <2>8, LazyIs
  <2>9. CASE Leads(path) = {} /\ Len(mounts) = 2
    <3>1. PICK m \in alive : m = mounts[2]
      BY <2>1, <2>9, SecondMount
    <3>2. PathTo[m] = up[m]
      BY <2>1, <2>2, <2>3, PathToIs
    <3>3. PICK p \in Seq(Name) : p = up[m] \o path /\ Walk(m, path) = Walk(Root, p)
      BY ZenonT(40), <2>1, <2>2, <2>6, WalkFrom
    <3>4. vfs_lazy_lookup(path) = Walk(Root, p)
      BY <2>1, <2>5, <2>6, <2>9, <3>1, <3>3, LazyIs
    <3>5. PathTo[mounts[2]] \o path = p
      BY <3>1, <3>2, <3>3
    <3>6. IF Walk(Root, p) # NULL THEN Walk(Root, p) \in Leads(p) ELSE Leads(p) = {}
      BY <2>5
    <3> QED BY <2>9, <3>4, <3>5, <3>6
  <2> QED BY SMTT(60), <2>1, <2>7, <2>8, <2>9 DEF MountsOK
<1> QED BY <1>1, VfsTree, PTL
=============================================================================
