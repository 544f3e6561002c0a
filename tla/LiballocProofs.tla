--------------------------- MODULE LiballocProofs ---------------------------
(***************************************************************************)
(* The kernel heap, for any sizes of headers, pages, alignment and         *)
(* requests, and any number of blocks: blocks never overlap, the usage of  *)
(* a major block is what its minor blocks take, l_bestBet is never a block *)
(* that was freed, and pointers are aligned and inside.                    *)
(*                                                                         *)
(* The invariant adds that major blocks have different ids, without which  *)
(* a pointer would not lead back to its block, and that a minor block has  *)
(* room for the alignment of its pointer.  It says of usage that some sums *)
(* along the list end in it: inserting and removing then changes the sums, *)
(* and Taken is shown to be the only ones.                                 *)
(***************************************************************************)
EXTENDS Liballoc, FiniteSetTheorems, WellFoundedInduction, TLAPS

Minor == [off : Nat, size : Nat, req_size : Nat]
Major == [id : Nat \ {0}, pages : Nat, usage : Int, minors : Seq(Minor)]

\* The minor blocks of a list lie one after the other, before end.
Sorted(minors, end) ==
    \A k \in DOMAIN minors :
        /\ minors[k].off >= MajorSize
        /\ EndOf(minors[k]) <= end
        /\ Padded(minors[k].req_size) <= minors[k].size
        /\ \A l \in 1 .. k - 1 : EndOf(minors[l]) <= minors[k].off

\* f adds up what the minor blocks of a list take, and usage is the sum.
Sums(f, minors) ==
    /\ f \in [0 .. Len(minors) -> Int] /\ f[0] = 0
    /\ \A k \in 1 .. Len(minors) : f[k] = f[k - 1] + Need(minors[k].size)
Exact(usage, minors) == \E f : Sums(f, minors) /\ usage = MajorSize + f[Len(minors)]

Good(h) ==
    /\ h \in Seq(Major)
    /\ \A i \in DOMAIN h : Sorted(h[i].minors, Bytes(h[i]))
    /\ \A i \in DOMAIN h : Exact(h[i].usage, h[i].minors)
    /\ \A i, j \in DOMAIN h : h[i].id = h[j].id => i = j

\* b is NULL or a block of h.
Live(b, h) == b \in Nat /\ (b # NULL => \E i \in DOMAIN h : h[i].id = b)

IInv == Good(heap) /\ Live(best, heap)

\* The blocks of h are blocks of g, in the same places.
Keeps(h, g) ==
    \A i \in DOMAIN h :
        /\ i \in DOMAIN g /\ g[i].id = h[i].id
        /\ \A k \in DOMAIN h[i].minors :
              \E l \in DOMAIN g[i].minors : g[i].minors[l].off = h[i].minors[k].off

-----------------------------------------------------------------------------
(* Numbers and lists.                                                      *)

\* A set of numbers has a smallest one.
LEMMA Least ==
    ASSUME NEW S, S \subseteq Nat, S # {}
    PROVE  \E x \in S : \A y \in S : x <= y
<1>1. \E x \in S : \A y \in S : ~(<<y, x>> \in OpToRel(<, Nat))
  BY WFMin, NatLessThanWellFounded
<1>2. PICK x \in S : \A y \in S : ~(<<y, x>> \in OpToRel(<, Nat))
  BY <1>1
<1>3. \A y \in S : x <= y
  <2> TAKE y \in S
  <2>1. x \in Nat /\ y \in Nat
    OBVIOUS
  <2>2. ~(y < x)
    BY ZenonT(40), <1>2, <2>1 DEF OpToRel
  <2>3. QED
    BY <2>1, <2>2
<1>4. QED
  BY <1>3

\* Min finds it.
LEMMA MinIn ==
    ASSUME NEW S, S \subseteq Nat, S # {}
    PROVE  Min(S) \in S
BY ZenonT(40), Least DEF Min

\* Division with a remainder
LEMMA DivMod ==
    ASSUME NEW m \in Nat \ {0}, NEW a \in Nat
    PROVE  /\ a \div m \in Nat /\ a % m \in 0 .. m - 1
           /\ a = (a \div m) * m + (a % m)
OBVIOUS

\* Products of sizes are sizes, and in the same order.
LEMMA Products ==
    ASSUME NEW m \in Nat, NEW a \in Nat, NEW b \in Nat
    PROVE  a * m \in Nat /\ (a <= b => a * m <= b * m)
OBVIOUS

\* A multiple, and a remainder
LEMMA Remainders ==
    ASSUME NEW m \in Nat \ {0}, NEW q \in Nat, NEW r \in 0 .. m - 1
    PROVE  (q * m + r) % m = r
OBVIOUS

\* The elements of a concatenation
LEMMA Joined ==
    ASSUME NEW S, NEW f \in Seq(S), NEW g \in Seq(S)
    PROVE  /\ f \o g \in Seq(S) /\ Len(f \o g) = Len(f) + Len(g)
           /\ \A k \in 1 .. Len(f) : (f \o g)[k] = f[k]
           /\ \A k \in Len(f) + 1 .. Len(f) + Len(g) : (f \o g)[k] = g[k - Len(f)]
OBVIOUS

\* A new element stands at its position, the later ones one further.
LEMMA Inserted ==
    ASSUME NEW S, NEW s \in Seq(S), NEW n \in 1 .. Len(s) + 1, NEW e \in S
    PROVE  /\ Linked(s, n, e) \in Seq(S)
           /\ Len(Linked(s, n, e)) = Len(s) + 1
           /\ \A j \in 1 .. Len(s) + 1 :
                 Linked(s, n, e)[j] = IF j < n THEN s[j] ELSE IF j = n THEN e ELSE s[j - 1]
<1> DEFINE a == SubSeq(s, 1, n - 1)
           c == SubSeq(s, n, Len(s))
<1>1. a \in Seq(S) /\ Len(a) = n - 1 /\ \A j \in 1 .. n - 1 : a[j] = s[j]
  OBVIOUS
<1>2. c \in Seq(S) /\ Len(c) = Len(s) - n + 1 /\ \A j \in 1 .. Len(s) - n + 1 : c[j] = s[n + j - 1]
  OBVIOUS
<1>3. Linked(s, n, e) = (a \o <<e>>) \o c
  BY DEF Linked
<1> HIDE DEF a, c
<1>4. /\ a \o <<e>> \in Seq(S) /\ Len(a \o <<e>>) = n
      /\ \A j \in 1 .. n : (a \o <<e>>)[j] = IF j < n THEN s[j] ELSE e
  BY <1>1
<1> DEFINE front == a \o <<e>>
           w == front \o c
<1>5. front \in Seq(S) /\ Len(front) = n
      /\ \A j \in 1 .. n : front[j] = IF j < n THEN s[j] ELSE e
  BY <1>4
<1> HIDE DEF front
<1>6. /\ w \in Seq(S) /\ Len(w) = Len(front) + Len(c)
      /\ \A k \in 1 .. Len(front) : w[k] = front[k]
      /\ \A k \in Len(front) + 1 .. Len(front) + Len(c) : w[k] = c[k - Len(front)]
  BY <1>2, <1>5, Joined, Zenon
<1> HIDE DEF w
<1>7. Len(w) = Len(s) + 1
  BY <1>2, <1>5, <1>6
<1>8. ASSUME NEW j \in 1 .. Len(s) + 1
      PROVE  w[j] = IF j < n THEN s[j] ELSE IF j = n THEN e ELSE s[j - 1]
  <2>1. CASE j \in 1 .. n
    BY <1>5, <1>6, <2>1
  <2>2. CASE j \notin 1 .. n
    <3>1. /\ j \in Len(front) + 1 .. Len(front) + Len(c)
          /\ j - n \in 1 .. Len(s) - n + 1 /\ n + (j - n) - 1 = j - 1
      BY <1>2, <1>5, <2>2
    <3>2. w[j] = c[j - n] /\ c[j - n] = s[n + (j - n) - 1]
      BY <1>2, <1>5, <1>6, <3>1
    <3>3. QED
      BY <2>2, <3>1, <3>2
  <2>3. QED
    BY <2>1, <2>2
<1>9. Linked(s, n, e) = w
  BY <1>3 DEF w, front
<1>10. QED
  BY <1>6, <1>7, <1>8, <1>9

\* Without the element at a position the later ones stand one before.
LEMMA Removed ==
    ASSUME NEW S, NEW s \in Seq(S), NEW n \in 1 .. Len(s)
    PROVE  /\ Unlinked(s, n) \in Seq(S)
           /\ Len(Unlinked(s, n)) = Len(s) - 1
           /\ \A j \in 1 .. Len(s) - 1 :
                 Unlinked(s, n)[j] = IF j < n THEN s[j] ELSE s[j + 1]
<1> DEFINE a == SubSeq(s, 1, n - 1)
           c == SubSeq(s, n + 1, Len(s))
<1>1. a \in Seq(S) /\ Len(a) = n - 1 /\ \A j \in 1 .. n - 1 : a[j] = s[j]
  OBVIOUS
<1>2. c \in Seq(S) /\ Len(c) = Len(s) - n /\ \A j \in 1 .. Len(s) - n : c[j] = s[n + j]
  OBVIOUS
<1> DEFINE w == a \o c
<1>3. Unlinked(s, n) = w
  BY DEF Unlinked
<1> HIDE DEF a, c
<1>4. /\ w \in Seq(S) /\ Len(w) = Len(a) + Len(c)
      /\ \A k \in 1 .. Len(a) : w[k] = a[k]
      /\ \A k \in Len(a) + 1 .. Len(a) + Len(c) : w[k] = c[k - Len(a)]
  BY <1>1, <1>2, Joined, Zenon
<1> HIDE DEF w
<1>5. Len(w) = Len(s) - 1
  BY <1>1, <1>2, <1>4
<1>6. ASSUME NEW j \in 1 .. Len(s) - 1
      PROVE  w[j] = IF j < n THEN s[j] ELSE s[j + 1]
  <2>1. CASE j < n
    BY <1>1, <1>4, <2>1
  <2>2. CASE ~(j < n)
    <3>1. /\ j \in Len(a) + 1 .. Len(a) + Len(c) /\ j - Len(a) = j - (n - 1)
          /\ j - (n - 1) \in 1 .. Len(s) - n /\ n + (j - (n - 1)) = j + 1
      BY <1>1, <1>2, <2>2
    <3>2. w[j] = c[j - (n - 1)] /\ c[j - (n - 1)] = s[n + (j - (n - 1))]
      BY <1>2, <1>4, <3>1
    <3>3. QED
      BY <2>2, <3>1, <3>2
  <2>3. QED
    BY <2>1, <2>2
<1>7. QED
  BY <1>3, <1>4, <1>5, <1>6

-----------------------------------------------------------------------------
(* Sums along a list.                                                      *)

\* What a minor block takes is a number.
LEMMA NeedNat == ASSUME NEW x \in Minor PROVE Need(x.size) \in Nat
BY LiballocAssumption DEF Minor, Need

\* A list without blocks takes nothing.
LEMMA ExactEmpty == Exact(MajorSize, <<>>)
<1> DEFINE f == [k \in 0 .. 0 |-> 0]
<1>1. Len(<<>>) = 0 /\ f \in [0 .. 0 -> Int] /\ f[0] = 0
  OBVIOUS
<1>2. Sums(f, <<>>)
  BY <1>1 DEF Sums
<1>3. MajorSize = MajorSize + f[0]
  BY <1>1, LiballocAssumption
<1> QED BY <1>1, <1>2, <1>3 DEF Exact

\* A new block, wherever it is linked, adds what it takes.
LEMMA ExactInserted ==
    ASSUME NEW m \in Seq(Minor), NEW usage \in Int, Exact(usage, m),
           NEW n \in 1 .. Len(m) + 1, NEW x \in Minor
    PROVE  Exact(usage + Need(x.size), Linked(m, n, x))
<1>1. PICK f : Sums(f, m) /\ usage = MajorSize + f[Len(m)]
  BY DEF Exact
<1> DEFINE L == Linked(m, n, x)
           len == Len(m)
           a == Need(x.size)
           g == [j \in 0 .. len + 1 |-> IF j < n THEN f[j] ELSE f[j - 1] + a]
<1>2. /\ Len(L) = len + 1 /\ len \in Nat
      /\ \A j \in 1 .. len + 1 : L[j] = IF j < n THEN m[j] ELSE IF j = n THEN x ELSE m[j - 1]
  BY Inserted
<1>3. a \in Nat /\ \A j \in 1 .. len : Need(m[j].size) \in Nat
  <2>1. \A j \in 1 .. len : m[j] \in Minor
    OBVIOUS
  <2> QED BY <2>1, NeedNat
<1>4. /\ f \in [0 .. len -> Int] /\ f[0] = 0
      /\ \A k \in 1 .. len : f[k] = f[k - 1] + Need(m[k].size)
  BY <1>1 DEF Sums
<1>5. n \in 1 .. len + 1
  OBVIOUS
<1> HIDE DEF L, len, a
<1>6. g \in [0 .. len + 1 -> Int]
  <2>1. ASSUME NEW j \in 0 .. len + 1 PROVE (IF j < n THEN f[j] ELSE f[j - 1] + a) \in Int
    <3>1. CASE j < n
      <4>1. j \in 0 .. len
        BY <1>2, <1>5, <3>1
      <4> QED BY <1>4, <3>1, <4>1
    <3>2. CASE ~(j < n)
      <4>1. j - 1 \in 0 .. len
        BY <1>2, <1>5, <3>2
      <4>2. f[j - 1] \in Int
        BY <1>4, <4>1
      <4> QED BY <1>3, <3>2, <4>2
    <3> QED BY <3>1, <3>2
  <2> QED BY <2>1
<1>7. g[0] = 0 /\ g[len + 1] = f[len] + a
  BY <1>2, <1>3, <1>4, <1>5
<1>8. ASSUME NEW k \in 1 .. len + 1 PROVE g[k] = g[k - 1] + Need(L[k].size)
  <2>1. CASE k < n
    <3>1. k \in 1 .. len /\ k - 1 < n
      BY <1>2, <1>5, <2>1
    <3>2. g[k] = f[k] /\ g[k - 1] = f[k - 1] /\ L[k] = m[k]
      BY <1>2, <2>1, <3>1
    <3>3. f[k] = f[k - 1] + Need(m[k].size)
      BY <1>4, <3>1
    <3> QED BY <3>2, <3>3
  <2>2. CASE k = n
    BY <1>2, <1>3, <1>4, <1>5, <2>2 DEF a
  <2>3. CASE k > n
    <3> DEFINE b == Need(m[k - 1].size)
    <3>1. k - 1 \in 1 .. len /\ k - 2 \in 0 .. len /\ ~(k - 1 < n) /\ k - 1 \in 0 .. len + 1
      BY <1>2, <1>5, <2>3
    <3>2. g[k] = f[k - 1] + a /\ g[k - 1] = f[k - 2] + a
      BY <1>2, <1>5, <2>3, <3>1
    <3>3. f[k - 1] = f[k - 2] + b /\ b \in Nat
      BY <1>3, <1>4, <3>1
    <3>4. Need(L[k].size) = b
      BY <1>2, <2>3
    <3>5. f[k - 1] \in Int /\ f[k - 2] \in Int
      BY <1>4, <3>1
    <3> HIDE DEF b, g
    <3> QED BY <1>3, <3>2, <3>3, <3>4, <3>5
  <2> QED BY <1>2, <1>5, <2>1, <2>2, <2>3
<1> HIDE DEF g
<1>9. Sums(g, L)
  BY <1>2, <1>6, <1>7, <1>8 DEF Sums
<1>10. usage + a = MajorSize + g[len + 1]
  <2>1. f[len] \in Int /\ usage = MajorSize + f[len] /\ MajorSize \in Nat
    BY <1>1, <1>2, <1>4, LiballocAssumption DEF len
  <2> QED BY <1>3, <1>7, <2>1
<1> QED BY <1>2, <1>9, <1>10 DEF Exact, L, a

\* A block that is removed takes its share away.
LEMMA ExactRemoved ==
    ASSUME NEW m \in Seq(Minor), NEW usage \in Int, Exact(usage, m), NEW n \in 1 .. Len(m)
    PROVE  Exact(usage - Need(m[n].size), Unlinked(m, n))
<1>1. PICK f : Sums(f, m) /\ usage = MajorSize + f[Len(m)]
  BY DEF Exact
<1> DEFINE L == Unlinked(m, n)
           len == Len(m)
           a == Need(m[n].size)
           g == [j \in 0 .. len - 1 |-> IF j < n THEN f[j] ELSE f[j + 1] - a]
<1>2. /\ Len(L) = len - 1 /\ len \in Nat
      /\ \A j \in 1 .. len - 1 : L[j] = IF j < n THEN m[j] ELSE m[j + 1]
  BY Removed
<1>3. \A j \in 1 .. len : Need(m[j].size) \in Nat
  <2>1. \A j \in 1 .. len : m[j] \in Minor
    OBVIOUS
  <2> QED BY <2>1, NeedNat
<1>4. /\ f \in [0 .. len -> Int] /\ f[0] = 0
      /\ \A k \in 1 .. len : f[k] = f[k - 1] + Need(m[k].size)
  BY <1>1 DEF Sums
<1>5. n \in 1 .. len
  OBVIOUS
<1> HIDE DEF L, len
<1>6. a \in Nat /\ f[n] = f[n - 1] + a
  BY <1>3, <1>4, <1>5
<1> HIDE DEF a
<1>7. g \in [0 .. len - 1 -> Int]
  <2>1. ASSUME NEW j \in 0 .. len - 1 PROVE (IF j < n THEN f[j] ELSE f[j + 1] - a) \in Int
    <3>1. j \in 0 .. len /\ j + 1 \in 0 .. len
      BY <1>2
    <3>2. f[j] \in Int /\ f[j + 1] \in Int
      BY <1>4, <3>1
    <3> QED BY <1>6, <3>2
  <2> QED BY <2>1
<1>8. g[0] = 0 /\ g[len - 1] = f[len] - a
  <2>1. CASE n = len
    BY <1>2, <1>4, <1>5, <1>6, <2>1
  <2>2. CASE n < len
    BY <1>2, <1>4, <1>5, <1>6, <2>2
  <2> QED BY <1>2, <1>5, <2>1, <2>2
<1>9. ASSUME NEW k \in 1 .. len - 1 PROVE g[k] = g[k - 1] + Need(L[k].size)
  <2>1. CASE k < n
    <3>1. k \in 1 .. len /\ k - 1 < n
      BY <1>2, <1>5, <2>1
    <3>2. g[k] = f[k] /\ g[k - 1] = f[k - 1] /\ L[k] = m[k]
      BY <1>2, <2>1, <3>1
    <3>3. f[k] = f[k - 1] + Need(m[k].size)
      BY <1>4, <3>1
    <3> QED BY <3>2, <3>3
  <2>2. CASE k >= n
    <3> DEFINE b == Need(m[k + 1].size)
    <3>1. k + 1 \in 1 .. len /\ k \in 0 .. len /\ k - 1 \in 0 .. len - 1 /\ (k + 1) - 1 = k
      BY <1>2, <1>5, <2>2
    <3>2. f[k + 1] = f[k] + b /\ b \in Nat
      BY <1>3, <1>4, <3>1
    <3>3. g[k] = f[k + 1] - a
      BY <1>2, <1>5, <2>2
    <3>4. g[k - 1] = f[k] - a
      <4>1. CASE k = n
        <5>1. g[k - 1] = f[n - 1] /\ f[n - 1] \in Int
          BY <1>2, <1>4, <1>5, <4>1
        <5> QED BY <1>6, <4>1, <5>1
      <4>2. CASE k > n
        <5>1. g[k - 1] = f[(k - 1) + 1] - a /\ (k - 1) + 1 = k
          BY <1>2, <1>5, <3>1, <4>2
        <5> QED BY <5>1
      <4> QED BY <1>2, <1>5, <2>2, <4>1, <4>2
    <3>5. Need(L[k].size) = b
      BY <1>2, <2>2
    <3>6. f[k + 1] \in Int /\ f[k] \in Int
      BY <1>4, <3>1
    <3> HIDE DEF b, g
    <3> QED BY <1>6, <3>2, <3>3, <3>4, <3>5, <3>6
  <2> QED BY <1>2, <1>5, <2>1, <2>2
<1> HIDE DEF g
<1>10. Sums(g, L)
  BY <1>2, <1>7, <1>8, <1>9 DEF Sums
<1>11. usage - a = MajorSize + g[len - 1]
  <2>1. f[len] \in Int /\ usage = MajorSize + f[len] /\ MajorSize \in Nat
    BY <1>1, <1>2, <1>4, LiballocAssumption DEF len
  <2> QED BY <1>6, <1>8, <2>1
<1> QED BY <1>2, <1>10, <1>11 DEF Exact, L, a

\* Only the sizes count.
LEMMA ExactSame ==
    ASSUME NEW m \in Seq(Minor), NEW w \in Seq(Minor), NEW usage, Exact(usage, m),
           Len(w) = Len(m), \A k \in 1 .. Len(m) : w[k].size = m[k].size
    PROVE  Exact(usage, w)
<1>1. PICK f : Sums(f, m) /\ usage = MajorSize + f[Len(m)]
  BY DEF Exact
<1>2. Sums(f, w)
  BY <1>1 DEF Sums
<1> QED BY <1>1, <1>2 DEF Exact

\* There is one sum only, the one the definition of Taken describes.
LEMMA TakenSums ==
    ASSUME NEW m \in Seq(Minor), NEW usage, Exact(usage, m)
    PROVE  usage = MajorSize + Taken(m)
<1>1. PICK f : Sums(f, m) /\ usage = MajorSize + f[Len(m)]
  BY DEF Exact
<1> DEFINE len == Len(m)
           Def(h) == [k \in 0 .. len |-> IF k = 0 THEN 0 ELSE h[k - 1] + Need(m[k].size)]
           upto == CHOOSE h : h = Def(h)
           S == {k \in 0 .. len : upto[k] # f[k]}
<1>2. len \in Nat /\ Taken(m) = upto[len]
  BY DEF Taken
<1>3. /\ f \in [0 .. len -> Int] /\ f[0] = 0
      /\ \A k \in 1 .. len : f[k] = f[k - 1] + Need(m[k].size)
  BY <1>1 DEF Sums
<1> HIDE DEF len
<1>4. f = Def(f)
  <2>1. \A k \in 0 .. len : f[k] = IF k = 0 THEN 0 ELSE f[k - 1] + Need(m[k].size)
    BY <1>2, <1>3
  <2> QED BY <1>3, <2>1
<1>5. upto = Def(upto)
  BY ZenonT(40), <1>4
<1> HIDE DEF upto
<1>6. /\ upto[0] = 0
      /\ \A k \in 1 .. len : upto[k] = upto[k - 1] + Need(m[k].size)
  BY <1>2, <1>5
<1>7. S = {}
  <2> SUFFICES ASSUME S # {} PROVE FALSE
    OBVIOUS
  <2>0. S \subseteq Nat
    BY <1>2
  <2> HIDE DEF S
  <2>1. PICK k \in S : \A j \in S : k <= j
    BY ZenonT(40), <2>0, Least
  <2>2. k # 0 /\ k \in 1 .. len /\ k - 1 \in 0 .. len
    BY <1>2, <1>3, <1>6 DEF S
  <2>3. k - 1 \notin S
    BY <2>1, <2>2
  <2>4. upto[k - 1] = f[k - 1]
    BY <2>2, <2>3 DEF S
  <2> QED BY <1>3, <1>6, <2>2, <2>4 DEF S
<1>8. upto[len] = f[len]
  BY <1>2, <1>7
<1> QED BY <1>1, <1>2, <1>8 DEF len

-----------------------------------------------------------------------------
(* The parts of malloc and free.                                           *)

\* Some of the numbers up to Len(h) + 1 is not an id of h.
LEMMA FreshId ==
    ASSUME NEW h \in Seq(Major), NEW size
    PROVE  /\ NewMajor(h, size).id \in Nat \ {0}
           /\ \A i \in DOMAIN h : h[i].id # NewMajor(h, size).id
<1> DEFINE n == Len(h)
           ids == {h[i].id : i \in DOMAIN h}
           f == [i \in 1 .. n |-> h[i].id]
           new == (1 .. n + 1) \ ids
<1>1. n \in Nat /\ DOMAIN h = 1 .. n
  OBVIOUS
<1>2. new # {}
  <2> SUFFICES ASSUME new = {} PROVE FALSE
    OBVIOUS
  <2>1. 1 .. n + 1 \in SUBSET ids
    OBVIOUS
  <2>2. f \in Surjection(1 .. n, ids)
    BY <1>1 DEF Surjection
  <2> HIDE DEF ids, f, n
  <2>3. IsFiniteSet(1 .. n) /\ Cardinality(1 .. n) = n
    <3>1. 1 \in Int /\ n \in Int
      BY <1>1
    <3>2. IsFiniteSet(1 .. n) /\ Cardinality(1 .. n) = IF 1 > n THEN 0 ELSE n - 1 + 1
      BY <3>1, FS_Interval, ZenonT(40)
    <3>3. QED
      BY <1>1, <3>2
  <2>4. IsFiniteSet(ids) /\ Cardinality(ids) <= Cardinality(1 .. n)
    BY <2>2, <2>3, FS_Surjection
  <2>5. Cardinality(1 .. n + 1) = n + 1
    <3>1. 1 \in Int /\ n + 1 \in Int
      BY <1>1
    <3>2. Cardinality(1 .. n + 1) = IF 1 > n + 1 THEN 0 ELSE (n + 1) - 1 + 1
      BY <3>1, FS_Interval, ZenonT(40)
    <3>3. QED
      BY <1>1, <3>2
  <2>6. Cardinality(1 .. n + 1) <= Cardinality(ids)
    BY ZenonT(40), <2>1, <2>4, FS_Subset
  <2>7. QED
    <3>1. Cardinality(ids) \in Nat
      BY <2>4, FS_CardinalityType
    <3>2. QED
      BY <1>1, <2>3, <2>4, <2>5, <2>6, <3>1
<1>3. new \subseteq Nat
  BY <1>1
<1>4. Min(new) \in new
  BY ZenonT(40), <1>2, <1>3, MinIn
<1>5. NewMajor(h, size).id = Min(new)
  BY DEF NewMajor
<1>6. Min(new) \in 1 .. n + 1 /\ Min(new) \notin ids
  BY <1>4
<1>7. \A i \in DOMAIN h : h[i].id # Min(new)
  BY <1>6, Zenon
<1> HIDE DEF new, ids
<1>8. Min(new) \in Nat \ {0}
  BY <1>1, <1>6
<1>9. QED
  BY <1>5, <1>7, <1>8

\* A size that does not wrap when the headers are added.
Fits(size) == size + MajorSize + MinorSize <= UINT_MAX

\* All sizes callers ask for are such sizes.
LEMMA RequestsFit == \A size \in Requests \cup {0} : size \in Nat /\ Fits(Padded(size))
BY LiballocAssumption, SizesAssumption DEF Fits, Padded

\* A new major block holds both headers and what it was made for.
LEMMA NewFits ==
    ASSUME NEW size \in Nat, Fits(size)
    PROVE  /\ PagesFor(size) \in Nat
           /\ PagesFor(size) * PageSize >= MajorSize + Need(size)
<1> DEFINE st == size + MajorSize + MinorSize
           a == st + PageSize - 1
           pages == a \div PageSize
<1>1. /\ PageSize \in Nat \ {0} /\ PageCount \in Nat /\ MajorSize \in Nat /\ MinorSize \in Nat
      /\ st \in Nat /\ a \in Nat
  BY LiballocAssumption
<1>0. st % (UINT_MAX + 1) = st
  <2>1. UINT_MAX \in Nat /\ st <= UINT_MAX
    BY SizesAssumption DEF Fits
  <2> HIDE DEF st
  <2>2. QED
    BY <1>1, <2>1
<1>2. PagesFor(size) = IF pages < PageCount THEN PageCount ELSE pages
  BY <1>0 DEF PagesFor
<1>3. MajorSize + Need(size) = st
  BY <1>1 DEF Need
<1>4. a = st + PageSize - 1
  OBVIOUS
<1> HIDE DEF st, a
<1>5. pages \in Nat /\ a % PageSize \in 0 .. PageSize - 1 /\ a = pages * PageSize + (a % PageSize)
  BY <1>1, DivMod
<1> HIDE DEF pages
<1>6. pages * PageSize \in Nat /\ (pages <= PageCount => pages * PageSize <= PageCount * PageSize)
      /\ PageCount * PageSize \in Nat
  BY <1>1, <1>5, Products
<1>7. pages * PageSize >= st
  BY <1>1, <1>4, <1>5, <1>6
<1>8. QED
  BY <1>1, <1>2, <1>3, <1>5, <1>6, <1>7

\* The bytes of a major block
LEMMA BytesNat == ASSUME NEW maj \in Major PROVE Bytes(maj) \in Nat
<1>1. PageSize \in Nat /\ maj.pages \in Nat
  BY LiballocAssumption DEF Major
<1>2. QED
  BY <1>1, Products DEF Bytes

\* A new major block is empty, and takes a block of the size it was made for.
LEMMA NewTakes ==
    ASSUME NEW h \in Seq(Major), NEW size \in Nat, Fits(size)
    PROVE  /\ NewMajor(h, size) \in Major
           /\ NewMajor(h, size).minors = <<>>
           /\ Takes(NewMajor(h, size), size)
<1> DEFINE maj == NewMajor(h, size)
<1>1. /\ maj.pages = PagesFor(size) /\ maj.usage = MajorSize /\ maj.minors = <<>>
      /\ maj = [id |-> maj.id, pages |-> PagesFor(size), usage |-> MajorSize, minors |-> <<>>]
  BY DEF NewMajor
<1>2. maj.id \in Nat \ {0}
  BY FreshId
<1> HIDE DEF maj
<1>3. MajorSize \in Nat /\ MinorSize \in Nat /\ <<>> \in Seq(Minor)
  BY LiballocAssumption
<1>4. /\ PagesFor(size) \in Nat /\ PagesFor(size) * PageSize >= MajorSize + Need(size)
  BY NewFits
<1>5. maj \in Major
  <2>1. \A d \in Nat \ {0}, p \in Nat :
           [id |-> d, pages |-> p, usage |-> MajorSize, minors |-> <<>>] \in Major
    BY <1>3 DEF Major
  <2>2. [id |-> maj.id, pages |-> PagesFor(size), usage |-> MajorSize, minors |-> <<>>] \in Major
    BY <1>2, <1>4, <2>1
  <2>3. QED
    BY <1>1, <2>2
<1>6. Bytes(maj) \in Nat /\ Bytes(maj) >= MajorSize + Need(size) /\ Need(size) \in Nat
  BY <1>1, <1>3, <1>4, <1>5, BytesNat DEF Bytes, Need
<1>7. Room(maj) >= Need(size)
  BY <1>1, <1>3, <1>6 DEF Room
<1>8. Gaps(maj, size) = {0}
  BY <1>1, <1>3, <1>6 DEF Gaps, GapStart, GapEnd
<1>9. Slot(maj, size) \in {0}
  <2>1. {0} \subseteq Nat /\ {0} # {}
    OBVIOUS
  <2>2. Min({0}) \in {0}
    BY ZenonT(40), <2>1, MinIn
  <2>3. QED
    BY <1>8, <2>2 DEF Slot
<1>10. QED
  BY <1>1, <1>5, <1>7, <1>9 DEF Takes, maj

\* The end of a minor block lies past its header.
LEMMA Ends ==
    ASSUME NEW x \in Minor
    PROVE  /\ x.off \in Nat /\ x.size \in Nat /\ x.req_size \in Nat
           /\ EndOf(x) \in Nat /\ x.off < EndOf(x)
           /\ EndOf(x) = x.off + (MinorSize + x.size)
BY LiballocAssumption DEF Minor, EndOf

\* A minor block in a gap that is large enough leaves the list sorted.
LEMMA InsertSorted ==
    ASSUME NEW maj \in Major, Sorted(maj.minors, Bytes(maj)), NEW size \in Nat,
           NEW k \in Gaps(maj, size), NEW x \in Minor,
           x.off = GapStart(maj, k), x.size = size, Padded(x.req_size) <= size
    PROVE  /\ Linked(maj.minors, k + 1, x) \in Seq(Minor)
           /\ Sorted(Linked(maj.minors, k + 1, x), Bytes(maj))
           /\ \A j \in DOMAIN maj.minors :
                 \E l \in DOMAIN Linked(maj.minors, k + 1, x) :
                    Linked(maj.minors, k + 1, x)[l].off = maj.minors[j].off
<1> DEFINE s == maj.minors
           n == Len(s)
           end == Bytes(maj)
           m == Linked(s, k + 1, x)
<1>1. /\ s \in Seq(Minor) /\ n \in Nat /\ DOMAIN s = 1 .. n /\ end \in Nat
      /\ k \in 0 .. n /\ \A j \in 1 .. n : s[j] \in Minor
  BY BytesNat DEF Major, Gaps
<1>2. GapEnd(maj, k) - GapStart(maj, k) >= Need(size)
  BY DEF Gaps
<1>3. /\ k = 0 => x.off = MajorSize
      /\ k # 0 => x.off = EndOf(s[k])
      /\ k = n => GapEnd(maj, k) = end
      /\ k # n => GapEnd(maj, k) = s[k + 1].off
  BY DEF GapStart, GapEnd
<1>4. m \in Seq(Minor) /\ Len(m) = n + 1 /\ DOMAIN m = 1 .. n + 1
      /\ \A j \in 1 .. n + 1 : m[j] = IF j < k + 1 THEN s[j] ELSE IF j = k + 1 THEN x ELSE s[j - 1]
  <2> DEFINE q == k + 1
             w == Linked(s, q, x)
  <2>1. q \in 1 .. Len(s) + 1
    BY <1>1
  <2> HIDE DEF s, q
  <2>2. /\ w \in Seq(Minor) /\ Len(w) = Len(s) + 1
        /\ \A j \in 1 .. Len(s) + 1 : w[j] = IF j < q THEN s[j] ELSE IF j = q THEN x ELSE s[j - 1]
    BY <1>1, <2>1, Inserted, SMTT(60)
  <2>3. m = w
    BY DEF q
  <2> HIDE DEF w, m
  <2>4. QED
    BY <1>1, <2>2, <2>3 DEF q
<1>5. /\ \A j \in 1 .. n : /\ s[j].off >= MajorSize /\ EndOf(s[j]) <= end
                           /\ Padded(s[j].req_size) <= s[j].size
      /\ \A j \in 1 .. n : \A l \in 1 .. j - 1 : EndOf(s[l]) <= s[j].off
  BY <1>1 DEF Sorted
<1>6. /\ MajorSize \in Nat /\ x.off \in Nat
      /\ \A j \in 1 .. n : s[j].off \in Nat /\ EndOf(s[j]) \in Nat /\ s[j].off < EndOf(s[j])
  BY ZenonT(40), <1>1, Ends, LiballocAssumption
<1> HIDE DEF s, n, end, m
<1>7. EndOf(x) \in Nat /\ x.off < EndOf(x) /\ EndOf(x) <= GapEnd(maj, k)
  <2>1. EndOf(x) = x.off + Need(size) /\ Need(size) \in Nat /\ EndOf(x) \in Nat /\ x.off < EndOf(x)
    BY Ends, LiballocAssumption DEF Need
  <2>2. GapEnd(maj, k) \in Nat
    BY <1>1, <1>3, <1>6
  <2>3. QED
    BY <1>2, <1>6, <2>1, <2>2
<1>8. x.off >= MajorSize /\ \A j \in 1 .. k : EndOf(s[j]) <= x.off
  <2>1. CASE k = 0
    BY <1>3, <1>6, <2>1
  <2>2. CASE k # 0
    <3>1. k \in 1 .. n /\ x.off = EndOf(s[k])
      BY <1>1, <1>3, <2>2
    <3>2. ASSUME NEW j \in 1 .. k PROVE EndOf(s[j]) <= x.off
      <4>1. CASE j = k
        BY <1>6, <3>1, <4>1
      <4>2. CASE j # k
        <5>1. j \in 1 .. n /\ j \in 1 .. k - 1
          BY <1>1, <3>1, <4>2
        <5>2. EndOf(s[j]) <= s[k].off
          BY <1>5, <3>1, <5>1
        <5>3. QED
          BY <1>6, <3>1, <5>1, <5>2
      <4>3. QED
        BY <4>1, <4>2
    <3>3. x.off >= MajorSize
      BY <1>5, <1>6, <3>1
    <3>4. QED
      BY <3>2, <3>3
  <2>3. QED
    BY <2>1, <2>2
<1>9. EndOf(x) <= end /\ \A j \in k + 1 .. n : EndOf(x) <= s[j].off
  <2>1. CASE k = n
    BY <1>1, <1>3, <1>7, <2>1
  <2>2. CASE k # n
    <3>1. k + 1 \in 1 .. n /\ EndOf(x) <= s[k + 1].off
      BY <1>1, <1>3, <1>7, <2>2
    <3>2. \A j \in k + 1 .. n : s[k + 1].off <= s[j].off
      <4> SUFFICES ASSUME NEW j \in k + 1 .. n PROVE s[k + 1].off <= s[j].off
        OBVIOUS
      <4>1. CASE j = k + 1
        BY <1>6, <3>1, <4>1
      <4>2. CASE j # k + 1
        <5>1. j \in 1 .. n /\ k + 1 \in 1 .. j - 1
          BY <1>1, <3>1, <4>2
        <5>2. EndOf(s[k + 1]) <= s[j].off
          BY <1>5, <5>1
        <5>3. QED
          BY <1>6, <3>1, <5>1, <5>2
      <4>3. QED
        BY <4>1, <4>2
    <3>3. QED
      BY <1>1, <1>5, <1>6, <1>7, <3>1, <3>2, SMTT(40)
  <2>3. QED
    BY <2>1, <2>2
<1>10. Sorted(m, end)
  <2> SUFFICES ASSUME NEW j \in 1 .. n + 1
               PROVE  /\ m[j].off >= MajorSize /\ EndOf(m[j]) <= end
                      /\ Padded(m[j].req_size) <= m[j].size
                      /\ \A l \in 1 .. j - 1 : EndOf(m[l]) <= m[j].off
    BY <1>4 DEF Sorted
  <2>1. CASE j < k + 1
    <3>1. j \in 1 .. n /\ m[j] = s[j] /\ \A l \in 1 .. j - 1 : m[l] = s[l]
      BY <1>1, <1>4, <2>1
    <3>2. QED
      BY <1>5, <3>1
  <2>2. CASE j = k + 1
    <3>1. m[j] = x /\ \A l \in 1 .. j - 1 : m[l] = s[l] /\ l \in 1 .. k
      BY <1>1, <1>4, <2>2
    <3>2. QED
      BY <1>8, <1>9, <3>1
  <2>3. CASE j > k + 1
    <3>1. j - 1 \in 1 .. n /\ j - 1 \in k + 1 .. n /\ m[j] = s[j - 1]
      BY <1>1, <1>4, <2>3
    <3>2. ASSUME NEW l \in 1 .. j - 1 PROVE EndOf(m[l]) <= s[j - 1].off
      <4>1. CASE l < k + 1
        BY <1>1, <1>4, <1>5, <2>3, <4>1
      <4>2. CASE l = k + 1
        BY <1>1, <1>4, <1>9, <3>1, <4>2
      <4>3. CASE l > k + 1
        <5>1. m[l] = s[l - 1] /\ l - 1 \in 1 .. (j - 1) - 1
          BY <1>1, <1>4, <2>3, <4>3
        <5>2. QED
          BY <1>5, <3>1, <5>1
      <4>4. QED
        BY <1>1, <4>1, <4>2, <4>3
    <3>3. QED
      BY <1>5, <3>1, <3>2
  <2>4. QED
    BY <1>1, <2>1, <2>2, <2>3
<1>11. ASSUME NEW j \in 1 .. n PROVE \E l \in DOMAIN m : m[l].off = s[j].off
  <2>1. CASE j < k + 1
    <3>1. j \in DOMAIN m /\ m[j] = s[j]
      BY <1>1, <1>4, <2>1
    <3>2. QED
      BY <3>1
  <2>2. CASE j >= k + 1
    <3>1. j + 1 \in DOMAIN m /\ m[j + 1] = s[j]
      BY <1>1, <1>4, <2>2
    <3>2. QED
      BY <3>1
  <2>3. QED
    BY <1>1, <2>1, <2>2
<1>12. QED
  BY ZenonT(40), <1>1, <1>4, <1>10, <1>11 DEF s, n, end, m

\* Without one of its blocks a list is still sorted.
LEMMA RemoveSorted ==
    ASSUME NEW s \in Seq(Minor), NEW end, Sorted(s, end), NEW k \in DOMAIN s
    PROVE  Unlinked(s, k) \in Seq(Minor) /\ Sorted(Unlinked(s, k), end)
<1> DEFINE m == Unlinked(s, k)
           n == Len(s)
<1>1. n \in Nat /\ k \in 1 .. n /\ DOMAIN s = 1 .. n
  OBVIOUS
<1>2. m \in Seq(Minor) /\ Len(m) = n - 1
      /\ \A j \in 1 .. n - 1 : m[j] = IF j < k THEN s[j] ELSE s[j + 1]
  BY ZenonT(40), <1>1, Removed
<1> HIDE DEF m, n
<1>3. DOMAIN m = 1 .. n - 1
  BY <1>1, <1>2
<1>4. \A j \in 1 .. n : \A l \in 1 .. j - 1 : EndOf(s[l]) <= s[j].off
  BY <1>1 DEF Sorted
<1>5. \A j \in 1 .. n : /\ s[j].off >= MajorSize /\ EndOf(s[j]) <= end
                        /\ Padded(s[j].req_size) <= s[j].size
  BY <1>1 DEF Sorted
<1>6. ASSUME NEW j \in 1 .. n - 1
      PROVE  \E q \in 1 .. n : /\ m[j] = s[q]
                               /\ \A l \in 1 .. j - 1 : \E p \in 1 .. q - 1 : m[l] = s[p]
  <2>1. CASE j < k
    <3>1. j \in 1 .. n /\ m[j] = s[j] /\ \A l \in 1 .. j - 1 : m[l] = s[l]
      BY <1>1, <1>2, <2>1
    <3>2. QED
      BY <3>1
  <2>2. CASE j >= k
    <3>1. j + 1 \in 1 .. n /\ m[j] = s[j + 1]
      BY <1>1, <1>2, <2>2
    <3>2. ASSUME NEW l \in 1 .. j - 1 PROVE \E p \in 1 .. (j + 1) - 1 : m[l] = s[p]
      <4>1. m[l] = IF l < k THEN s[l] ELSE s[l + 1]
        BY <1>1, <1>2
      <4>2. l \in 1 .. (j + 1) - 1 /\ l + 1 \in 1 .. (j + 1) - 1
        BY <1>1
      <4>3. QED
        BY <4>1, <4>2
    <3>3. QED
      BY <3>1, <3>2
  <2>3. QED
    BY <1>1, <2>1, <2>2
<1>7. Sorted(m, end)
  <2> SUFFICES ASSUME NEW j \in 1 .. n - 1
               PROVE  /\ m[j].off >= MajorSize /\ EndOf(m[j]) <= end
                      /\ Padded(m[j].req_size) <= m[j].size
                      /\ \A l \in 1 .. j - 1 : EndOf(m[l]) <= m[j].off
    BY <1>3 DEF Sorted
  <2>1. PICK q \in 1 .. n : /\ m[j] = s[q]
                            /\ \A l \in 1 .. j - 1 : \E p \in 1 .. q - 1 : m[l] = s[p]
    BY ZenonT(40), <1>6
  <2>2. QED
    BY <1>4, <1>5, <2>1
<1>8. QED
  BY <1>2, <1>7 DEF m

\* What malloc makes of a major block that has a gap
LEMMA PlacedGood ==
    ASSUME NEW h, Good(h), NEW i \in DOMAIN h, NEW req_size \in Nat, NEW size \in Nat,
           size = Padded(req_size), Slot(h[i], size) >= 0
    PROVE  /\ Good(Placed(h, i, size, req_size)) /\ Keeps(h, Placed(h, i, size, req_size))
           /\ DOMAIN Placed(h, i, size, req_size) = DOMAIN h
<1> DEFINE maj == h[i]
           k == Slot(maj, size)
           x == [off |-> GapStart(maj, k), size |-> size, req_size |-> req_size]
           m == Linked(maj.minors, k + 1, x)
           new == [maj EXCEPT !.minors = m, !.usage = UsageWith(maj, size)]
           g == [h EXCEPT ![i] = new]
<1>1. /\ h \in Seq(Major) /\ maj \in Major /\ Sorted(maj.minors, Bytes(maj))
      /\ \A j \in DOMAIN h : h[j] \in Major
  BY DEF Good
<1>2. Placed(h, i, size, req_size) = g
  BY DEF Placed
<1> HIDE DEF maj
<1>3. k \in Gaps(maj, size)
  <2>1. Slot(maj, size) >= 0
    BY DEF maj
  <2>2. Gaps(maj, size) # {} /\ Slot(maj, size) = Min(Gaps(maj, size))
    BY <2>1 DEF Slot
  <2>3. Gaps(maj, size) \subseteq Nat
    BY DEF Gaps
  <2>4. QED
    BY <2>2, <2>3, MinIn
<1>4. k \in 0 .. Len(maj.minors) /\ maj.minors \in Seq(Minor)
  BY <1>1, <1>3 DEF Gaps, Major
<1> HIDE DEF k
<1>5. GapStart(maj, k) \in Nat
  <2>1. CASE k = 0
    BY <2>1, LiballocAssumption DEF GapStart
  <2>2. CASE k # 0
    <3>1. maj.minors[k] \in Minor
      BY <1>4, <2>2
    <3>2. QED
      BY <2>2, <3>1, Ends DEF GapStart
  <2>3. QED
    BY <2>1, <2>2
<1>6. x \in Minor /\ x.off = GapStart(maj, k) /\ x.size = size /\ Padded(x.req_size) <= size
  BY <1>5 DEF Minor
<1> HIDE DEF x
<1>7. /\ m \in Seq(Minor) /\ Sorted(m, Bytes(maj))
      /\ \A j \in DOMAIN maj.minors : \E l \in DOMAIN m : m[l].off = maj.minors[j].off
  BY <1>1, <1>3, <1>6, InsertSorted
<1>8. UsageWith(maj, size) \in Int
  <2>1. maj.usage \in Int
    BY <1>1 DEF Major
  <2>2. \A u \in Int, j \in Nat : u + Need(j) \in Int
    BY LiballocAssumption DEF Need
  <2>3. QED
    BY <2>1, <2>2, Zenon DEF UsageWith
<1> HIDE DEF m
<1>9. /\ new \in Major /\ new.id = maj.id /\ new.pages = maj.pages /\ new.minors = m
      /\ new.usage = UsageWith(maj, size)
  BY ZenonT(40), <1>1, <1>7, <1>8 DEF Major
<1>e. Exact(new.usage, new.minors)
  <2>1. Exact(maj.usage, maj.minors) /\ maj.usage \in Int
    BY <1>1 DEF maj, Good, Major
  <2>2. k + 1 \in 1 .. Len(maj.minors) + 1 /\ x \in Minor /\ x.size = size
    BY <1>4, <1>6
  <2>3. Exact(maj.usage + Need(x.size), Linked(maj.minors, k + 1, x))
    BY <1>4, <2>1, <2>2, ExactInserted
  <2> QED BY <1>9, <2>2, <2>3 DEF UsageWith, m
<1> HIDE DEF new
<1>10. /\ g \in Seq(Major) /\ DOMAIN g = DOMAIN h /\ g[i] = new
       /\ \A j \in DOMAIN h : j # i => g[j] = h[j]
  BY <1>1, <1>9
<1> HIDE DEF g
<1>11. \A j \in DOMAIN h : g[j].id = h[j].id
  BY <1>9, <1>10 DEF maj
<1>12. \A j \in DOMAIN g : Sorted(g[j].minors, Bytes(g[j]))
  <2>1. Sorted(g[i].minors, Bytes(g[i]))
    BY <1>7, <1>9, <1>10 DEF Bytes
  <2>2. QED
    BY <1>10, <2>1 DEF Good
<1>13. Good(g)
  BY <1>e, <1>10, <1>11, <1>12 DEF Good
<1>14. Keeps(h, g)
  <2> SUFFICES ASSUME NEW j \in DOMAIN h
               PROVE  \A l \in DOMAIN h[j].minors :
                         \E q \in DOMAIN g[j].minors : g[j].minors[q].off = h[j].minors[l].off
    BY <1>10, <1>11 DEF Keeps
  <2>1. CASE j = i
    BY <1>7, <1>9, <1>10, <2>1 DEF maj
  <2>2. CASE j # i
    BY <1>10, <2>2
  <2>3. QED
    BY <2>1, <2>2
<1>15. QED
  BY <1>2, <1>10, <1>13, <1>14

\* A heap with a new major block
LEMMA AppendGood ==
    ASSUME NEW h, Good(h), NEW size \in Nat, Fits(size)
    PROVE  LET g == Append(h, NewMajor(h, size)) IN
           /\ Good(g) /\ Keeps(h, g)
           /\ Len(g) \in DOMAIN g /\ Takes(g[Len(g)], size)
<1> DEFINE maj == NewMajor(h, size)
           g == Append(h, maj)
           n == Len(h)
<1>1. h \in Seq(Major) /\ n \in Nat /\ DOMAIN h = 1 .. n
  BY DEF Good
<1>2. maj \in Major /\ maj.minors = <<>> /\ Takes(maj, size)
  BY <1>1, NewTakes
<1>e. Exact(maj.usage, maj.minors)
  BY <1>2, ExactEmpty DEF NewMajor
<1>3. \A i \in DOMAIN h : h[i].id # maj.id
  BY <1>1, FreshId
<1> HIDE DEF maj
<1>4. /\ g \in Seq(Major) /\ Len(g) = n + 1 /\ DOMAIN g = 1 .. n + 1 /\ g[n + 1] = maj
      /\ \A i \in 1 .. n : g[i] = h[i]
  BY <1>1, <1>2
<1> HIDE DEF g, n
<1>5. \A i \in DOMAIN g : i \in DOMAIN h \/ i = n + 1
  BY <1>1, <1>4
<1>6. Sorted(maj.minors, Bytes(maj))
  BY <1>2 DEF Sorted
<1>7. \A i \in DOMAIN g : Sorted(g[i].minors, Bytes(g[i]))
  BY <1>1, <1>4, <1>5, <1>6 DEF Good
<1>8. \A i, j \in DOMAIN g : g[i].id = g[j].id => i = j
  BY <1>1, <1>3, <1>4, <1>5 DEF Good
<1>f. \A i \in DOMAIN g : Exact(g[i].usage, g[i].minors)
  BY <1>1, <1>4, <1>5, <1>e DEF Good
<1>9. Good(g)
  BY <1>4, <1>7, <1>8, <1>f DEF Good
<1>10. Keeps(h, g)
  BY <1>1, <1>4 DEF Keeps
<1>11. Len(g) \in DOMAIN g /\ Takes(g[Len(g)], size)
  BY <1>1, <1>2, <1>4
<1>12. QED
  BY <1>9, <1>10, <1>11 DEF g, maj

\* The block a live id names
LEMMA Positions ==
    ASSUME NEW h, Good(h), NEW i \in DOMAIN h
    PROVE  Position(h, h[i].id) = i
BY DEF Good, Position

\* The search looks at blocks of the list.
LEMMA OrderIn ==
    ASSUME NEW s, Good(s.heap), Live(s.best, s.heap), NEW size
    PROVE  Order(s, size) \in Seq(DOMAIN s.heap)
<1> DEFINE n == Len(s.heap)
           All == [i \in 1 .. n |-> i]
           b == Position(s.heap, s.best)
<1>1. n \in Nat /\ DOMAIN s.heap = 1 .. n
  BY DEF Good
<1>2. All \in Seq(1 .. n) /\ Len(All) = n
  BY <1>1
<1>3. s.best # NULL => b \in 1 .. n
  BY <1>1 DEF Live, Position
<1>4. Order(s, size) = All \/ (s.best # NULL /\ Order(s, size) = SubSeq(All, b, n) \o All)
  BY ZenonT(40) DEF Order
<1> HIDE DEF All, b, n
<1>5. s.best # NULL => SubSeq(All, b, n) \in Seq(1 .. n)
  BY <1>1, <1>2, <1>3
<1>6. s.best # NULL => SubSeq(All, b, n) \o All \in Seq(1 .. n)
  BY <1>2, <1>5
<1>7. QED
  BY ZenonT(40), <1>1, <1>2, <1>4, <1>6

\* The best bet is a block of the list.
LEMMA BetLive ==
    ASSUME NEW s, NEW h, Good(h), Live(s.best, h), NEW visited \in Seq(DOMAIN h)
    PROVE  Live(Bet(s, h, visited), h)
<1> DEFINE known == IF s.best = NULL THEN 0 ELSE Room(h[Position(h, s.best)])
           roomiest == {j \in DOMAIN visited :
                           /\ Room(h[visited[j]]) > known
                           /\ \A l \in DOMAIN visited : Room(h[visited[l]]) <= Room(h[visited[j]])}
<1>1. Bet(s, h, visited) = IF roomiest = {} THEN s.best ELSE h[visited[Min(roomiest)]].id
  BY DEF Bet
<1>2. roomiest \subseteq DOMAIN visited /\ roomiest \subseteq Nat
  OBVIOUS
<1> HIDE DEF roomiest
<1>3. CASE roomiest = {}
  BY <1>1, <1>3
<1>4. CASE roomiest # {}
  <2>1. Min(roomiest) \in DOMAIN visited
    BY <1>2, <1>4, MinIn
  <2>2. visited[Min(roomiest)] \in DOMAIN h
    BY <2>1
  <2>3. h[visited[Min(roomiest)]].id \in Nat
    <3>1. \A i \in DOMAIN h : h[i] \in Major
      BY DEF Good
    <3>2. \A i \in DOMAIN h : h[i].id \in Nat
      BY <3>1 DEF Major
    <3>3. QED
      BY <2>2, <3>2, Zenon
  <2>4. QED
    BY <1>1, <1>4, <2>2, <2>3 DEF Live
<1>5. QED
  BY <1>3, <1>4

\* A block stays in a list that keeps its blocks.
LEMMA LiveKept ==
    ASSUME NEW b, NEW h, NEW g, Live(b, h), Keeps(h, g)
    PROVE  Live(b, g)
BY DEF Live, Keeps

\* What is kept, and kept again, is kept.
LEMMA KeepsTwice ==
    ASSUME NEW h, NEW g, NEW f, Keeps(h, g), Keeps(g, f)
    PROVE  Keeps(h, f)
<1> SUFFICES ASSUME NEW i \in DOMAIN h
             PROVE  /\ i \in DOMAIN f /\ f[i].id = h[i].id
                    /\ \A k \in DOMAIN h[i].minors :
                          \E l \in DOMAIN f[i].minors : f[i].minors[l].off = h[i].minors[k].off
  BY DEF Keeps
<1>1. i \in DOMAIN g /\ g[i].id = h[i].id /\ i \in DOMAIN f /\ f[i].id = g[i].id
  BY DEF Keeps
<1>2. ASSUME NEW k \in DOMAIN h[i].minors
      PROVE  \E l \in DOMAIN f[i].minors : f[i].minors[l].off = h[i].minors[k].off
  <2>1. PICK p \in DOMAIN g[i].minors : g[i].minors[p].off = h[i].minors[k].off
    BY DEF Keeps
  <2>2. PICK l \in DOMAIN f[i].minors : f[i].minors[l].off = g[i].minors[p].off
    BY <1>1 DEF Keeps
  <2>3. QED
    BY <2>1, <2>2
<1>3. QED
  BY <1>1, <1>2

-----------------------------------------------------------------------------
(* The operations.                                                         *)

\* malloc keeps what is allocated and the order of the lists, whether it
\* finds a gap, gets a new major block or returns NULL.
LEMMA MallocGood ==
    ASSUME NEW list, NEW bb, Good(list), Live(bb, list), NEW req_size \in Nat,
           Fits(Padded(req_size))
    PROVE  LET r == malloc([heap |-> list, best |-> bb], req_size) IN
           Good(r.heap) /\ Live(r.best, r.heap) /\ Keeps(list, r.heap) /\ (r.at = <<>> => r.heap = list)
<1> DEFINE s == [heap |-> list, best |-> bb]
           size == Padded(req_size)
           Fail == [heap |-> s.heap, best |-> s.best, at |-> <<>>]
           h == IF s.heap = <<>> THEN <<NewMajor(<<>>, size)>> ELSE s.heap
           t == [s EXCEPT !.heap = h]
           order == Order(t, size)
           fits == {j \in DOMAIN order : Takes(h[order[j]], size)}
           bet == Bet(s, h, order)
           grown == Append(h, NewMajor(h, size))
           late == Bet([s EXCEPT !.best = bet], grown, <<Len(grown)>>)
           Result(g, i, b) == [heap |-> Placed(g, i, size, req_size), best |-> b,
                               at |-> <<g[i].id, GapStart(g[i], Slot(g[i], size))>>]
           r == malloc(s, req_size)
           early == Bet(s, h, SubSeq(order, 1, Min(fits)))
           Fine(q) == /\ Good(q.heap) /\ Live(q.best, q.heap) /\ Keeps(s.heap, q.heap)
                      /\ (q.at = <<>> => q.heap = s.heap)
<1>a. s.heap = list /\ s.best = bb
  OBVIOUS
<1> SUFFICES Fine(r)
  BY <1>a
<1>b. /\ \A g : [s EXCEPT !.heap = g].heap = g /\ [s EXCEPT !.heap = g].best = s.best
      /\ \A b : [s EXCEPT !.best = b].best = b
  OBVIOUS
<1> HIDE DEF s
<1>c. Good(s.heap) /\ Live(s.best, s.heap)
  BY <1>a
<1>1. /\ Good(h) /\ Live(s.best, h) /\ Keeps(s.heap, h) /\ (s.heap # <<>> => h = s.heap)
      /\ (s.heap = <<>> => s.best = NULL /\ DOMAIN h = {1} /\ Takes(h[1], size))
  <2>1. CASE s.heap # <<>>
    BY <1>c, <2>1 DEF Keeps
  <2>2. CASE s.heap = <<>>
    <3> DEFINE maj == NewMajor(<<>>, size)
    <3>1. size \in Nat
      BY LiballocAssumption DEF Padded
    <3>2. maj \in Major /\ Takes(maj, size) /\ maj.minors = <<>>
      <4>1. <<>> \in Seq(Major)
        OBVIOUS
      <4>2. QED
        BY ZenonT(40), <3>1, <4>1, NewTakes
    <3>e. Exact(maj.usage, maj.minors)
      BY <3>2, ExactEmpty DEF NewMajor
    <3>3. h = <<maj>> /\ s.best = NULL /\ NULL \in Nat
      BY <1>c, <2>2 DEF Live, NULL
    <3> HIDE DEF maj
    <3>4. <<maj>> \in Seq(Major) /\ DOMAIN <<maj>> = {1} /\ <<maj>>[1] = maj
      BY <3>2
    <3> HIDE DEF h
    <3>5. Sorted(maj.minors, Bytes(maj))
      BY <3>2 DEF Sorted
    <3>6. Good(h)
      BY <3>3, <3>4, <3>5, <3>e DEF Good
    <3>7. QED
      BY <2>2, <3>2, <3>3, <3>4, <3>6 DEF Live, Keeps
  <2>3. QED
    BY <2>1, <2>2
<1>2. size \in Nat /\ size = Padded(req_size)
  BY LiballocAssumption DEF Padded
<1>3. t.heap = h /\ t.best = s.best
  BY <1>b
<1>4. r = IF s.heap = <<>> /\ ~Available(<<>>, size) THEN Fail
          ELSE IF fits # {} THEN Result(h, order[Min(fits)], early)
          ELSE IF ~Available(h, size) THEN [Fail EXCEPT !.best = bet]
          ELSE Result(grown, Len(grown), IF Room(h[Len(h)]) >= Need(size) THEN late ELSE bet)
  BY DEF malloc
<1> HIDE DEF r, h, t, size
<1>5. order \in Seq(DOMAIN h)
  BY <1>1, <1>3, OrderIn
<1>6. s.heap = <<>> => fits # {}
  <2> HAVE s.heap = <<>>
  <2>1. s.best = NULL /\ DOMAIN h = {1} /\ Takes(h[1], size)
    BY <1>1
  <2>2. Len(h) = 1
    BY <1>1, <2>1 DEF Good
  <2>3. order = [i \in 1 .. 1 |-> i]
    BY <1>3, <2>1, <2>2 DEF Order
  <2>4. 1 \in DOMAIN order /\ order[1] = 1
    BY <2>3
  <2>5. QED
    BY <2>1, <2>4
<1> HIDE DEF order
<1>7. fits \subseteq DOMAIN order /\ fits \subseteq Nat /\ \A j \in fits : Takes(h[order[j]], size)
  BY <1>5
<1> HIDE DEF fits
<1>8. Live(bet, h)
  BY <1>1, <1>5, BetLive
<1> HIDE DEF bet
<1>9. ASSUME NEW g, NEW i \in DOMAIN g, NEW b, Good(g), Takes(g[i], size), Live(b, g), Keeps(s.heap, g),
             r = Result(g, i, b)
      PROVE  Fine(r)
  <2> DEFINE p == Placed(g, i, size, req_size)
             at == <<g[i].id, GapStart(g[i], Slot(g[i], size))>>
  <2>1. r.heap = p /\ r.best = b /\ r.at = at
    BY <1>9
  <2>2. at # <<>>
    OBVIOUS
  <2>3. Slot(g[i], size) >= 0
    BY <1>9 DEF Takes
  <2>4. Good(p) /\ Keeps(g, p)
    BY <1>2, <1>9, <2>3, PlacedGood
  <2> HIDE DEF p, at
  <2>5. Live(b, p) /\ Keeps(s.heap, p)
    BY <1>9, <2>4, LiveKept, KeepsTwice
  <2>6. QED
    BY <2>1, <2>2, <2>4, <2>5
<1>10. CASE r = Fail
  <2>1. r.heap = s.heap /\ r.best = s.best
    BY <1>10
  <2>2. Keeps(s.heap, s.heap)
    BY DEF Keeps
  <2>3. QED
    BY <1>c, <2>1, <2>2
<1>11. CASE fits # {} /\ r = Result(h, order[Min(fits)], early)
  <2> DEFINE n == Min(fits)
             seen == SubSeq(order, 1, n)
  <2>1. n \in fits
    BY <1>7, <1>11, MinIn
  <2>2. n \in 1 .. Len(order)
    BY <1>5, <1>7, <2>1
  <2> HIDE DEF n
  <2>3. seen \in Seq(DOMAIN h) /\ order[n] \in DOMAIN h /\ Takes(h[order[n]], size)
    BY <1>5, <1>7, <2>1, <2>2
  <2> HIDE DEF seen
  <2>4. Live(Bet(s, h, seen), h)
    BY <1>1, <2>3, BetLive
  <2>5. r = Result(h, order[n], Bet(s, h, seen))
    BY <1>11 DEF n, seen
  <2> HIDE DEF Result, Fine
  <2>6. QED
    BY <1>1, <1>9, <2>3, <2>4, <2>5
<1>12. CASE s.heap # <<>> /\ r = [Fail EXCEPT !.best = bet]
  <2>1. r.heap = s.heap /\ r.best = bet
    BY <1>12
  <2>2. Live(bet, s.heap)
    BY <1>1, <1>8, <1>12
  <2>3. Keeps(s.heap, s.heap)
    BY DEF Keeps
  <2>4. QED
    BY <1>c, <2>1, <2>2, <2>3
<1>13. ASSUME NEW b \in {late, bet}, r = Result(grown, Len(grown), b)
       PROVE  Fine(r)
  <2>1. /\ Good(grown) /\ Keeps(h, grown)
        /\ Len(grown) \in DOMAIN grown /\ Takes(grown[Len(grown)], size)
    BY <1>1, <1>2, AppendGood
  <2> HIDE DEF grown
  <2>2. Live(bet, grown) /\ Keeps(s.heap, grown)
    BY <1>1, <1>8, <2>1, LiveKept, KeepsTwice
  <2>3. <<Len(grown)>> \in Seq(DOMAIN grown)
    BY <2>1
  <2>4. [s EXCEPT !.best = bet].best = bet
    BY <1>b
  <2>5. Live(late, grown)
    BY ZenonT(40), <2>1, <2>2, <2>3, <2>4, BetLive
  <2>6. Live(b, grown)
    BY <2>2, <2>5
  <2> HIDE DEF Result, Fine, late
  <2>7. QED
    BY <1>9, <1>13, <2>1, <2>2, <2>6
<1>14. Fine(r)
  <2> HIDE DEF Result, Fine, Fail, late, early, grown
  <2>1. CASE s.heap = <<>> /\ ~Available(<<>>, size)
    BY <1>4, <1>10, <2>1
  <2>2. CASE fits # {} /\ ~(s.heap = <<>> /\ ~Available(<<>>, size))
    BY <1>4, <1>11, <2>2
  <2>3. CASE fits = {} /\ ~Available(h, size)
    BY <1>4, <1>6, <1>12, <2>3
  <2>4. CASE fits = {} /\ Available(h, size)
    BY <1>4, <1>6, <1>13, <2>4
  <2>5. QED
    BY <2>1, <2>2, <2>3, <2>4
<1>15. QED
  BY <1>14 DEF r

\* free leaves good lists, and no best bet that is not in them.
LEMMA FreeGood ==
    ASSUME NEW h, NEW b, Good(h), Live(b, h), NEW i \in DOMAIN h, NEW k \in DOMAIN h[i].minors,
           NEW id, id = h[i].id, NEW off, off = h[i].minors[k].off
    PROVE  LET r == free([heap |-> h, best |-> b], id, off) IN
           Good(r.heap) /\ Live(r.best, r.heap)
<1> DEFINE s == [heap |-> h, best |-> b]
           p == Position(s.heap, id)
           maj == s.heap[p]
           c == CHOOSE j \in DOMAIN maj.minors : maj.minors[j].off = off
           left == [maj EXCEPT !.minors = Unlinked(@, c), !.usage = @ - Need(maj.minors[c].size)]
           BestRoom == IF s.best = id THEN Room(left) ELSE Room(s.heap[Position(s.heap, s.best)])
           r == free(s, id, off)
<1> SUFFICES Good(r.heap) /\ Live(r.best, r.heap)
  OBVIOUS
<1>1. s.heap = h /\ s.best = b
  OBVIOUS
<1> HIDE DEF s
<1>2. p = i /\ maj = h[i]
  <2>1. p = i
    BY <1>1, Positions
  <2>2. QED
    BY <1>1, <2>1
<1>3. r = IF Emptied(left) THEN [heap |-> Unlinked(h, i), best |-> BestCleared(b, id)]
          ELSE [heap |-> [h EXCEPT ![i] = left], best |-> IF b # NULL /\ Room(left) > BestRoom THEN id ELSE b]
  <2>1. r = IF Emptied(left) THEN [heap |-> Unlinked(s.heap, p), best |-> BestCleared(s.best, id)]
            ELSE [heap |-> [s.heap EXCEPT ![p] = left],
                  best |-> IF s.best # NULL /\ Room(left) > BestRoom THEN id ELSE s.best]
    BY DEF free
  <2> HIDE DEF r, left, BestRoom, p, maj
  <2>2. QED
    BY <1>1, <1>2, <2>1, Zenon
<1> HIDE DEF maj, p
<1>4. /\ h \in Seq(Major) /\ maj \in Major /\ maj.minors \in Seq(Minor) /\ Sorted(maj.minors, Bytes(maj))
      /\ DOMAIN h = 1 .. Len(h) /\ Len(h) \in Nat /\ maj.usage \in Int
  <2>1. h \in Seq(Major) /\ Sorted(maj.minors, Bytes(maj))
    BY <1>2 DEF Good
  <2>2. maj \in Major
    BY <1>2, <2>1
  <2>3. maj.minors \in Seq(Minor) /\ maj.usage \in Int
    BY <2>2 DEF Major
  <2>4. QED
    BY <2>1, <2>2, <2>3
<1>5. c \in DOMAIN maj.minors
  BY <1>2
<1> HIDE DEF c
<1>6. Unlinked(maj.minors, c) \in Seq(Minor) /\ Sorted(Unlinked(maj.minors, c), Bytes(maj))
  BY <1>4, <1>5, RemoveSorted
<1>7. maj.usage - Need(maj.minors[c].size) \in Int
  <2>1. maj.minors[c] \in Minor
    BY <1>4, <1>5
  <2>2. maj.minors[c].size \in Nat
    BY <2>1, Ends
  <2>3. \A u \in Int, n \in Nat : u - Need(n) \in Int
    BY LiballocAssumption DEF Need
  <2>4. QED
    BY <1>4, <2>2, <2>3, Zenon
<1>8. /\ left \in Major /\ left.id = id /\ left.pages = maj.pages /\ left.minors = Unlinked(maj.minors, c)
      /\ left.usage = maj.usage - Need(maj.minors[c].size)
  BY ZenonT(40), <1>2, <1>4, <1>6, <1>7 DEF Major
<1>e. Exact(left.usage, left.minors)
  <2>1. Exact(maj.usage, maj.minors) /\ c \in 1 .. Len(maj.minors)
    BY <1>2, <1>4, <1>5 DEF Good
  <2>2. Exact(maj.usage - Need(maj.minors[c].size), Unlinked(maj.minors, c))
    BY <1>4, <2>1, ExactRemoved
  <2> QED BY <1>8, <2>2
<1> HIDE DEF left, BestRoom, r
<1>9. id \in Nat
  BY <1>2, <1>4 DEF Major
<1>10. CASE Emptied(left)
  <2> DEFINE g == Unlinked(h, i)
             n == Len(h)
  <2>1. n \in Nat /\ i \in 1 .. n /\ DOMAIN h = 1 .. n
    BY <1>4
  <2>2. /\ g \in Seq(Major) /\ Len(g) = n - 1
        /\ \A j \in 1 .. n - 1 : g[j] = IF j < i THEN h[j] ELSE h[j + 1]
    BY ZenonT(40), <1>4, <2>1, Removed
  <2> HIDE DEF g, n
  <2>3. DOMAIN g = 1 .. n - 1
    BY <2>1, <2>2
  <2>4. ASSUME NEW j \in DOMAIN g
        PROVE  \E l \in DOMAIN h : l # i /\ g[j] = h[l] /\ l = IF j < i THEN j ELSE j + 1
    <3>1. CASE j < i
      BY <2>1, <2>2, <2>3, <3>1
    <3>2. CASE ~(j < i)
      <4> DEFINE l == j + 1
      <4>1. l \in DOMAIN h /\ l # i
        BY <2>1, <2>3, <3>2
      <4>2. g[j] = h[l]
        BY <2>2, <2>3, <3>2
      <4>3. QED
        BY <3>2, <4>1, <4>2
    <3>3. QED
      BY <3>1, <3>2
  <2>5. \A j \in DOMAIN g : Sorted(g[j].minors, Bytes(g[j]))
    BY <2>4 DEF Good
  <2>6. ASSUME NEW j \in DOMAIN g, NEW m \in DOMAIN g, g[j].id = g[m].id
        PROVE  j = m
    <3>1. PICK l \in DOMAIN h : g[j] = h[l] /\ l = IF j < i THEN j ELSE j + 1
      BY <2>4
    <3>2. PICK q \in DOMAIN h : g[m] = h[q] /\ q = IF m < i THEN m ELSE m + 1
      BY <2>4
    <3>3. l = q
      BY <2>6, <3>1, <3>2 DEF Good
    <3>4. QED
      BY <2>1, <2>3, <3>1, <3>2, <3>3
  <2>e. \A j \in DOMAIN g : Exact(g[j].usage, g[j].minors)
    BY <2>4 DEF Good
  <2>7. Good(g)
    BY <2>2, <2>5, <2>6, <2>e DEF Good
  <2>8. Live(BestCleared(b, id), g)
    <3>1. CASE b = id \/ b = NULL
      BY <3>1 DEF BestCleared, Live, NULL
    <3>2. CASE b # id /\ b # NULL
      <4>1. PICK l \in DOMAIN h : h[l].id = b
        BY <3>2 DEF Live
      <4>2. l # i
        BY <3>2, <4>1
      <4>3. \E j \in DOMAIN g : g[j] = h[l]
        <5>1. CASE l < i
          BY <2>1, <2>2, <2>3, <5>1
        <5>2. CASE l > i
          <6> DEFINE j == l - 1
          <6>1. j \in DOMAIN g /\ ~(j < i) /\ j + 1 = l
            BY <2>1, <2>3, <5>2
          <6>2. g[j] = h[j + 1]
            BY <2>2, <2>3, <6>1
          <6>3. QED
            BY <6>1, <6>2
        <5>3. QED
          BY <2>1, <4>2, <5>1, <5>2
      <4>4. QED
        BY <3>2, <4>1, <4>3 DEF BestCleared, Live
    <3>3. QED
      BY <3>1, <3>2
  <2>9. r.heap = g /\ r.best = BestCleared(b, id)
    BY <1>3, <1>10 DEF g
  <2>10. QED
    BY <2>7, <2>8, <2>9
<1>11. CASE ~Emptied(left)
  <2> DEFINE g == [h EXCEPT ![i] = left]
  <2>1. /\ g \in Seq(Major) /\ DOMAIN g = DOMAIN h /\ g[i] = left
        /\ \A j \in DOMAIN h : j # i => g[j] = h[j]
    BY <1>4, <1>8
  <2>2. r.heap = g /\ r.best \in {id, b}
    BY <1>3, <1>11
  <2> HIDE DEF g
  <2>3. Sorted(g[i].minors, Bytes(g[i]))
    BY <1>6, <1>8, <2>1 DEF Bytes
  <2>4. \A j \in DOMAIN h : g[j].id = h[j].id
    BY <1>8, <2>1
  <2>5. Good(g)
    BY <1>e, <2>1, <2>3, <2>4 DEF Good
  <2>6. Live(id, g) /\ Live(b, g)
    BY <1>9, <2>1, <2>4 DEF Live
  <2>7. QED
    BY <2>2, <2>5, <2>6
<1>12. QED
  BY <1>10, <1>11

\* A smaller req_size changes nothing else.
LEMMA ShrinkGood ==
    ASSUME NEW h, Good(h), NEW i \in DOMAIN h, NEW k \in DOMAIN h[i].minors,
           NEW size \in Nat, size <= h[i].minors[k].req_size, NEW off, off = h[i].minors[k].off
    PROVE  LET g == Resized(h, i, off, size) IN
           Good(g) /\ \A b : Live(b, h) => Live(b, g)
<1> DEFINE maj == h[i]
           old == maj.minors
           m == [l \in DOMAIN old |-> IF old[l].off = off THEN [old[l] EXCEPT !.req_size = size] ELSE old[l]]
           new == [maj EXCEPT !.minors = m]
           g == [h EXCEPT ![i] = new]
<1>0. Resized(h, i, off, size) = g
  BY DEF Resized
<1>1. /\ h \in Seq(Major) /\ maj \in Major /\ old \in Seq(Minor) /\ Sorted(old, Bytes(maj))
      /\ \A j \in DOMAIN h : h[j] \in Major
  <2>1. h \in Seq(Major) /\ Sorted(old, Bytes(maj))
    BY DEF Good
  <2>2. \A j \in DOMAIN h : h[j] \in Major
    BY <2>1
  <2>3. old \in Seq(Minor)
    BY <2>2 DEF Major
  <2>4. QED
    BY <2>1, <2>2, <2>3
<1>2. \A l \in DOMAIN old : old[l] \in Minor
  BY <1>1
<1>3. m = [l \in DOMAIN old |-> IF old[l].off = off THEN [old[l] EXCEPT !.req_size = size] ELSE old[l]]
  OBVIOUS
<1>4. k \in DOMAIN old /\ off = old[k].off /\ size <= old[k].req_size /\ DOMAIN old = 1 .. Len(old) /\ Len(old) \in Nat
  BY <1>1
<1> HIDE DEF old, m
<1>5. ASSUME NEW l \in DOMAIN old
      PROVE  m[l] \in Minor /\ m[l].off = old[l].off /\ m[l].size = old[l].size
  BY <1>2, <1>3 DEF Minor
<1>6. DOMAIN m = DOMAIN old /\ m \in Seq(Minor)
  <2>1. DOMAIN m = DOMAIN old
    BY <1>3
  <2>2. m \in [1 .. Len(old) -> Minor]
    <3>1. m = [l \in 1 .. Len(old) |-> m[l]]
      BY <1>3, <1>4
    <3>2. QED
      BY <1>4, <1>5, <3>1
  <2>3. \A n \in Nat : \A f \in [1 .. n -> Minor] : f \in Seq(Minor)
    OBVIOUS
  <2>4. m \in Seq(Minor)
    BY <1>4, <2>2, <2>3, Zenon
  <2>5. QED
    BY <2>1, <2>4
<1>7. ASSUME NEW l \in DOMAIN old
      PROVE  EndOf(m[l]) = EndOf(old[l])
  BY <1>5 DEF EndOf
<1>8. ASSUME NEW l \in DOMAIN old
      PROVE  Padded(m[l].req_size) <= m[l].size
  <2>1. Padded(old[l].req_size) <= old[l].size
    BY <1>1 DEF Sorted
  <2>2. CASE old[l].off # off
    BY <1>3, <1>5, <2>1, <2>2
  <2>3. CASE old[l].off = off
    <3>1. l = k
      <4>1. \A x, y \in DOMAIN old : x < y => old[x].off # old[y].off
        <5> TAKE x, y \in DOMAIN old
        <5> HAVE x < y
        <5>1. EndOf(old[x]) <= old[y].off
          BY <1>1, <1>4 DEF Sorted
        <5>2. old[x] \in Minor /\ old[y] \in Minor
          BY <1>2
        <5>3. QED
          BY <5>1, <5>2, Ends
      <4>2. QED
        BY <1>4, <2>3, <4>1
    <3>2. m[l].req_size = size
      BY <1>2, <1>3, <2>3 DEF Minor
    <3>3. old[l] \in Minor /\ size <= old[l].req_size
      BY <1>2, <1>4, <3>1
    <3>4. old[l].req_size \in Nat /\ old[l].size \in Nat
      BY <3>3, Ends
    <3>5. QED
      <4>1. \A x, y, e \in Nat : x <= y /\ Padded(y) <= e => Padded(x) <= e
        BY LiballocAssumption DEF Padded
      <4>2. Padded(size) <= old[l].size
        BY <2>1, <3>3, <3>4, <4>1
      <4>3. QED
        BY <1>5, <3>2, <4>2
  <2>4. QED
    BY <2>2, <2>3
<1>9. Sorted(m, Bytes(maj))
  <2> SUFFICES ASSUME NEW j \in DOMAIN m
               PROVE  /\ m[j].off >= MajorSize /\ EndOf(m[j]) <= Bytes(maj)
                      /\ \A l \in 1 .. j - 1 : EndOf(m[l]) <= m[j].off
    BY <1>6, <1>8 DEF Sorted
  <2>1. m[j].off >= MajorSize /\ EndOf(m[j]) <= Bytes(maj)
    BY <1>1, <1>5, <1>6, <1>7 DEF Sorted
  <2>2. ASSUME NEW l \in 1 .. j - 1
        PROVE  EndOf(m[l]) <= m[j].off
    <3>1. l \in DOMAIN old
      BY <1>4, <1>6
    <3>2. EndOf(old[l]) <= old[j].off
      BY <1>1, <1>6 DEF Sorted
    <3>3. QED
      BY <1>5, <1>6, <1>7, <3>1, <3>2
  <2>3. QED
    BY <2>1, <2>2
<1>10. /\ new \in Major /\ new.id = maj.id /\ new.pages = maj.pages /\ new.minors = m
       /\ new.usage = maj.usage
  BY ZenonT(40), <1>1, <1>6 DEF Major
<1>e. Exact(new.usage, new.minors)
  <2>1. Exact(maj.usage, old)
    BY DEF Good, old
  <2>2. Len(m) = Len(old) /\ \A l \in 1 .. Len(old) : m[l].size = old[l].size
    BY <1>1, <1>4, <1>5, <1>6
  <2>3. Exact(maj.usage, m)
    BY <1>1, <1>6, <2>1, <2>2, ExactSame
  <2> QED BY <1>10, <2>3
<1> HIDE DEF new
<1>11. /\ g \in Seq(Major) /\ DOMAIN g = DOMAIN h /\ g[i] = new
       /\ \A j \in DOMAIN h : j # i => g[j] = h[j]
  BY <1>1, <1>10
<1> HIDE DEF g
<1>12. \A j \in DOMAIN h : g[j].id = h[j].id
  BY <1>10, <1>11
<1>13. Sorted(g[i].minors, Bytes(g[i]))
  BY <1>9, <1>10, <1>11 DEF Bytes
<1>14. Good(g)
  BY <1>e, <1>11, <1>12, <1>13 DEF Good
<1>15. \A b : Live(b, h) => Live(b, g)
  BY <1>11, <1>12 DEF Live
<1>16. QED
  BY ZenonT(40), <1>0, <1>14, <1>15 DEF g

-----------------------------------------------------------------------------
(* The invariant of the heap, and what follows from it.                    *)

\* The header MinorAt finds is the one that was asked for.
LEMMA HeldBlock ==
    ASSUME Good(heap), NEW blk \in Held
    PROVE  \E i \in DOMAIN heap : \E k \in DOMAIN heap[i].minors :
              /\ blk[1] = heap[i].id /\ blk[2] = heap[i].minors[k].off
              /\ Position(heap, blk[1]) = i
              /\ MinorAt(blk[1], blk[2]) = heap[i].minors[k]
<1>1. PICK i \in DOMAIN heap :
         blk \in {<<heap[i].id, heap[i].minors[j].off>> : j \in DOMAIN heap[i].minors}
  BY DEF Held
<1>2. PICK j \in DOMAIN heap[i].minors : blk = <<heap[i].id, heap[i].minors[j].off>>
  BY <1>1
<1>3. Position(heap, blk[1]) = i
  BY <1>2, Positions
<1> DEFINE p == Position(heap, blk[1])
           minors == heap[p].minors
           k == CHOOSE l \in DOMAIN minors : minors[l].off = blk[2]
<1>4. MinorAt(blk[1], blk[2]) = minors[k]
  BY DEF MinorAt
<1>5. k \in DOMAIN minors /\ minors[k].off = blk[2]
  BY <1>2, <1>3
<1> HIDE DEF k
<1>6. k \in DOMAIN heap[i].minors /\ heap[i].minors[k].off = blk[2] /\ blk[1] = heap[i].id
  BY <1>2, <1>3, <1>5
<1>7. QED
  BY <1>3, <1>4, <1>6

\* Every operation keeps the invariant.
LEMMA StepIInv == IInv /\ [Next]_vars => IInv'
<1> SUFFICES ASSUME IInv, [Next]_vars
             PROVE  IInv'
  OBVIOUS
<1>1. Good(heap) /\ Live(best, heap)
  BY DEF IInv
<1>2. \A size \in Requests : size \in Nat
  BY LiballocAssumption
<1> DEFINE s == [heap |-> heap, best |-> best]
<1>3. State = s
  BY DEF State
<1>4. ASSUME NEW r, Good(r.heap), Live(r.best, r.heap), Becomes(r)
      PROVE  IInv'
  BY <1>4 DEF Becomes, IInv, Good, Live
<1>5. ASSUME NEW size \in Requests, kmalloc(size) \/ kcalloc(size)
      PROVE  IInv'
  <2> DEFINE r == malloc(s, size)
  <2>1. Good(r.heap) /\ Live(r.best, r.heap)
    BY <1>1, <1>2, RequestsFit, MallocGood
  <2>2. Becomes(r)
    BY <1>3, <1>5 DEF kmalloc, kcalloc
  <2> HIDE DEF r
  <2>3. QED
    BY <1>4, <2>1, <2>2
<1>6. ASSUME NEW blk \in Held, kfree(blk[1], blk[2])
      PROVE  IInv'
  <2> DEFINE r == free(s, blk[1], blk[2])
  <2>1. PICK i \in DOMAIN heap : \E k \in DOMAIN heap[i].minors :
           blk[1] = heap[i].id /\ blk[2] = heap[i].minors[k].off
    BY <1>1, HeldBlock
  <2>2. PICK k \in DOMAIN heap[i].minors : blk[1] = heap[i].id /\ blk[2] = heap[i].minors[k].off
    BY <2>1
  <2>3. Good(r.heap) /\ Live(r.best, r.heap)
    BY <1>1, <2>2, FreeGood
  <2>4. Becomes(r)
    BY <1>3, <1>6 DEF kfree
  <2> HIDE DEF r
  <2>5. QED
    BY <1>4, <2>3, <2>4
<1>7. ASSUME NEW blk \in Held, NEW size \in Requests \cup {0}, krealloc(blk[1], blk[2], size)
      PROVE  IInv'
  <2> DEFINE id == blk[1]
             off == blk[2]
             r == malloc(s, size)
             f == free([heap |-> r.heap, best |-> r.best], id, off)
             g == Resized(heap, Position(heap, id), off, size)
  <2>1. PICK i \in DOMAIN heap : \E k \in DOMAIN heap[i].minors :
           /\ id = heap[i].id /\ off = heap[i].minors[k].off
           /\ Position(heap, id) = i /\ MinorAt(id, off) = heap[i].minors[k]
    BY <1>1, HeldBlock
  <2>2. PICK k \in DOMAIN heap[i].minors :
           /\ id = heap[i].id /\ off = heap[i].minors[k].off
           /\ Position(heap, id) = i /\ MinorAt(id, off) = heap[i].minors[k]
    BY <2>1
  <2>3. size \in Nat
    BY SMTT(60), <1>2
  <2>4. \/ size = 0 /\ kfree(id, off)
        \/ /\ MinorAt(id, off).req_size >= size
           /\ heap' = g /\ best' = best
        \/ r.at = <<>> /\ heap' = heap /\ best' = r.best
        \/ Becomes(f)
    BY <1>3, <1>7 DEF krealloc
  <2>5. CASE size = 0 /\ kfree(id, off)
    BY <1>6, <2>5
  <2>6. CASE /\ MinorAt(id, off).req_size >= size
             /\ heap' = g /\ best' = best
    <3>3. heap[i].minors[k].req_size \in Nat /\ size <= heap[i].minors[k].req_size
      <4>1. heap[i] \in Major
        BY <1>1 DEF Good
      <4>2. heap[i].minors \in Seq(Minor)
        BY <4>1 DEF Major
      <4>3. heap[i].minors[k] \in Minor
        BY <4>2
      <4>4. heap[i].minors[k].req_size \in Nat
        BY <4>3, Ends
      <4>5. QED
        BY <2>2, <2>3, <2>6, <4>4
    <3>4. Good(g) /\ \A b : Live(b, heap) => Live(b, g)
      BY <1>1, <2>2, <2>3, <3>3, ShrinkGood
    <3> HIDE DEF g
    <3>5. Good(heap') /\ Live(best', heap')
      BY <1>1, <2>6, <3>4
    <3>6. QED
      BY <3>5 DEF IInv, Good, Live
  <2>7. /\ Good(r.heap) /\ Live(r.best, r.heap) /\ Keeps(heap, r.heap)
        /\ (r.at = <<>> => r.heap = heap)
    BY SMTT(60), <1>1, <2>3, RequestsFit, MallocGood
  <2> HIDE DEF r
  <2>8. CASE r.at = <<>> /\ heap' = heap /\ best' = r.best
    BY <2>7, <2>8 DEF IInv, Good, Live
  <2>9. CASE Becomes(f)
    <3>1. i \in DOMAIN r.heap /\ r.heap[i].id = id
      BY <2>2, <2>7 DEF Keeps
    <3>2. PICK l \in DOMAIN r.heap[i].minors : r.heap[i].minors[l].off = off
      BY SMTT(60), <2>2, <2>7 DEF Keeps
    <3>3. Good(f.heap) /\ Live(f.best, f.heap)
      BY SMTT(60), <2>7, <3>1, <3>2, FreeGood
    <3> HIDE DEF f
    <3>4. QED
      BY <1>4, <2>9, <3>3
  <2>10. QED
    BY <2>4, <2>5, <2>6, <2>8, <2>9
<1>8. CASE UNCHANGED vars
  BY <1>1, <1>8 DEF vars, IInv, Good, Live
<1>9. QED
  BY <1>5, <1>6, <1>7, <1>8 DEF Next

\* The pointer of a block, with the arithmetic of ALIGN.
LEMMA PointerGood ==
    ASSUME NEW x \in Minor, Padded(x.req_size) <= x.size
    PROVE  LET p == Pointer(x) IN
           /\ p % ALIGNMENT = 0
           /\ p - ALIGN_INFO >= x.off + MinorSize
           /\ p + x.req_size <= EndOf(x)
           /\ UNALIGN(p, p - (x.off + MinorSize)) = x.off + MinorSize
<1> DEFINE data == x.off + MinorSize
           a == data + ALIGN_INFO
           r == a % ALIGNMENT
           q == a \div ALIGNMENT
           d == (ALIGNMENT - r) % ALIGNMENT
<1>1. /\ x.off \in Nat /\ x.size \in Nat /\ x.req_size \in Nat
      /\ EndOf(x) = x.off + (MinorSize + x.size)
  BY Ends
<1>2. ALIGNMENT \in Nat \ {0} /\ ALIGN_INFO \in Nat /\ MinorSize \in Nat
  BY LiballocAssumption
<1>3. data \in Nat /\ a \in Nat
  BY <1>1, <1>2
<1>4. Pointer(x) = a + d
  BY DEF Pointer, Diff
<1> HIDE DEF a, data
<1>5. q \in Nat /\ r \in 0 .. ALIGNMENT - 1 /\ a = q * ALIGNMENT + r
  BY ZenonT(40), <1>2, <1>3, DivMod
<1> HIDE DEF q, r
<1>6. d \in 0 .. ALIGNMENT - 1 /\ (a + d) % ALIGNMENT = 0
  <2>1. CASE r = 0
    <3>1. d = 0
      <4>1. d = ALIGNMENT % ALIGNMENT /\ ALIGNMENT = 1 * ALIGNMENT + 0
        BY <1>2, <2>1
      <4>2. (1 * ALIGNMENT + 0) % ALIGNMENT = 0
        BY <1>2, Remainders
      <4>3. QED
        BY <4>1, <4>2
    <3>2. (q * ALIGNMENT + 0) % ALIGNMENT = 0
      BY <1>2, <1>5, Remainders
    <3>3. a + d = q * ALIGNMENT + 0
      BY <1>3, <1>5, <2>1, <3>1
    <3>4. QED
      BY <1>2, <3>1, <3>2, <3>3
  <2>2. CASE r # 0
    <3> DEFINE e == ALIGNMENT - r
               q1 == q + 1
    <3>1. e \in 0 .. ALIGNMENT - 1 /\ q1 \in Nat
      BY <1>2, <1>5, <2>2
    <3> HIDE DEF e, q1
    <3>2. (0 * ALIGNMENT + e) % ALIGNMENT = e
      BY <1>2, <3>1, Remainders
    <3>3. 0 * ALIGNMENT + e = e
      BY <1>2, <3>1
    <3>4. d = e
      BY <3>2, <3>3 DEF e
    <3>5. (q1 * ALIGNMENT + 0) % ALIGNMENT = 0
      BY <1>2, <3>1, Remainders
    <3>6. a + d = q1 * ALIGNMENT + 0
      BY <1>2, <1>3, <1>5, <3>4 DEF e, q1
    <3>7. QED
      BY <3>1, <3>4, <3>5, <3>6
  <2>3. QED
    BY <2>1, <2>2
<1> HIDE DEF d
<1>7. a = data + ALIGN_INFO /\ data = x.off + MinorSize
  BY DEF a, data
<1>8. x.req_size + ALIGNMENT + ALIGN_INFO <= x.size
  BY DEF Padded
<1> DEFINE p == a + d
<1>9. p - ALIGN_INFO >= data /\ p + x.req_size <= EndOf(x) /\ p - data < ALIGNMENT + ALIGN_INFO
  BY <1>1, <1>2, <1>3, <1>6, <1>7, <1>8
<1>10. UNALIGN(p, p - data) = data
  BY <1>2, <1>3, <1>6, <1>9 DEF UNALIGN
<1> HIDE DEF p
<1>11. QED
  BY <1>4, <1>6, <1>7, <1>9, <1>10 DEF p

\* The invariant holds in every reachable state.
THEOREM HeapInvariant == Spec => []IInv
<1>1. Init => IInv
  <2>1. Good(<<>>)
    BY DEF Good
  <2>2. QED
    BY <2>1 DEF Init, IInv, Live, NULL
<1>2. QED
  BY <1>1, StepIInv, PTL DEF Spec

\* Blocks never overlap.
THEOREM HeapBlocksDisjoint == Spec => []BlocksDisjoint
<1>1. IInv => BlocksDisjoint
  BY DEF IInv, Good, Sorted, BlocksDisjoint
<1>2. QED
  BY <1>1, HeapInvariant, PTL

\* The usage of a major block is what its header and its blocks take, so that
\* malloc passes over a block only if nothing would fit.
THEOREM HeapUsageExact == Spec => []UsageExact
<1>1. IInv => UsageExact
  <2> SUFFICES ASSUME IInv, NEW i \in DOMAIN heap
               PROVE  heap[i].usage = MajorSize + Taken(heap[i].minors)
    BY DEF UsageExact
  <2>1. heap[i] \in Major /\ Exact(heap[i].usage, heap[i].minors)
    BY DEF IInv, Good
  <2>2. heap[i].minors \in Seq(Minor)
    BY <2>1 DEF Major
  <2>3. QED
    BY <2>1, <2>2, TakenSums
<1>2. QED
  BY <1>1, HeapInvariant, PTL

\* l_bestBet is never a block that was freed.
THEOREM HeapBestLive == Spec => []BestLive
<1>1. IInv => BestLive
  BY DEF IInv, Live, BestLive
<1>2. QED
  BY <1>1, HeapInvariant, PTL

\* Pointers are aligned, inside their block, and lead back to it.
THEOREM HeapPointerInside == Spec => []PointerInside
<1>1. IInv => PointerInside
  <2> SUFFICES ASSUME IInv, NEW i \in DOMAIN heap, NEW k \in DOMAIN heap[i].minors
               PROVE  LET min == heap[i].minors[k]
                          p == Pointer(min) IN
                      /\ p % ALIGNMENT = 0
                      /\ p - ALIGN_INFO >= min.off + MinorSize
                      /\ p + min.req_size <= EndOf(min)
                      /\ UNALIGN(p, p - (min.off + MinorSize)) = min.off + MinorSize
    BY DEF PointerInside
  <2>1. heap[i] \in Major /\ Sorted(heap[i].minors, Bytes(heap[i]))
    BY DEF IInv, Good
  <2>2. heap[i].minors \in Seq(Minor)
    BY <2>1 DEF Major
  <2>3. heap[i].minors[k] \in Minor /\ Padded(heap[i].minors[k].req_size) <= heap[i].minors[k].size
    BY <2>1, <2>2 DEF Sorted
  <2>4. QED
    BY <2>3, PointerGood
<1>2. QED
  BY <1>1, HeapInvariant, PTL
=============================================================================
