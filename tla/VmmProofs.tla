----------------------------- MODULE VmmProofs -----------------------------
EXTENDS Vmm, TLAPS

-----------------------------------------------------------------------------
(* Walks over a memory m, for any four indices w *)
Walks == Index \X Index \X Index \X Index

Entry(m, t, i) == IF t = Absent THEN Absent ELSE m[t][i]
Third(m, r, w) == m[r][w[1]]
Second(m, r, w) == Entry(m, Third(m, r, w), w[2])
First(m, r, w) == Entry(m, Second(m, r, w), w[3])
Leaf(m, r, w) == Entry(m, First(m, r, w), w[4])

(* A level for every frame: 4 for a PML4, 3, 2 and 1 for the tables below,  *)
(* 0 for what is no table.  The tables of a destroyed page map keep theirs. *)
Memories == [Frame -> [Index -> Frame \cup {Absent}]]
Levels == [Page -> 0 .. 4]
Roots(lev) == {r \in Page : lev[r] = 4}

\* The entries of a table point to tables of the next level
Linked(m, lev) ==
    \A t \in Page, i \in Index :
        lev[t] >= 2 /\ m[t][i] # Absent => m[t][i] \in Page /\ lev[m[t][i]] = lev[t] - 1

\* No two entries point to the same table, but for the kernel's half of PML4s
OneParent(m, lev) ==
    \A t, u \in Page, i, j \in Index :
        lev[t] >= 2 /\ lev[t] = lev[u] /\ m[t][i] = m[u][j] /\ m[t][i] # Absent =>
            i = j /\ (t = u \/ (lev[t] = 4 /\ i \in KernelIndex))

Tabled(m, lev) == m \in Memories /\ lev \in Levels /\ Linked(m, lev) /\ OneParent(m, lev)

\* The free frames are different, and no tables
Pooled(pg, lev) ==
    /\ pg \in Seq(Page)
    /\ \A a, b \in 1 .. Len(pg) : pg[a] = pg[b] => a = b
    /\ \A a \in 1 .. Len(pg) : lev[pg[a]] = 0

Good(m, pg, lev) == Tabled(m, lev) /\ Pooled(pg, lev) /\ m[NULL] = Zeroed

\* A frame that is no table and not free
Unused(pg, lev, f) == f \in Page /\ lev[f] = 0 /\ f \notin Range(pg)

(* b holds the pairs <<page map, page>> that are lent.  What is mapped at   *)
(* the others is a frame of the pool that is in use for this page alone, or *)
(* in the kernel's half the image.                                          *)
Mapped(m, pg, lev, b) ==
    \A r \in Roots(lev), w \in Walks :
        Leaf(m, r, w) # Absent =>
            /\ Leaf(m, r, w) \in Page \cup {Image}
            /\ w[1] \in KernelIndex => Leaf(m, r, w) = Image
            /\ w[1] \notin KernelIndex /\ <<r, w>> \notin b => Unused(pg, lev, Leaf(m, r, w))
OnePlace(m, lev, b) ==
    \A r, q \in Roots(lev), w, u \in Walks :
        <<r, w>> \notin b /\ <<q, u>> \notin b /\ Leaf(m, r, w) = Leaf(m, q, u)
            /\ Leaf(m, r, w) \in Page => r = q /\ w = u
Owned(m, pg, lev, b) == Mapped(m, pg, lev, b) /\ OnePlace(m, lev, b)

\* A frame that is in use for nothing, though it may be lent
Idle(m, pg, lev, b, f) ==
    /\ Unused(pg, lev, f)
    /\ \A r \in Roots(lev), w \in Walks : <<r, w>> \notin b => Leaf(m, r, w) # f

-----------------------------------------------------------------------------
\* The assumptions on the constants, as the proofs use them.
LEMMA Constants ==
    /\ KernelIndex \subseteq Index /\ Virt \subseteq Walks
    /\ KernelVirt # {} /\ KernelVirt \subseteq Virt /\ UserVirt \subseteq Virt
    /\ NULL \notin Page /\ Image \notin Page /\ Image # NULL
    /\ Absent \notin Page /\ Absent # NULL /\ Absent # Image
    /\ Page \subseteq Frame /\ NULL \in Frame /\ Image \in Frame
    /\ \A f \in Frame : f \in Page \/ f = NULL \/ f = Image
BY VmmAssumption DEF Walks, KernelVirt, UserVirt, Frame

\* Walks are equal when their indices are.
LEMMA WalkEqual ==
    ASSUME NEW w \in Walks, NEW u \in Walks,
           w[1] = u[1], w[2] = u[2], w[3] = u[3], w[4] = u[4]
    PROVE  w = u
BY DEF Walks

\* The indices of a walk are indices.
LEMMA WalkIndices ==
    ASSUME NEW w \in Walks
    PROVE  w[1] \in Index /\ w[2] \in Index /\ w[3] \in Index /\ w[4] \in Index
BY DEF Walks

\* A step of a walk from a table of level n leads to one of level n - 1.
LEMMA EntryLevel ==
    ASSUME NEW m, NEW lev, Tabled(m, lev),
           NEW t, t = Absent \/ (t \in Page /\ lev[t] >= 2), NEW i \in Index,
           Entry(m, t, i) # Absent
    PROVE  /\ t # Absent /\ Entry(m, t, i) = m[t][i]
           /\ m[t][i] \in Page /\ lev[m[t][i]] = lev[t] - 1
BY Constants DEF Entry, Tabled, Linked

\* The tables a walk passes have levels 3, 2 and 1.
LEMMA WalkLevels ==
    ASSUME NEW m, NEW lev, Tabled(m, lev), NEW r \in Roots(lev), NEW w \in Walks
    PROVE  /\ r \in Page /\ lev[r] = 4
           /\ Third(m, r, w) # Absent => Third(m, r, w) \in Page /\ lev[Third(m, r, w)] = 3
           /\ Second(m, r, w) # Absent =>
                 /\ Second(m, r, w) \in Page /\ lev[Second(m, r, w)] = 2
                 /\ Third(m, r, w) # Absent
           /\ First(m, r, w) # Absent =>
                 /\ First(m, r, w) \in Page /\ lev[First(m, r, w)] = 1
                 /\ Second(m, r, w) # Absent
           /\ Leaf(m, r, w) # Absent => First(m, r, w) # Absent
<1>1. r \in Page /\ lev[r] = 4
  BY DEF Roots
<1>2. w[1] \in Index /\ w[2] \in Index /\ w[3] \in Index /\ w[4] \in Index
  BY WalkIndices
<1>3. Third(m, r, w) # Absent => Third(m, r, w) \in Page /\ lev[Third(m, r, w)] = 3
  BY <1>1, <1>2 DEF Third, Tabled, Linked
<1>4. Second(m, r, w) # Absent =>
          /\ Second(m, r, w) \in Page /\ lev[Second(m, r, w)] = 2
          /\ Third(m, r, w) # Absent
  <2> DEFINE t == Third(m, r, w)
  <2>1. t = Absent \/ (t \in Page /\ lev[t] = 3)
    BY <1>3
  <2> HIDE DEF t
  <2>2. Entry(m, t, w[2]) # Absent =>
            Entry(m, t, w[2]) \in Page /\ lev[Entry(m, t, w[2])] = 2 /\ t # Absent
    BY <2>1, <1>2, EntryLevel
  <2> QED BY <2>2 DEF t, Second
<1>5. First(m, r, w) # Absent =>
          /\ First(m, r, w) \in Page /\ lev[First(m, r, w)] = 1
          /\ Second(m, r, w) # Absent
  <2> DEFINE t == Second(m, r, w)
  <2>1. t = Absent \/ (t \in Page /\ lev[t] = 2)
    BY <1>4
  <2> HIDE DEF t
  <2>2. Entry(m, t, w[3]) # Absent =>
            Entry(m, t, w[3]) \in Page /\ lev[Entry(m, t, w[3])] = 1 /\ t # Absent
    BY <2>1, <1>2, EntryLevel
  <2> QED BY <2>2 DEF t, First
<1>6. Leaf(m, r, w) # Absent => First(m, r, w) # Absent
  BY DEF Leaf, Entry
<1> QED BY <1>1, <1>3, <1>4, <1>5, <1>6

\* Entries of two tables of one level that lead to the same table are the same
\* entry, unless they are of the kernel's half.
LEMMA EntryUnique ==
    ASSUME NEW m, NEW lev, Tabled(m, lev),
           NEW t, t = Absent \/ (t \in Page /\ lev[t] \in {2, 3}),
           NEW u, u = Absent \/ (u \in Page /\ lev[u] \in {2, 3}),
           t # Absent /\ u # Absent => lev[t] = lev[u],
           NEW i \in Index, NEW j \in Index,
           Entry(m, t, i) = Entry(m, u, j), Entry(m, t, i) # Absent
    PROVE  t = u /\ i = j
BY Constants DEF Entry, Tabled, OneParent

\* The same for tables of any level above the first.
LEMMA SameEntry ==
    ASSUME NEW m, NEW lev, Tabled(m, lev), NEW t \in Page, NEW u \in Page,
           NEW i \in Index, NEW j \in Index,
           lev[t] >= 2, lev[t] = lev[u], m[t][i] = m[u][j], m[t][i] # Absent
    PROVE  i = j /\ (t = u \/ (lev[t] = 4 /\ i \in KernelIndex))
BY DEF Tabled, OneParent

\* Two walks that meet in a table of level 1 have the same indices so far, and
\* the same root unless they are in the kernel's half.
LEMMA WalkUnique ==
    ASSUME NEW m, NEW lev, Tabled(m, lev), NEW r \in Roots(lev), NEW q \in Roots(lev),
           NEW w \in Walks, NEW u \in Walks,
           First(m, r, w) = First(m, q, u), First(m, r, w) # Absent
    PROVE  /\ w[1] = u[1] /\ w[2] = u[2] /\ w[3] = u[3]
           /\ r = q \/ w[1] \in KernelIndex
<1>1. /\ w[1] \in Index /\ w[2] \in Index /\ w[3] \in Index
      /\ u[1] \in Index /\ u[2] \in Index /\ u[3] \in Index
  BY WalkIndices
<1>2. Second(m, r, w) = Second(m, q, u) /\ w[3] = u[3] /\ Second(m, r, w) # Absent
  <2> DEFINE t == Second(m, r, w)
             v == Second(m, q, u)
  <2>1. (t = Absent \/ (t \in Page /\ lev[t] = 2)) /\ (v = Absent \/ (v \in Page /\ lev[v] = 2))
    BY WalkLevels
  <2>2. Entry(m, t, w[3]) = Entry(m, v, u[3]) /\ Entry(m, t, w[3]) # Absent
    BY DEF First
  <2> HIDE DEF t, v
  <2>3. t = v /\ w[3] = u[3]
    BY <2>1, <2>2, <1>1, EntryUnique
  <2>4. t # Absent
    BY <2>2 DEF Entry
  <2> QED BY <2>3, <2>4 DEF t, v
<1>3. Third(m, r, w) = Third(m, q, u) /\ w[2] = u[2] /\ Third(m, r, w) # Absent
  <2> DEFINE t == Third(m, r, w)
             v == Third(m, q, u)
  <2>1. (t = Absent \/ (t \in Page /\ lev[t] = 3)) /\ (v = Absent \/ (v \in Page /\ lev[v] = 3))
    BY WalkLevels
  <2>2. Entry(m, t, w[2]) = Entry(m, v, u[2]) /\ Entry(m, t, w[2]) # Absent
    BY <1>2 DEF Second
  <2> HIDE DEF t, v
  <2>3. t = v /\ w[2] = u[2]
    BY <2>1, <2>2, <1>1, EntryUnique
  <2>4. t # Absent
    BY <2>2 DEF Entry
  <2> QED BY <2>3, <2>4 DEF t, v
<1>4. w[1] = u[1] /\ (r = q \/ w[1] \in KernelIndex)
  <2>1. r \in Page /\ q \in Page /\ lev[r] = 4 /\ lev[q] = 4
    BY DEF Roots
  <2>2. m[r][w[1]] = m[q][u[1]] /\ m[r][w[1]] # Absent
    BY <1>3 DEF Third
  <2> QED BY <2>1, <2>2, <1>1 DEF Tabled, OneParent
<1> QED BY <1>2, <1>3, <1>4

-----------------------------------------------------------------------------
\* What is left of the pool when its first frame is taken.
LEMMA PoolTail ==
    ASSUME NEW pg \in Seq(Page), pg # <<>>
    PROVE  /\ Head(pg) \in Page /\ Head(pg) = pg[1] /\ 1 \in 1 .. Len(pg)
           /\ Tail(pg) \in Seq(Page) /\ Len(Tail(pg)) = Len(pg) - 1 /\ Len(pg) \in Nat
           /\ \A a \in 1 .. Len(Tail(pg)) : Tail(pg)[a] = pg[a + 1] /\ a + 1 \in 1 .. Len(pg)
OBVIOUS

\* The frames of the pool, by position.
LEMMA PoolRange ==
    ASSUME NEW pg \in Seq(Page)
    PROVE  \A f : f \in Range(pg) <=> \E a \in 1 .. Len(pg) : pg[a] = f
BY DEF Range

\* A walk depends on the tables it passes only.
LEMMA LeafKept ==
    ASSUME NEW m, NEW n, NEW lev, Tabled(m, lev),
           \A x \in Page : lev[x] >= 1 => n[x] = m[x],
           NEW r \in Roots(lev), NEW w \in Walks
    PROVE  Leaf(n, r, w) = Leaf(m, r, w)
<1>1. Third(n, r, w) = Third(m, r, w)
  BY DEF Third, Roots
<1>2. Second(n, r, w) = Second(m, r, w)
  BY <1>1, WalkLevels DEF Second, Entry
<1>3. First(n, r, w) = First(m, r, w)
  BY <1>2, WalkLevels DEF First, Entry
<1> QED BY <1>3, WalkLevels DEF Leaf, Entry

\* pmm_request_page on a sound memory: the frame is in use nowhere, and no
\* table changes.
LEMMA RequestGood ==
    ASSUME NEW m, NEW pg, NEW lev, Good(m, pg, lev), pg # <<>>,
           NEW f, f = Head(pg),
           NEW n \in Memories, n[f] = Zeroed, \A x \in Frame : x # f => n[x] = m[x]
    PROVE  /\ Good(n, Tail(pg), lev) /\ Unused(Tail(pg), lev, f)
           /\ f \in Range(pg) /\ Range(Tail(pg)) \subseteq Range(pg)
           /\ \A x \in Page : lev[x] >= 1 => n[x] = m[x]
           /\ \A r \in Roots(lev), w \in Walks : Leaf(n, r, w) = Leaf(m, r, w)
<1>1. pg \in Seq(Page) /\ m \in Memories /\ lev \in Levels /\ Tabled(m, lev)
  BY DEF Good, Pooled, Tabled
<1>2. f \in Page /\ f = pg[1] /\ lev[f] = 0
  BY <1>1, PoolTail DEF Good, Pooled
<1>4. \A x \in Page : lev[x] >= 1 => n[x] = m[x]
  BY <1>2, Constants
<1>5. \A r \in Roots(lev), w \in Walks : Leaf(n, r, w) = Leaf(m, r, w)
  BY <1>1, <1>4, LeafKept
<1>6. Tabled(n, lev)
  <2>1. Linked(n, lev)
    BY <1>1, <1>4 DEF Tabled, Linked, Levels
  <2>2. OneParent(n, lev)
    BY <1>1, <1>4 DEF Tabled, OneParent, Levels
  <2> QED BY <1>1, <2>1, <2>2 DEF Tabled
<1>7. Range(Tail(pg)) \subseteq Range(pg) /\ f \in Range(pg) /\ f \notin Range(Tail(pg))
  <2>1. \A g : g \in Range(Tail(pg)) <=> \E a \in 1 .. Len(Tail(pg)) : Tail(pg)[a] = g
    BY ZenonT(40), <1>1, PoolTail, PoolRange
  <2>2. \A g : g \in Range(pg) <=> \E a \in 1 .. Len(pg) : pg[a] = g
    BY <1>1, PoolRange
  <2>3. \A a \in 1 .. Len(Tail(pg)) : Tail(pg)[a] # f
    BY <1>1, <1>2, PoolTail DEF Good, Pooled
  <2> QED BY <2>1, <2>2, <2>3, <1>1, <1>2, PoolTail
<1>8. Pooled(Tail(pg), lev)
  BY <1>1, PoolTail DEF Good, Pooled
<1>10. Unused(Tail(pg), lev, f)
  BY <1>2, <1>7 DEF Unused
<1>11. n[NULL] = Zeroed
  BY <1>2, Constants DEF Good
<1> QED BY <1>4, <1>5, <1>6, <1>7, <1>8, <1>10, <1>11 DEF Good

\* An entry that was absent is set to an empty table: no walk gets further than before.
LEMMA LinkLeaf ==
    ASSUME NEW m, NEW lev, Tabled(m, lev), NEW f \in Page, lev[f] = 0, m[f] = Zeroed,
           NEW t \in Page, lev[t] >= 2, NEW i \in Index, m[t][i] = Absent,
           NEW n, n = Entered(m, t, i, f), NEW r \in Roots(lev), NEW w \in Walks
    PROVE  Leaf(n, r, w) = Leaf(m, r, w)
<1>1. m \in Memories /\ lev \in Levels /\ t # f
  BY DEF Tabled, Levels
<1>2. w[1] \in Index /\ w[2] \in Index /\ w[3] \in Index /\ w[4] \in Index
  BY WalkIndices
<1>3. /\ \A x \in Page : x # t => n[x] = m[x]
      /\ \A j \in Index : n[t][j] = IF j = i THEN f ELSE m[t][j]
  BY <1>1, Constants DEF Entered, Memories
<1>4. \A j \in Index : Entry(n, f, j) = Absent /\ Entry(m, f, j) = m[f][j]
  BY <1>1, <1>3, Constants DEF Entry, Zeroed
<1>5. \A j \in Index : Entry(n, Absent, j) = Absent /\ Entry(m, Absent, j) = Absent
  BY DEF Entry
<1>6. \A x \in Page, j \in Index : x # t \/ j # i => Entry(n, x, j) = Entry(m, x, j)
  BY <1>3, Constants DEF Entry
<1>7. Entry(n, t, i) = f /\ Entry(m, t, i) = Absent
  BY <1>3, Constants DEF Entry
<1>8. /\ r \in Page /\ lev[r] = 4
      /\ Third(m, r, w) # Absent => Third(m, r, w) \in Page /\ lev[Third(m, r, w)] = 3
      /\ Second(m, r, w) # Absent => Second(m, r, w) \in Page /\ lev[Second(m, r, w)] = 2
      /\ First(m, r, w) # Absent => First(m, r, w) \in Page /\ lev[First(m, r, w)] = 1
  BY WalkLevels
<1>9. Third(m, r, w) = Entry(m, r, w[1]) /\ Third(n, r, w) = Entry(n, r, w[1])
  BY <1>8, Constants DEF Third, Entry
<1> DEFINE t3 == Third(m, r, w)
           t2 == Second(m, r, w)
           t1 == First(m, r, w)
           n3 == Third(n, r, w)
           n2 == Second(n, r, w)
           n1 == First(n, r, w)
<1>10. /\ t2 = Entry(m, t3, w[2]) /\ n2 = Entry(n, n3, w[2])
       /\ t1 = Entry(m, t2, w[3]) /\ n1 = Entry(n, n2, w[3])
       /\ Leaf(m, r, w) = Entry(m, t1, w[4]) /\ Leaf(n, r, w) = Entry(n, n1, w[4])
  BY DEF Second, First, Leaf
<1> HIDE DEF t3, t2, t1, n3, n2, n1
<1>11. n3 = t3 \/ (t3 = Absent /\ n3 = f)
  BY <1>2, <1>6, <1>7, <1>8, <1>9 DEF t3, n3
<1>12. n2 = t2 \/ (t2 = Absent /\ n2 = f)
  <2>1. CASE n3 = f /\ t3 = Absent
    BY <2>1, <1>2, <1>4, <1>5, <1>10
  <2>2. CASE n3 = t3 /\ t3 = Absent
    BY <2>2, <1>2, <1>5, <1>10
  <2>3. CASE n3 = t3 /\ t3 # Absent
    BY <2>3, <1>2, <1>6, <1>7, <1>8, <1>10 DEF t3
  <2> QED BY <2>1, <2>2, <2>3, <1>11
<1>13. n1 = t1 \/ (t1 = Absent /\ n1 = f)
  <2>1. CASE n2 = f /\ t2 = Absent
    BY ZenonT(40), <2>1, <1>2, <1>4, <1>5, <1>10
  <2>2. CASE n2 = t2 /\ t2 = Absent
    BY <2>2, <1>2, <1>5, <1>10
  <2>3. CASE n2 = t2 /\ t2 # Absent
    BY <2>3, <1>2, <1>6, <1>7, <1>8, <1>10 DEF t2
  <2> QED BY <2>1, <2>2, <2>3, <1>12
<1>14. Entry(n, n1, w[4]) = Entry(m, t1, w[4])
  <2>1. CASE n1 = f /\ t1 = Absent
    BY <2>1, <1>2, <1>4, <1>5
  <2>2. CASE n1 = t1 /\ t1 = Absent
    BY <2>2, <1>2, <1>5
  <2>3. CASE n1 = t1 /\ t1 # Absent
    BY <2>3, <1>2, <1>6, <1>8 DEF t1
  <2> QED BY <2>1, <2>2, <2>3, <1>13
<1> QED BY <1>10, <1>14

\* An unused empty frame becomes a table: the memory stays sound.
LEMMA LinkGood ==
    ASSUME NEW m, NEW pg, NEW lev, Good(m, pg, lev), NEW f, Unused(pg, lev, f), m[f] = Zeroed,
           NEW t \in Page, lev[t] >= 2, NEW i \in Index, m[t][i] = Absent
    PROVE  LET n == Entered(m, t, i, f)
               new == [lev EXCEPT ![f] = lev[t] - 1] IN
           /\ Good(n, pg, new) /\ new \in Levels /\ new[f] = lev[t] - 1 /\ n[t][i] = f
           /\ \A x \in Page : x # f => new[x] = lev[x]
           /\ Roots(new) = Roots(lev)
           /\ \A x \in Page, j \in Index : x # t \/ j # i => n[x][j] = m[x][j]
           /\ \A r \in Roots(lev), w \in Walks : Leaf(n, r, w) = Leaf(m, r, w)
<1> DEFINE n == Entered(m, t, i, f)
           new == [lev EXCEPT ![f] = lev[t] - 1]
<1>1. m \in Memories /\ lev \in Levels /\ f \in Page /\ lev[f] = 0 /\ t # f /\ Tabled(m, lev)
  BY DEF Good, Tabled, Levels, Unused
<1>2. lev[t] \in 2 .. 4
  BY <1>1 DEF Levels
<1>3. new \in Levels /\ new[f] = lev[t] - 1 /\ \A x \in Page : x # f => new[x] = lev[x]
  BY <1>1, <1>2 DEF Levels
<1>4. /\ n \in Memories /\ n[t][i] = f
      /\ \A x \in Page, j \in Index : x # t \/ j # i => n[x][j] = m[x][j]
  BY <1>1, Constants DEF Entered, Memories
<1>5. n[NULL] = Zeroed
  BY <1>1, Constants DEF Entered, Memories, Good
<1>6. \A r \in Roots(lev), w \in Walks : Leaf(n, r, w) = Leaf(m, r, w)
  BY <1>1, LinkLeaf
<1> HIDE DEF n, new
<1>7. Roots(new) = Roots(lev)
  BY <1>1, <1>2, <1>3 DEF Roots
<1>8. \A j \in Index : m[f][j] = Absent
  BY DEF Zeroed
<1>9. \A x \in Page, j \in Index : lev[x] >= 2 => m[x][j] # f
  BY <1>1, Constants DEF Tabled, Linked, Levels
<1>10. Linked(n, new)
  <2> SUFFICES ASSUME NEW x \in Page, NEW j \in Index, new[x] >= 2, n[x][j] # Absent
               PROVE  n[x][j] \in Page /\ new[n[x][j]] = new[x] - 1
    BY DEF Linked
  <2>1. x # f
    BY <1>1, <1>4, <1>8
  <2>2. new[x] = lev[x]
    BY <2>1, <1>3
  <2>3. CASE x = t /\ j = i
    BY <2>3, <2>2, <1>1, <1>3, <1>4
  <2>4. CASE x # t \/ j # i
    <3>1. n[x][j] = m[x][j]
      BY <2>4, <1>4
    <3>2. m[x][j] \in Page /\ lev[m[x][j]] = lev[x] - 1
      BY <3>1, <2>2, <1>1 DEF Tabled, Linked
    <3>3. m[x][j] # f
      BY <1>9, <2>2
    <3> QED BY <3>1, <3>2, <3>3, <2>2, <1>3
  <2> QED BY <2>3, <2>4
<1>11. OneParent(n, new)
  <2> SUFFICES ASSUME NEW x \in Page, NEW y \in Page, NEW j \in Index, NEW k \in Index,
                      new[x] >= 2, new[x] = new[y], n[x][j] = n[y][k], n[x][j] # Absent
               PROVE  j = k /\ (x = y \/ (new[x] = 4 /\ j \in KernelIndex))
    BY DEF OneParent
  <2>1. x # f /\ y # f
    BY <1>1, <1>4, <1>8
  <2>2. new[x] = lev[x] /\ new[y] = lev[y]
    BY <2>1, <1>3
  <2>3. \A z \in Page, l \in Index : lev[z] >= 2 /\ n[z][l] = f => z = t /\ l = i
    BY <1>4, <1>9
  <2>4. CASE n[x][j] = f
    BY ZenonT(40), <2>2, <2>3, <2>4
  <2>5. CASE n[x][j] # f
    <3>1. n[x][j] = m[x][j] /\ n[y][k] = m[y][k]
      BY <2>5, <1>4
    <3>2. lev[x] >= 2 /\ lev[x] = lev[y] /\ m[x][j] = m[y][k] /\ m[x][j] # Absent
      BY ZenonT(40), <3>1, <2>2
    <3>3. j = k /\ (x = y \/ (lev[x] = 4 /\ j \in KernelIndex))
      BY <3>2, <1>1, SameEntry
    <3> QED BY <3>3, <2>2
  <2> QED BY <2>4, <2>5
<1>12. Pooled(pg, new)
  <2>1. pg \in Seq(Page)
    BY DEF Good, Pooled
  <2>2. \A a \in 1 .. Len(pg) : pg[a] \in Page /\ pg[a] # f
    BY <2>1, PoolRange DEF Unused
  <2>3. \A a \in 1 .. Len(pg) : new[pg[a]] = 0
    BY <2>2, <1>3 DEF Good, Pooled
  <2> QED BY <2>1, <2>3 DEF Good, Pooled
<1> QED BY <1>3, <1>4, <1>5, <1>6, <1>7, <1>10, <1>11, <1>12 DEF Good, Tabled, n, new

\* The walk of v from root leads to d in the memory n, all others where they did
\* in m.
OnlyLeaf(m, n, lev, root, v, d) ==
    \A r \in Roots(lev), w \in Walks :
        Leaf(n, r, w) = IF r = root /\ w = v THEN d ELSE Leaf(m, r, w)

\* The last entry of v's walk from root becomes d, and no other
LeafWritten(m, n, lev, root, v, d) ==
    /\ Tabled(n, lev)
    /\ \A x \in Frame : (x \in Page => lev[x] # 1) => n[x] = m[x]
    /\ \A r \in Roots(lev), w \in Walks :
          Leaf(n, r, w) = IF r = root /\ w = v THEN d ELSE Leaf(m, r, w)

\* Setting an entry of a table of level 1 changes the walks that pass it, and
\* nothing else.  Outside the kernel's half, and while there is one page map,
\* that is one walk.
LEMMA LeafSet ==
    ASSUME NEW m, NEW lev, Tabled(m, lev), NEW root \in Roots(lev), NEW v \in Walks,
           First(m, root, v) # Absent, NEW d \in Frame \cup {Absent},
           v[1] \notin KernelIndex \/ Roots(lev) = {root}
    PROVE  LeafWritten(m, Entered(m, First(m, root, v), v[4], d), lev, root, v, d)
<1> DEFINE t == First(m, root, v)
           n == Entered(m, t, v[4], d)
<1>1. m \in Memories /\ lev \in Levels /\ t \in Page /\ lev[t] = 1 /\ t # Absent
  BY WalkLevels DEF Tabled
<1>2. v[1] \in Index /\ v[2] \in Index /\ v[3] \in Index /\ v[4] \in Index
  BY WalkIndices
<1>3. /\ n \in Memories /\ n[t][v[4]] = d /\ \A x \in Frame : x # t => n[x] = m[x]
      /\ \A j \in Index : j # v[4] => n[t][j] = m[t][j]
  <2> HIDE DEF t
  <2> QED BY <1>1, <1>2, Constants DEF Entered, Memories
<1>4. \A x \in Frame : (x \in Page => lev[x] # 1) => n[x] = m[x]
  BY <1>1, <1>3
<1>5. Tabled(n, lev)
  <2> HIDE DEF n, t
  <2>1. \A x \in Page : lev[x] >= 2 => n[x] = m[x]
    BY <1>1, <1>4, Constants DEF Levels
  <2>2. Linked(n, lev)
    BY <2>1, <1>1 DEF Tabled, Linked
  <2>3. OneParent(n, lev)
    BY <2>1, <1>1 DEF Tabled, OneParent
  <2> QED BY <2>2, <2>3, <1>1, <1>3 DEF Tabled
<1>6. ASSUME NEW r \in Roots(lev), NEW w \in Walks
      PROVE  Leaf(n, r, w) = IF r = root /\ w = v THEN d ELSE Leaf(m, r, w)
  <2> HIDE DEF n
  <2>0. w[1] \in Index /\ w[2] \in Index /\ w[3] \in Index /\ w[4] \in Index
    BY Zenon, WalkIndices
  <2>1. First(n, r, w) = First(m, r, w)
    <3>1. Third(n, r, w) = Third(m, r, w)
      BY <1>4, Constants DEF Third, Roots
    <3>2. Second(n, r, w) = Second(m, r, w)
      BY <3>1, <1>4, WalkLevels, Constants DEF Second, Entry
    <3> QED BY <3>2, <1>4, WalkLevels, Constants DEF First, Entry
  <2>2. First(m, r, w) # Absent => First(m, r, w) \in Page
    BY WalkLevels
  <2>3. CASE First(m, r, w) = t /\ w[4] = v[4]
    <3>1. w[1] = v[1] /\ w[2] = v[2] /\ w[3] = v[3] /\ (r = root \/ w[1] \in KernelIndex)
      BY <2>3, <1>1, WalkUnique
    <3>2. w = v /\ r = root
      BY Zenon, <2>3, <3>1, WalkEqual
    <3>3. Leaf(n, r, w) = d
      BY <2>1, <2>3, <1>1, <1>3 DEF Leaf, Entry
    <3> QED BY <3>2, <3>3
  <2>4. CASE First(m, r, w) # t \/ w[4] # v[4]
    <3>1. ~(r = root /\ w = v)
      BY Zenon, <2>4
    <3> HIDE DEF t
    <3>2. Leaf(n, r, w) = Leaf(m, r, w)
      BY <2>0, <2>1, <2>2, <2>4, <1>3, Constants DEF Leaf, Entry
    <3> QED BY <3>1, <3>2
  <2> QED BY <2>3, <2>4
<1> QED BY <1>4, <1>5, <1>6 DEF LeafWritten

-----------------------------------------------------------------------------
\* A state that vmm_map works on, and the levels of another one that is reached
\* from it by adding empty tables: every walk leads where it did, and a PML4
\* gains no entry but the one of index i of root.
At(m, pg, t) == [mem |-> m, pages |-> pg, at |-> t]
Extends(m, pg, lev, n, qg, new, root, i) ==
    /\ Good(n, qg, new) /\ Roots(new) = Roots(lev) /\ Range(qg) \subseteq Range(pg)
    /\ \A x \in Page : x \notin Range(pg) => new[x] = lev[x]
    /\ \A x \in Page, j \in Index : lev[x] >= 1 /\ m[x][j] # Absent => n[x][j] = m[x][j]
    /\ \A r \in Roots(lev), j \in Index : r # root \/ j # i => n[r][j] = m[r][j]
    /\ \A r \in Roots(lev), w \in Walks : Leaf(n, r, w) = Leaf(m, r, w)

\* Extending twice is extending.
LEMMA ExtendsTwice ==
    ASSUME NEW m, NEW pg, NEW lev, NEW n, NEW qg, NEW new, NEW o, NEW og, NEW last,
           NEW root, NEW i, Good(m, pg, lev),
           Extends(m, pg, lev, n, qg, new, root, i), Extends(n, qg, new, o, og, last, root, i)
    PROVE  Extends(m, pg, lev, o, og, last, root, i)
<1>1. Good(o, og, last) /\ Roots(last) = Roots(lev) /\ Range(og) \subseteq Range(pg)
  BY Zenon DEF Extends
<1>2. \A x \in Page : x \notin Range(pg) => last[x] = lev[x]
  BY ZenonT(40) DEF Extends
<1>3. \A x \in Page : lev[x] >= 1 => x \notin Range(pg)
  BY PoolRange DEF Good, Pooled
<1>4. \A x \in Page, j \in Index : lev[x] >= 1 /\ m[x][j] # Absent => o[x][j] = m[x][j]
  BY <1>3 DEF Extends
<1>5. \A r \in Roots(lev), j \in Index : r # root \/ j # i => o[r][j] = m[r][j]
  BY DEF Extends
<1>6. \A r \in Roots(lev), w \in Walks : Leaf(o, r, w) = Leaf(m, r, w)
  BY Zenon DEF Extends
<1> QED BY Zenon, <1>1, <1>2, <1>4, <1>5, <1>6 DEF Extends

\* One level of vmm_map, when it gets a table: the next one is of the next level.
LEMMA DescendGood ==
    ASSUME NEW m, NEW pg, NEW lev, Good(m, pg, lev), NEW t \in Page, lev[t] >= 2, NEW i \in Index,
           NEW root, NEW k, lev[t] = 4 => t = root /\ i = k,
           Descend(At(m, pg, t), i).at # NULL
    PROVE  LET s == Descend(At(m, pg, t), i) IN
           \E new \in Levels :
              /\ Extends(m, pg, lev, s.mem, s.pages, new, root, k)
              /\ s.at \in Page /\ new[s.at] = lev[t] - 1 /\ s.mem[t][i] = s.at
<1> DEFINE s == Descend(At(m, pg, t), i)
           Fine(new) ==
              /\ Extends(m, pg, lev, s.mem, s.pages, new, root, k)
              /\ s.at \in Page /\ new[s.at] = lev[t] - 1 /\ s.mem[t][i] = s.at
<1> SUFFICES \E new \in Levels : Fine(new)
  BY Zenon
<1>1. m \in Memories /\ lev \in Levels /\ Tabled(m, lev) /\ pg \in Seq(Page)
  BY Zenon DEF Good, Tabled, Pooled
<1>2. CASE m[t][i] # Absent
  <2>1. s.mem = m /\ s.pages = pg /\ s.at = m[t][i]
    BY <1>2 DEF Descend, At
  <2>2. m[t][i] \in Page /\ lev[m[t][i]] = lev[t] - 1
    BY <1>1, <1>2 DEF Tabled, Linked
  <2>3. Extends(m, pg, lev, m, pg, lev, root, k)
    BY Zenon DEF Extends
  <2> HIDE DEF s
  <2>4. Fine(lev)
    BY ZenonT(40), <2>1, <2>2, <2>3, <1>2
  <2> QED BY <2>4, <1>1
<1>3. CASE m[t][i] = Absent
  <2>1. pg # <<>>
    BY SMTT(40), <1>3 DEF Descend, At, Requested
  <2> DEFINE f == Head(pg)
             z == [m EXCEPT ![f] = Zeroed]
             n == Entered(z, t, i, f)
             new == [lev EXCEPT ![f] = lev[t] - 1]
  <2>2. s.mem = n /\ s.pages = Tail(pg) /\ s.at = f
    BY <1>3, <2>1 DEF Descend, At, Requested
  <2> HIDE DEF z, s
  <2>0. z \in Memories /\ z[f] = Zeroed /\ \A x \in Frame : x # f => z[x] = m[x]
    BY SMTT(40), <1>1, <2>1, PoolTail, Constants DEF z, Memories, Zeroed
  <2> HIDE DEF f
  <2>3. /\ Good(z, Tail(pg), lev) /\ Unused(Tail(pg), lev, f) /\ z[f] = Zeroed
        /\ f \in Range(pg) /\ Range(Tail(pg)) \subseteq Range(pg)
        /\ \A x \in Page : lev[x] >= 1 => z[x] = m[x]
        /\ \A r \in Roots(lev), w \in Walks : Leaf(z, r, w) = Leaf(m, r, w)
    BY <2>0, <2>1, RequestGood DEF f
  <2>4. z[t][i] = Absent
    BY SMTT(40), <2>3, <1>1, <1>3 DEF Levels
  <2>5. /\ Good(n, Tail(pg), new) /\ new \in Levels /\ new[f] = lev[t] - 1 /\ n[t][i] = f
        /\ \A x \in Page : x # f => new[x] = lev[x]
        /\ Roots(new) = Roots(lev)
        /\ \A x \in Page, j \in Index : x # t \/ j # i => n[x][j] = z[x][j]
        /\ \A r \in Roots(lev), w \in Walks : Leaf(n, r, w) = Leaf(z, r, w)
    BY <2>3, <2>4, LinkGood
  <2> HIDE DEF n, new
  <2>6. f \in Page
    BY Zenon, <2>3 DEF Unused
  <2>7. \A x \in Page, j \in Index : lev[x] >= 1 /\ m[x][j] # Absent => n[x][j] = m[x][j]
    BY ZenonT(40), <2>3, <2>5, <1>3
  <2>8. \A r \in Roots(lev), j \in Index : r # root \/ j # k => n[r][j] = m[r][j]
    BY <2>3, <2>5 DEF Roots
  <2>9. \A r \in Roots(lev), w \in Walks : Leaf(n, r, w) = Leaf(m, r, w)
    BY Zenon, <2>3, <2>5
  <2>10. Extends(m, pg, lev, n, Tail(pg), new, root, k)
    BY Zenon, <2>3, <2>5, <2>7, <2>8, <2>9 DEF Extends
  <2>11. Fine(new)
    BY Zenon, <2>2, <2>5, <2>6, <2>10
  <2> QED BY SMTT(40), <2>5, <2>11
<1> QED BY Zenon, <1>2, <1>3

\* When it gets none, the pool is empty and frame 0 is not yet written.
LEMMA DescendFails ==
    ASSUME NEW m, NEW pg, NEW lev, Good(m, pg, lev), NEW t \in Page, lev[t] >= 2, NEW i \in Index,
           Descend(At(m, pg, t), i).at = NULL
    PROVE  LET s == Descend(At(m, pg, t), i) IN
           s.pages = <<>> /\ s.mem \in Memories /\ s.mem[NULL] \in [Index -> {Absent, NULL}]
<1> DEFINE s == Descend(At(m, pg, t), i)
<1>1. m \in Memories /\ lev \in Levels /\ Tabled(m, lev) /\ pg \in Seq(Page) /\ m[NULL] = Zeroed
  BY DEF Good, Tabled, Pooled
<1>2. m[t][i] = Absent
  <2> SUFFICES ASSUME m[t][i] # Absent PROVE FALSE
    OBVIOUS
  <2>1. s.at = m[t][i]
    BY Zenon DEF Descend, At
  <2>2. m[t][i] \in Page
    BY Zenon, <1>1 DEF Tabled, Linked
  <2> QED BY Zenon, <2>1, <2>2, Constants
<1>3. pg = <<>>
  <2> SUFFICES ASSUME pg # <<>> PROVE FALSE
    BY SMTT(40)
  <2>1. s.at = Head(pg)
    BY SMTT(40), <1>2 DEF Descend, At, Requested
  <2> QED BY <2>1, <1>1, PoolTail, Constants
<1>4. s.pages = <<>> /\ s.mem = Entered(m, t, i, NULL)
  BY ZenonT(40), <1>2, <1>3 DEF Descend, At, Requested
<1> HIDE DEF s
<1>5. s.mem \in Memories /\ s.mem[NULL] = Zeroed
  BY <1>1, <1>4, Constants DEF Entered, Memories
<1> QED BY Zenon, <1>4, <1>5 DEF Zeroed, s

\* From frame 0 the walk does not come back.
LEMMA DescendLost ==
    ASSUME NEW m \in Memories, m[NULL] \in [Index -> {Absent, NULL}], NEW i \in Index
    PROVE  LET s == Descend(At(m, <<>>, NULL), i) IN
           /\ s.at = NULL /\ s.pages = <<>>
           /\ s.mem \in Memories /\ s.mem[NULL] \in [Index -> {Absent, NULL}]
<1> DEFINE s == Descend(At(m, <<>>, NULL), i)
<1>1. CASE m[NULL][i] # Absent
  <2>1. s.mem = m /\ s.pages = <<>> /\ s.at = m[NULL][i]
    BY Zenon, <1>1 DEF Descend, At
  <2> HIDE DEF s
  <2> QED BY <2>1, <1>1 DEF s
<1>2. CASE m[NULL][i] = Absent
  <2>1. s.mem = Entered(m, NULL, i, NULL) /\ s.pages = <<>> /\ s.at = NULL
    BY <1>2 DEF Descend, At, Requested
  <2> HIDE DEF s
  <2>2. s.mem \in Memories /\ s.mem[NULL] \in [Index -> {Absent, NULL}]
    BY <2>1, Constants DEF Entered, Memories
  <2> QED BY ZenonT(40), <2>1, <2>2 DEF s
<1> QED BY <1>1, <1>2

\* Descend returns a memory, a pool and a table.
LEMMA DescendRecord ==
    ASSUME NEW m, NEW pg, NEW t, NEW i
    PROVE  LET s == Descend(At(m, pg, t), i) IN s = At(s.mem, s.pages, s.at)
<1>1. CASE m[t][i] # Absent
  BY <1>1 DEF Descend, At
<1>2. CASE m[t][i] = Absent
  BY Zenon, <1>2 DEF Descend, At
<1> QED BY <1>1, <1>2

\* The two outcomes: frame 0 is used as a table, or the next table is reached.
Lost(n, qg, u) ==
    u = NULL /\ qg = <<>> /\ n \in Memories /\ n[NULL] \in [Index -> {Absent, NULL}]
Reached(m, pg, lev, root, k, t, i, n, qg, u) ==
    \E new \in Levels :
        /\ Extends(m, pg, lev, n, qg, new, root, k)
        /\ u \in Page /\ new[u] = lev[t] - 1 /\ n[t][i] = u

\* Both outcomes together.
LEMMA DescendOne ==
    ASSUME NEW m, NEW pg, NEW lev, Good(m, pg, lev), NEW t \in Page, lev[t] >= 2, NEW i \in Index,
           NEW root, NEW k, lev[t] = 4 => t = root /\ i = k,
           NEW n, NEW qg, NEW u, Descend(At(m, pg, t), i) = At(n, qg, u)
    PROVE  Lost(n, qg, u) \/ Reached(m, pg, lev, root, k, t, i, n, qg, u)
<1> DEFINE s == Descend(At(m, pg, t), i)
<1>1. s.mem = n /\ s.pages = qg /\ s.at = u
  BY DEF At
<1>2. s.at = NULL =>
          s.pages = <<>> /\ s.mem \in Memories /\ s.mem[NULL] \in [Index -> {Absent, NULL}]
  BY ZenonT(40), DescendFails
<1>3. s.at # NULL =>
          \E new \in Levels :
              /\ Extends(m, pg, lev, s.mem, s.pages, new, root, k)
              /\ s.at \in Page /\ new[s.at] = lev[t] - 1 /\ s.mem[t][i] = s.at
  BY DescendGood
<1> HIDE DEF s
<1> QED BY <1>1, <1>2, <1>3 DEF Lost, Reached

\* The same for a walk that is lost.
LEMMA DescendNull ==
    ASSUME NEW m, NEW pg, NEW t, Lost(m, pg, t), NEW i \in Index,
           NEW n, NEW qg, NEW u, Descend(At(m, pg, t), i) = At(n, qg, u)
    PROVE  Lost(n, qg, u)
<1> DEFINE s == Descend(At(m, <<>>, NULL), i)
<1>0. t = NULL /\ pg = <<>> /\ m \in Memories /\ m[NULL] \in [Index -> {Absent, NULL}]
  BY DEF Lost
<1>1. s.mem = n /\ s.pages = qg /\ s.at = u
  BY <1>0 DEF At
<1>2. /\ s.at = NULL /\ s.pages = <<>>
      /\ s.mem \in Memories /\ s.mem[NULL] \in [Index -> {Absent, NULL}]
  BY ZenonT(40), <1>0, DescendLost
<1> HIDE DEF s
<1> QED BY <1>1, <1>2 DEF Lost

\* The tables down to the last level, if the pool lasts.
LEMMA DescendThrice ==
    ASSUME NEW m, NEW pg, NEW lev, Good(m, pg, lev), NEW root \in Roots(lev), NEW v \in Walks,
           NEW m3, NEW g3, NEW t3, Descend(At(m, pg, root), v[1]) = At(m3, g3, t3),
           NEW m2, NEW g2, NEW t2, Descend(At(m3, g3, t3), v[2]) = At(m2, g2, t2),
           NEW m1, NEW g1, NEW t1, Descend(At(m2, g2, t2), v[3]) = At(m1, g1, t1)
    PROVE  \/ t1 = NULL /\ m1 \in Memories
           \/ \E new \in Levels :
                 /\ Extends(m, pg, lev, m1, g1, new, root, v[1])
                 /\ t1 \in Page /\ t1 = First(m1, root, v)
<1>1. v[1] \in Index /\ v[2] \in Index /\ v[3] \in Index
  BY WalkIndices
<1>2. root \in Page /\ lev[root] = 4 /\ lev \in Levels
  BY Zenon DEF Roots, Good, Tabled
<1>3. CASE Lost(m3, g3, t3)
  BY SMTT(40), <1>1, <1>3, DescendNull DEF Lost
<1>4. ASSUME NEW l3 \in Levels, Extends(m, pg, lev, m3, g3, l3, root, v[1]),
             t3 \in Page, l3[t3] = 3, m3[root][v[1]] = t3
      PROVE  \/ t1 = NULL /\ m1 \in Memories
             \/ \E new \in Levels :
                   /\ Extends(m, pg, lev, m1, g1, new, root, v[1])
                   /\ t1 \in Page /\ t1 = First(m1, root, v)
  <2>1. Good(m3, g3, l3) /\ Roots(l3) = Roots(lev)
    BY ZenonT(40), <1>4 DEF Extends
  <2>2. CASE Lost(m2, g2, t2)
    BY <1>1, <2>2, DescendNull DEF Lost
  <2>3. ASSUME NEW l2 \in Levels, Extends(m3, g3, l3, m2, g2, l2, root, v[1]),
               t2 \in Page, l2[t2] = 2, m2[t3][v[2]] = t2
        PROVE  \/ t1 = NULL /\ m1 \in Memories
               \/ \E new \in Levels :
                     /\ Extends(m, pg, lev, m1, g1, new, root, v[1])
                     /\ t1 \in Page /\ t1 = First(m1, root, v)
    <3>1. Good(m2, g2, l2)
      BY Zenon, <2>3 DEF Extends
    <3>2. Extends(m, pg, lev, m2, g2, l2, root, v[1])
      BY Zenon, <1>4, <2>3, ExtendsTwice
    <3>3. m2[root][v[1]] = t3 /\ l2[root] = 4 /\ l2[t3] = 3
      <4>1. root \in Roots(l3) /\ root \in Roots(l2)
        BY Zenon, <2>1, <3>2 DEF Extends
      <4>2. l3[root] = 4 /\ l2[root] = 4
        BY ZenonT(40), <4>1 DEF Roots
      <4>3. \A x \in Page : x \in Range(g3) => l3[x] = 0
        BY SMTT(40), <2>1, PoolRange DEF Good, Pooled
      <4>4. l2[t3] = 3
        BY SMTT(40), <4>3, <1>4, <2>3 DEF Extends
      <4>5. m2[root][v[1]] = t3
        BY <4>2, <1>1, <1>2, <1>4, <2>3, Constants DEF Extends
      <4> QED BY Zenon, <4>2, <4>4, <4>5
    <3>4. ASSUME NEW l1 \in Levels, Extends(m2, g2, l2, m1, g1, l1, root, v[1]),
                 t1 \in Page, m1[t2][v[3]] = t1
          PROVE  \E new \in Levels :
                    /\ Extends(m, pg, lev, m1, g1, new, root, v[1])
                    /\ t1 \in Page /\ t1 = First(m1, root, v)
      <4>1. Extends(m, pg, lev, m1, g1, l1, root, v[1])
        BY ZenonT(40), <3>2, <3>4, ExtendsTwice
      <4>2. m1[root][v[1]] = t3 /\ m1[t3][v[2]] = t2
        BY <3>3, <3>4, <2>3, <1>1, <1>2, <1>4, Constants DEF Extends
      <4>3. t1 = First(m1, root, v)
        BY Zenon, <4>2, <3>4, <2>3, <1>4, Constants DEF First, Second, Third, Entry
      <4> QED BY Zenon, <4>1, <4>3, <3>4
    <3>5. Lost(m1, g1, t1) \/ Reached(m2, g2, l2, root, v[1], t2, v[3], m1, g1, t1)
      <4>1. l2[t2] >= 2 /\ (l2[t2] = 4 => t2 = root /\ v[3] = v[1])
        BY SMTT(60), <2>3
      <4> QED BY ZenonT(40), <4>1, <1>1, <2>3, <3>1, DescendOne
    <3> QED BY Zenon, <2>3, <3>4, <3>5 DEF Lost, Reached
  <2>4. Lost(m2, g2, t2) \/ Reached(m3, g3, l3, root, v[1], t3, v[2], m2, g2, t2)
    <3>1. l3[t3] >= 2 /\ (l3[t3] = 4 => t3 = root /\ v[2] = v[1])
      BY <1>4
    <3> QED BY ZenonT(40), <3>1, <1>1, <1>4, <2>1, DescendOne
  <2> QED BY <1>4, <2>2, <2>3, <2>4 DEF Reached
<1>5. Lost(m3, g3, t3) \/ Reached(m, pg, lev, root, v[1], root, v[1], m3, g3, t3)
  <2>1. lev[root] >= 2
    BY SMTT(40), <1>2
  <2> QED BY <2>1, <1>1, <1>2, DescendOne
<1> QED BY <1>2, <1>3, <1>4, <1>5 DEF Reached

\* The page at v of root becomes d: n and ng are the memory and the pool after it
PageMapped(m, pg, lev, root, v, d, n, ng) ==
    \E new \in Levels :
        /\ Good(n, ng, new) /\ Roots(new) = Roots(lev) /\ Range(ng) \subseteq Range(pg)
        /\ \A x \in Page : x \notin Range(pg) => new[x] = lev[x]
        /\ \A r \in Roots(lev), j \in Index :
              r # root \/ j # v[1] \/ m[r][j] # Absent => n[r][j] = m[r][j]
        /\ \A r \in Roots(lev), w \in Walks :
              Leaf(n, r, w) = IF r = root /\ w = v THEN d ELSE Leaf(m, r, w)

\* vmm_map with a pool that lasts: one walk changes, and the tables stay sound.
LEMMA MapGood ==
    ASSUME NEW m, NEW pg, NEW lev, Good(m, pg, lev), NEW root \in Roots(lev), NEW v \in Walks,
           v[1] \notin KernelIndex \/ Roots(lev) = {root}, NEW d \in Page \cup {Image},
           NEW a, NEW s, s = vmm_map(At(m, pg, a), root, v, d), Lasts(s)
    PROVE  PageMapped(m, pg, lev, root, v, d, s.mem, s.pages)
<1> DEFINE s1 == Descend(Descend(Descend(At(m, pg, root), v[1]), v[2]), v[3])
           n == Entered(s1.mem, s1.at, v[4], d)
<1>1. [At(m, pg, a) EXCEPT !.at = root] = At(m, pg, root)
  BY DEF At
<1>2. s = [s1 EXCEPT !.mem = n]
  BY ZenonT(40), <1>1 DEF vmm_map
<1>3. s1 = At(s1.mem, s1.pages, s1.at)
  <2> DEFINE s3 == Descend(At(m, pg, root), v[1])
             s2 == Descend(s3, v[2])
  <2>1. s3 = At(s3.mem, s3.pages, s3.at)
    BY SMTT(40), DescendRecord
  <2> HIDE DEF s3
  <2>2. s2 = At(s2.mem, s2.pages, s2.at)
    BY <2>1, DescendRecord
  <2> HIDE DEF s2
  <2>3. s1 = Descend(s2, v[3])
    BY ZenonT(40) DEF s2, s3
  <2> QED BY SMTT(40), <2>2, <2>3, DescendRecord
<1>4. \/ s1.at = NULL /\ s1.mem \in Memories
      \/ \E new \in Levels :
            /\ Extends(m, pg, lev, s1.mem, s1.pages, new, root, v[1])
            /\ s1.at \in Page /\ s1.at = First(s1.mem, root, v)
  <2> DEFINE s3 == Descend(At(m, pg, root), v[1])
             s2 == Descend(s3, v[2])
  <2>1. s3 = At(s3.mem, s3.pages, s3.at)
    BY DescendRecord
  <2>2. Descend(At(m, pg, root), v[1]) = At(s3.mem, s3.pages, s3.at)
    BY Zenon, <2>1
  <2> HIDE DEF s3
  <2>3. s2 = At(s2.mem, s2.pages, s2.at)
    BY <2>1, DescendRecord
  <2>4. Descend(At(s3.mem, s3.pages, s3.at), v[2]) = At(s2.mem, s2.pages, s2.at)
    BY Zenon, <2>1, <2>3
  <2>5. s1 = Descend(s2, v[3])
    BY SMTT(40) DEF s3
  <2> HIDE DEF s2, s1
  <2>6. Descend(At(s2.mem, s2.pages, s2.at), v[3]) = At(s1.mem, s1.pages, s1.at)
    BY <2>3, <2>5, <1>3
  <2> QED BY SMTT(60), <2>2, <2>4, <2>6, DescendThrice
<1> HIDE DEF s1
<1>5. s.mem = n /\ s.pages = s1.pages
  BY <1>2, <1>3 DEF At
<1>6. v[1] \in Index /\ v[4] \in Index /\ d \in Frame /\ d # Absent
  BY WalkIndices, Constants
<1>7. s1.at # NULL
  <2> SUFFICES ASSUME s1.at = NULL, s1.mem \in Memories PROVE FALSE
    BY Zenon, <1>4, Constants
  <2>1. n[NULL][v[4]] = d
    BY <1>6, Constants DEF Entered, Memories
  <2> QED BY ZenonT(40), <2>1, <1>5, <1>6 DEF Lasts, Zeroed
<1>8. PICK new \in Levels :
            /\ Extends(m, pg, lev, s1.mem, s1.pages, new, root, v[1])
            /\ s1.at \in Page /\ s1.at = First(s1.mem, root, v)
  BY ZenonT(40), <1>4, <1>7
<1> HIDE DEF n
<1>9. Good(s1.mem, s1.pages, new) /\ Roots(new) = Roots(lev) /\ root \in Roots(new)
  BY SMTT(60), <1>8 DEF Extends
<1>10. /\ Tabled(n, new)
       /\ \A x \in Frame : (x \in Page => new[x] # 1) => n[x] = s1.mem[x]
       /\ \A r \in Roots(new), w \in Walks :
             Leaf(n, r, w) = IF r = root /\ w = v THEN d ELSE Leaf(s1.mem, r, w)
  <2>1. n = Entered(s1.mem, First(s1.mem, root, v), v[4], d) /\ First(s1.mem, root, v) # Absent
    BY SMTT(40), <1>8, Constants DEF n
  <2>2. Tabled(s1.mem, new) /\ d \in Frame \cup {Absent} /\ (v[1] \notin KernelIndex \/ Roots(new) = {root})
    BY <1>6, <1>9 DEF Good
  <2>3. LeafWritten(s1.mem, n, new, root, v, d)
    BY ZenonT(40), <2>1, <2>2, <1>9, LeafSet
  <2> QED BY ZenonT(40), <2>3 DEF LeafWritten
<1>11. \A r \in Roots(lev), w \in Walks :
          Leaf(n, r, w) = IF r = root /\ w = v THEN d ELSE Leaf(m, r, w)
  BY ZenonT(40), <1>8, <1>9, <1>10 DEF Extends
<1>12. \A r \in Roots(lev), j \in Index :
          r # root \/ j # v[1] \/ m[r][j] # Absent => n[r][j] = m[r][j]
  <2>1. \A r \in Roots(lev) : r \in Page /\ r \in Frame /\ lev[r] = 4 /\ new[r] = 4
    BY ZenonT(40), <1>9, Constants DEF Roots
  <2>2. \A r \in Roots(lev) : n[r] = s1.mem[r]
    BY SMTT(60), <2>1, <1>10
  <2> QED BY <2>1, <2>2, <1>8 DEF Extends
<1>13. n[NULL] = Zeroed
  BY Zenon, <1>9, <1>10, Constants DEF Good
<1>14. Range(s1.pages) \subseteq Range(pg) /\ \A x \in Page : x \notin Range(pg) => new[x] = lev[x]
  BY Zenon, <1>8 DEF Extends
<1>18. Good(n, s1.pages, new)
  BY <1>9, <1>10, <1>13 DEF Good
<1>19. PageMapped(m, pg, lev, root, v, d, n, s1.pages)
  BY ZenonT(40), <1>9, <1>11, <1>12, <1>14, <1>18 DEF PageMapped
<1> QED BY <1>5, <1>19

\* f becomes a PML4 with the kernel's half, in the memory n
RootAdded(m, pg, lev, kernel, f, n) ==
    \E new \in Levels :
        /\ Good(n, pg, new) /\ Roots(new) = Roots(lev) \cup {f}
        /\ \A x \in Page : x # f => new[x] = lev[x]
        /\ \A r \in Roots(lev), w \in Walks : Leaf(n, r, w) = Leaf(m, r, w)
        /\ \A w \in Walks : Leaf(n, f, w) = IF w[1] \in KernelIndex THEN Leaf(m, kernel, w)
                                            ELSE Absent

-----------------------------------------------------------------------------
\* A new PML4 with the kernel's half of another one
LEMMA NewGood ==
    ASSUME NEW m, NEW pg, NEW lev, Good(m, pg, lev), NEW f, Unused(pg, lev, f),
           NEW kernel \in Roots(lev),
           NEW n \in Memories, \A x \in Frame : x # f => n[x] = m[x],
           \A i \in Index : n[f][i] = IF i \in KernelIndex THEN m[kernel][i] ELSE Absent
    PROVE  RootAdded(m, pg, lev, kernel, f, n)
<1> DEFINE new == [lev EXCEPT ![f] = 4]
<1>1. m \in Memories /\ lev \in Levels /\ Tabled(m, lev) /\ f \in Page /\ lev[f] = 0
  BY DEF Good, Tabled, Unused
<1>2. new \in Levels /\ new[f] = 4 /\ \A x \in Page : x # f => new[x] = lev[x]
  BY <1>1 DEF Levels
<1> HIDE DEF new
<1>3. Roots(new) = Roots(lev) \cup {f} /\ kernel \in Page /\ lev[kernel] = 4 /\ kernel # f
  BY <1>1, <1>2 DEF Roots
<1>4. \A x \in Page : x # f => n[x] = m[x]
  BY ZenonT(40), Constants
<1>5. \A r \in Roots(lev), w \in Walks : Leaf(n, r, w) = Leaf(m, r, w)
  <2>1. \A x \in Page : lev[x] >= 1 => n[x] = m[x]
    BY SMTT(40), <1>1, <1>4
  <2> QED BY <2>1, <1>1, LeafKept
<1>6. \A x \in Page, j \in Index : lev[x] >= 2 => m[x][j] # f
  BY <1>1, Constants DEF Tabled, Linked, Levels
<1>7. ASSUME NEW w \in Walks
      PROVE  Leaf(n, f, w) = IF w[1] \in KernelIndex THEN Leaf(m, kernel, w) ELSE Absent
  <2>1. w[1] \in Index
    BY Zenon, WalkIndices
  <2>2. CASE w[1] \in KernelIndex
    <3>1. Third(n, f, w) = Third(n, kernel, w)
      BY Zenon, <2>1, <2>2, <1>3, <1>4 DEF Third
    <3>2. Leaf(n, f, w) = Leaf(n, kernel, w)
      BY Zenon, <3>1 DEF Leaf, First, Second
    <3> QED BY Zenon, <3>2, <2>2, <1>5
  <2>3. CASE w[1] \notin KernelIndex
    <3>1. Third(n, f, w) = Absent
      BY Zenon, <2>1, <2>3 DEF Third
    <3> QED BY Zenon, <3>1, <2>3 DEF Leaf, First, Second, Entry
  <2> QED BY Zenon, <2>2, <2>3
<1>8. Linked(n, new)
  <2> SUFFICES ASSUME NEW x \in Page, NEW j \in Index, new[x] >= 2, n[x][j] # Absent
               PROVE  n[x][j] \in Page /\ new[n[x][j]] = new[x] - 1
    BY Zenon DEF Linked
  <2>1. PICK y \in Page : n[x][j] = m[y][j] /\ lev[y] = new[x]
    BY ZenonT(40), <1>2, <1>3, <1>4
  <2>2. m[y][j] \in Page /\ lev[m[y][j]] = lev[y] - 1 /\ m[y][j] # f
    BY Zenon, <2>1, <1>1, <1>6 DEF Tabled, Linked
  <2> QED BY Zenon, <2>1, <2>2, <1>2
<1>9. OneParent(n, new)
  <2> SUFFICES ASSUME NEW x \in Page, NEW y \in Page, NEW j \in Index, NEW k \in Index,
                      new[x] >= 2, new[x] = new[y], n[x][j] = n[y][k], n[x][j] # Absent
               PROVE  j = k /\ (x = y \/ (new[x] = 4 /\ j \in KernelIndex))
    BY DEF OneParent
  <2>1. PICK a \in Page : /\ n[x][j] = m[a][j] /\ lev[a] = new[x]
                          /\ x # a => x = f /\ j \in KernelIndex
    BY ZenonT(40), <1>2, <1>3, <1>4
  <2>2. PICK b \in Page : /\ n[y][k] = m[b][k] /\ lev[b] = new[y]
                          /\ y # b => y = f /\ k \in KernelIndex
    BY SMTT(40), <1>2, <1>3, <1>4
  <2>3. j = k /\ (a = b \/ (lev[a] = 4 /\ j \in KernelIndex))
    <3>1. lev[a] >= 2 /\ lev[a] = lev[b] /\ m[a][j] = m[b][k] /\ m[a][j] # Absent
      BY ZenonT(40), <2>1, <2>2
    <3> QED BY <3>1, <1>1, SameEntry
  <2> QED BY Zenon, <2>1, <2>2, <2>3, <1>2
<1>10. Pooled(pg, new)
  <2>1. pg \in Seq(Page)
    BY Zenon DEF Good, Pooled
  <2>2. \A a \in 1 .. Len(pg) : pg[a] \in Page /\ pg[a] # f
    BY <2>1, PoolRange DEF Unused
  <2>3. \A a \in 1 .. Len(pg) : new[pg[a]] = 0
    BY Zenon, <2>2, <1>2 DEF Good, Pooled
  <2> QED BY Zenon, <2>1, <2>3 DEF Good, Pooled
<1>14. n[NULL] = Zeroed
  BY <1>1, Constants DEF Good
<1>15. Good(n, pg, new)
  BY ZenonT(40), <1>2, <1>8, <1>9, <1>10, <1>14 DEF Good, Tabled
<1> QED BY ZenonT(40), <1>2, <1>3, <1>5, <1>7, <1>15 DEF RootAdded

\* A frame is put back on the pool.
LEMMA PoolPush ==
    ASSUME NEW pg \in Seq(Page), NEW f \in Page
    PROVE  /\ <<f>> \o pg \in Seq(Page) /\ Len(<<f>> \o pg) = Len(pg) + 1 /\ Len(pg) \in Nat
           /\ \A a \in 1 .. Len(<<f>> \o pg) :
                 (<<f>> \o pg)[a] = IF a = 1 THEN f ELSE pg[a - 1]
           /\ Range(<<f>> \o pg) = Range(pg) \cup {f}
<1>1. /\ <<f>> \o pg \in Seq(Page) /\ Len(<<f>> \o pg) = Len(pg) + 1 /\ Len(pg) \in Nat
      /\ \A a \in 1 .. Len(<<f>> \o pg) :
            (<<f>> \o pg)[a] = IF a = 1 THEN f ELSE pg[a - 1]
  OBVIOUS
<1> DEFINE qg == <<f>> \o pg
<1> HIDE DEF qg
<1>2. \A x : x \in Range(qg) <=> \E a \in 1 .. Len(qg) : qg[a] = x
  BY ZenonT(40), <1>1, PoolRange DEF qg
<1>3. \A x : x \in Range(pg) <=> \E a \in 1 .. Len(pg) : pg[a] = x
  BY PoolRange
<1>4. \A x : x \in Range(qg) => x \in Range(pg) \cup {f}
  BY <1>1, <1>2, <1>3 DEF qg
<1>5. \A a \in 1 .. Len(pg) : a + 1 \in 1 .. Len(qg) /\ qg[a + 1] = pg[a]
  BY <1>1 DEF qg
<1>6. f \in Range(qg)
  BY <1>1, <1>2 DEF qg
<1>7. \A x : x \in Range(pg) => x \in Range(qg)
  BY Zenon, <1>2, <1>3, <1>5
<1> QED BY <1>1, <1>4, <1>6, <1>7 DEF qg

\* A frame that becomes free, and is no table then.
LEMMA PooledPush ==
    ASSUME NEW pg, NEW lev, Pooled(pg, lev), NEW f \in Page, f \notin Range(pg),
           NEW new, new[f] = 0, \A x \in Page : x # f => new[x] = lev[x]
    PROVE  Pooled(<<f>> \o pg, new)
<1> DEFINE qg == <<f>> \o pg
<1>1. /\ qg \in Seq(Page) /\ Len(qg) = Len(pg) + 1 /\ Len(pg) \in Nat
      /\ \A a \in 1 .. Len(qg) : qg[a] = IF a = 1 THEN f ELSE pg[a - 1]
  BY PoolPush DEF Pooled
<1> HIDE DEF qg
<1>2. \A a \in 1 .. Len(pg) : pg[a] \in Page /\ lev[pg[a]] = 0 /\ pg[a] # f
  BY PoolRange DEF Pooled
<1>3. \A a \in 1 .. Len(qg) : a = 1 \/ a - 1 \in 1 .. Len(pg)
  BY <1>1
<1>4. \A a \in 1 .. Len(qg) : new[qg[a]] = 0
  <2> SUFFICES ASSUME NEW a \in 1 .. Len(qg) PROVE new[qg[a]] = 0
    OBVIOUS
  <2>1. CASE a = 1
    BY <2>1, <1>1
  <2>2. CASE a # 1
    <3>1. qg[a] = pg[a - 1] /\ a - 1 \in 1 .. Len(pg)
      BY Zenon, <2>2, <1>1, <1>3
    <3> QED BY <3>1, <1>2
  <2> QED BY Zenon, <2>1, <2>2
<1>5. ASSUME NEW a \in 1 .. Len(qg), NEW b \in 1 .. Len(qg), qg[a] = qg[b]
      PROVE  a = b
  <2>1. CASE a = 1 \/ b = 1
    BY SMTT(40), <2>1, <1>5, <1>1, <1>2, <1>3
  <2>2. CASE a # 1 /\ b # 1
    <3>1. pg[a - 1] = pg[b - 1] /\ a - 1 \in 1 .. Len(pg) /\ b - 1 \in 1 .. Len(pg)
      BY <2>2, <1>5, <1>1, <1>3
    <3>2. a - 1 = b - 1
      BY Zenon, <3>1 DEF Pooled
    <3> QED BY <3>2
  <2> QED BY Zenon, <2>1, <2>2
<1> QED BY Zenon, <1>1, <1>4, <1>5 DEF Pooled, qg

\* vmm_destroy_pagemap: the PML4 is free, and its tables are nobody's.
LEMMA DestroyGood ==
    ASSUME NEW m, NEW pg, NEW lev, Good(m, pg, lev), NEW root \in Roots(lev)
    PROVE  \E new \in Levels :
              /\ Good(m, <<root>> \o pg, new) /\ Roots(new) = Roots(lev) \ {root}
              /\ \A x \in Page : x # root => new[x] = lev[x]
<1> DEFINE new == [lev EXCEPT ![root] = 0]
           qg == <<root>> \o pg
<1>1. m \in Memories /\ lev \in Levels /\ Tabled(m, lev) /\ pg \in Seq(Page)
  BY DEF Good, Tabled, Pooled
<1>2. root \in Page /\ lev[root] = 4
  BY DEF Roots
<1>3. new \in Levels /\ new[root] = 0 /\ \A x \in Page : x # root => new[x] = lev[x]
  BY <1>1, <1>2 DEF Levels
<1>4. /\ qg \in Seq(Page) /\ Len(qg) = Len(pg) + 1 /\ Len(pg) \in Nat
      /\ \A a \in 1 .. Len(qg) : qg[a] = IF a = 1 THEN root ELSE pg[a - 1]
      /\ Range(qg) = Range(pg) \cup {root}
  BY Zenon, <1>1, <1>2, PoolPush
<1> HIDE DEF new, qg
<1>5. Roots(new) = Roots(lev) \ {root}
  BY SMTT(40), <1>3 DEF Roots
<1>6. \A x \in Page, j \in Index : lev[x] >= 2 => m[x][j] # root
  BY SMTT(40), <1>1, <1>2, Constants DEF Tabled, Linked, Levels
<1>7. Linked(m, new)
  BY <1>1, <1>3, <1>6 DEF Tabled, Linked
<1>8. OneParent(m, new)
  <2> SUFFICES ASSUME NEW x \in Page, NEW y \in Page, NEW j \in Index, NEW k \in Index,
                      new[x] >= 2, new[x] = new[y], m[x][j] = m[y][k], m[x][j] # Absent
               PROVE  j = k /\ (x = y \/ (new[x] = 4 /\ j \in KernelIndex))
    BY DEF OneParent
  <2>1. new[x] = lev[x] /\ new[y] = lev[y]
    BY <1>3
  <2>2. lev[x] >= 2 /\ lev[x] = lev[y]
    BY ZenonT(40), <2>1
  <2>3. j = k /\ (x = y \/ (lev[x] = 4 /\ j \in KernelIndex))
    BY <2>2, <1>1, SameEntry
  <2> QED BY ZenonT(40), <2>1, <2>3
<1>9. Pooled(qg, new)
  <2>1. Pooled(pg, lev) /\ root \notin Range(pg)
    <3>1. \A x : x \in Range(pg) => lev[x] = 0
      BY SMTT(40), <1>1, PoolRange DEF Good, Pooled
    <3> QED BY SMTT(40), <3>1, <1>2 DEF Good
  <2>2. root \in Page /\ new[root] = 0 /\ \A x \in Page : x # root => new[x] = lev[x]
    BY <1>2, <1>3
  <2>3. Pooled(<<root>> \o pg, new)
    BY SMTT(40), <2>1, <2>2, PooledPush
  <2> QED BY <2>3 DEF qg
<1> QED BY ZenonT(40), <1>1, <1>3, <1>5, <1>7, <1>8, <1>9 DEF Good, Tabled, qg

\* vmm_unmap and the release of the frame.
LEMMA UnmapGood ==
    ASSUME NEW m, NEW pg, NEW lev, Good(m, pg, lev), NEW kernel \in Roots(lev), NEW v \in Walks,
           v[1] \notin KernelIndex, NEW d, d = Leaf(m, kernel, v), d # Absent, Unused(pg, lev, d),
           NEW n, n = Entered(m, First(m, kernel, v), v[4], Absent)
    PROVE  /\ Good(n, <<d>> \o pg, lev)
           /\ \A r \in Roots(lev) : n[r] = m[r]
           /\ OnlyLeaf(m, n, lev, kernel, v, Absent)
<1> DEFINE qg == <<d>> \o pg
<1>1. m \in Memories /\ lev \in Levels /\ Tabled(m, lev) /\ pg \in Seq(Page)
  BY ZenonT(40) DEF Good, Tabled, Pooled
<1>2. d \in Page /\ lev[d] = 0 /\ d \notin Range(pg)
  BY Zenon DEF Unused
<1>3. First(m, kernel, v) # Absent
  BY <1>1, WalkLevels
<1>4. /\ Tabled(n, lev)
      /\ \A x \in Frame : (x \in Page => lev[x] # 1) => n[x] = m[x]
      /\ \A r \in Roots(lev), w \in Walks :
            Leaf(n, r, w) = IF r = kernel /\ w = v THEN Absent ELSE Leaf(m, r, w)
  <2>1. LeafWritten(m, n, lev, kernel, v, Absent)
    BY ZenonT(40), <1>1, <1>3, LeafSet
  <2> QED BY ZenonT(40), <2>1 DEF LeafWritten
<1> HIDE DEF qg
<1>6. \A r \in Roots(lev) : n[r] = m[r]
  BY <1>4, Constants DEF Roots
<1>7. Pooled(qg, lev)
  <2>1. Pooled(pg, lev)
    BY ZenonT(40) DEF Good
  <2> QED BY ZenonT(40), <2>1, <1>2, PooledPush DEF qg
<1>11. n[NULL] = Zeroed
  BY <1>4, Constants DEF Good
<1> QED BY <1>4, <1>6, <1>7, <1>11 DEF Good, OnlyLeaf, qg

-----------------------------------------------------------------------------
\* A frame in use stays so when frames are taken from the pool.
LEMMA UnusedKept ==
    ASSUME NEW pg, NEW lev, NEW qg, NEW new, Range(qg) \subseteq Range(pg),
           \A x \in Page : x \notin Range(pg) => new[x] = lev[x], NEW f, Unused(pg, lev, f)
    PROVE  Unused(qg, new, f)
BY DEF Unused

\* Ownership depends on the walks, the pool and the levels only.
LEMMA OwnedKept ==
    ASSUME NEW m, NEW pg, NEW lev, NEW b, Owned(m, pg, lev, b), NEW n, NEW qg,
           Range(qg) \subseteq Range(pg),
           \A r \in Roots(lev), w \in Walks : Leaf(n, r, w) = Leaf(m, r, w)
    PROVE  /\ Owned(n, qg, lev, b)
           /\ \A f : Idle(m, pg, lev, b, f) => Idle(n, qg, lev, b, f)
<1>1. \A f : Unused(pg, lev, f) => Unused(qg, lev, f)
  BY DEF Unused
<1>2. Mapped(n, qg, lev, b)
  BY ZenonT(40), <1>1 DEF Owned, Mapped
<1>3. OnePlace(n, lev, b)
  BY ZenonT(40) DEF Owned, OnePlace
<1>4. \A f : Idle(m, pg, lev, b, f) => Idle(n, qg, lev, b, f)
  BY ZenonT(40), <1>1 DEF Idle
<1> QED BY Zenon, <1>2, <1>3, <1>4 DEF Owned

\* Lending more pages demands less.
LEMMA OwnedMore ==
    ASSUME NEW m, NEW pg, NEW lev, NEW b, NEW c, b \subseteq c, Owned(m, pg, lev, b)
    PROVE  Owned(m, pg, lev, c) /\ \A f : Idle(m, pg, lev, b, f) => Idle(m, pg, lev, c, f)
<1>1. Mapped(m, pg, lev, c)
  BY ZenonT(40) DEF Owned, Mapped
<1>2. OnePlace(m, lev, c)
  BY ZenonT(40) DEF Owned, OnePlace
<1>3. \A f : Idle(m, pg, lev, b, f) => Idle(m, pg, lev, c, f)
  BY ZenonT(40) DEF Idle
<1> QED BY Zenon, <1>1, <1>2, <1>3 DEF Owned

\* A frame of the pool is nobody's, but for whom it is lent.
LEMMA TopIsIdle ==
    ASSUME NEW m, NEW pg, NEW lev, NEW b, Owned(m, pg, lev, b), NEW n, NEW qg, NEW f,
           Unused(qg, lev, f), f \in Range(pg),
           \A r \in Roots(lev), w \in Walks : Leaf(n, r, w) = Leaf(m, r, w)
    PROVE  Idle(n, qg, lev, b, f)
<1>1. ASSUME NEW r \in Roots(lev), NEW w \in Walks, <<r, w>> \notin b, Leaf(m, r, w) = f
      PROVE  FALSE
  <2>1. f \in Page /\ f # Absent /\ f # Image
    BY Zenon, Constants DEF Unused
  <2>2. Unused(pg, lev, f)
    BY Zenon, <1>1, <2>1 DEF Owned, Mapped
  <2> QED BY Zenon, <2>2 DEF Unused
<1> QED BY Zenon, <1>1 DEF Idle

\* What may be mapped at v: a frame that is in use for nothing, or any at a page
\* that is lent; in the kernel's half, the image.
Placeable(m, pg, lev, b, root, v, d) ==
    /\ d \in Page \cup {Image}
    /\ v[1] \in KernelIndex => d = Image
    /\ v[1] \notin KernelIndex /\ <<root, v>> \notin b => Idle(m, pg, lev, b, d)

\* Frames were at most taken from the pool pg, the rest of which is qg.
Shrinks(pg, lev, qg, new) ==
    /\ Roots(new) = Roots(lev) /\ Range(qg) \subseteq Range(pg)
    /\ \A x \in Page : x \notin Range(pg) => new[x] = lev[x]

\* Mapping such a frame: what was idle stays so, and the frame that was there
\* becomes so.
LEMMA OwnedSet ==
    ASSUME NEW m, NEW pg, NEW lev, NEW b, Owned(m, pg, lev, b), NEW root \in Roots(lev),
           NEW v \in Walks, NEW d, Placeable(m, pg, lev, b, root, v, d),
           NEW n, NEW qg, NEW new, Shrinks(pg, lev, qg, new), OnlyLeaf(m, n, lev, root, v, d)
    PROVE  /\ Owned(n, qg, new, b)
           /\ \A f : Idle(m, pg, lev, b, f) /\ (f # d \/ <<root, v>> \in b) => Idle(n, qg, new, b, f)
           /\ v[1] \notin KernelIndex /\ <<root, v>> \notin b /\ Leaf(m, root, v) # Absent =>
                 Idle(n, qg, new, b, Leaf(m, root, v))
<1>1. \A f : Unused(pg, lev, f) => Unused(qg, new, f)
  BY Zenon, UnusedKept DEF Shrinks
<1>2. Leaf(n, root, v) = d /\ Roots(new) = Roots(lev)
  BY Zenon DEF OnlyLeaf, Shrinks
<1>3. \A r \in Roots(lev), w \in Walks : ~(r = root /\ w = v) => Leaf(n, r, w) = Leaf(m, r, w)
  BY Zenon DEF OnlyLeaf
<1>4. Mapped(n, qg, new, b)
  <2> SUFFICES ASSUME NEW r \in Roots(lev), NEW w \in Walks, Leaf(n, r, w) # Absent
               PROVE  /\ Leaf(n, r, w) \in Page \cup {Image}
                      /\ w[1] \in KernelIndex => Leaf(n, r, w) = Image
                      /\ w[1] \notin KernelIndex /\ <<r, w>> \notin b => Unused(qg, new, Leaf(n, r, w))
    BY Zenon, <1>2 DEF Mapped
  <2>1. CASE r = root /\ w = v
    BY Zenon, <2>1, <1>1, <1>2 DEF Placeable, Idle
  <2>2. CASE ~(r = root /\ w = v)
    BY Zenon, <2>2, <1>1, <1>3 DEF Owned, Mapped
  <2> QED BY Zenon, <2>1, <2>2
<1>5. ASSUME NEW r \in Roots(lev), NEW w \in Walks, <<r, w>> \notin b, <<root, v>> \notin b,
             Leaf(n, r, w) = d, d \in Page
      PROVE  r = root /\ w = v
  <2>1. v[1] \notin KernelIndex
    BY Zenon, <1>5, Constants DEF Placeable
  <2>2. \A q \in Roots(lev), u \in Walks : <<q, u>> \notin b => Leaf(m, q, u) # d
    BY Zenon, <1>5, <2>1 DEF Placeable, Idle
  <2> QED BY Zenon, <1>3, <1>5, <2>2
<1>6. OnePlace(n, new, b)
  <2> SUFFICES ASSUME NEW r \in Roots(lev), NEW q \in Roots(lev), NEW w \in Walks, NEW u \in Walks,
                      <<r, w>> \notin b, <<q, u>> \notin b,
                      Leaf(n, r, w) = Leaf(n, q, u), Leaf(n, r, w) \in Page
               PROVE  r = q /\ w = u
    BY Zenon, <1>2 DEF OnePlace
  <2>1. CASE r = root /\ w = v
    BY Zenon, <2>1, <1>2, <1>5
  <2>2. CASE q = root /\ u = v
    BY Zenon, <2>2, <1>2, <1>5
  <2>3. CASE ~(r = root /\ w = v) /\ ~(q = root /\ u = v)
    BY Zenon, <2>3, <1>3 DEF Owned, OnePlace
  <2> QED BY Zenon, <2>1, <2>2, <2>3
<1>7. ASSUME NEW f, Idle(m, pg, lev, b, f), f # d \/ <<root, v>> \in b
      PROVE  Idle(n, qg, new, b, f)
  <2>1. Unused(qg, new, f)
    BY Zenon, <1>1, <1>7 DEF Idle
  <2>2. ASSUME NEW r \in Roots(lev), NEW w \in Walks, <<r, w>> \notin b PROVE Leaf(n, r, w) # f
    <3>1. CASE r = root /\ w = v
      BY Zenon, <3>1, <2>2, <1>2, <1>7
    <3>2. CASE ~(r = root /\ w = v)
      BY Zenon, <3>2, <2>2, <1>3, <1>7 DEF Idle
    <3> QED BY Zenon, <3>1, <3>2
  <2> QED BY Zenon, <2>1, <2>2, <1>2 DEF Idle
<1>8. ASSUME v[1] \notin KernelIndex, <<root, v>> \notin b, Leaf(m, root, v) # Absent
      PROVE  Idle(n, qg, new, b, Leaf(m, root, v))
  <2> DEFINE f == Leaf(m, root, v)
  <2>1. Unused(pg, lev, f) /\ f \in Page
    BY Zenon, <1>8 DEF Owned, Mapped, Unused
  <2>2. f # d
    BY Zenon, <1>8 DEF Placeable, Idle
  <2> HIDE DEF f
  <2>3. ASSUME NEW r \in Roots(lev), NEW w \in Walks, <<r, w>> \notin b PROVE Leaf(n, r, w) # f
    <3>1. CASE r = root /\ w = v
      BY Zenon, <3>1, <1>2, <2>2
    <3>2. CASE ~(r = root /\ w = v)
      <4>1. Leaf(m, r, w) = f => r = root /\ w = v
        BY Zenon, <2>1, <2>3, <1>8 DEF Owned, OnePlace, f
      <4> QED BY Zenon, <3>2, <4>1, <1>3
    <3> QED BY Zenon, <3>1, <3>2
  <2>4. Idle(n, qg, new, b, f)
    BY Zenon, <2>1, <2>3, <1>1, <1>2 DEF Idle
  <2> QED BY Zenon, <2>4 DEF f
<1> QED BY Zenon, <1>4, <1>6, <1>7, <1>8 DEF Owned

\* A new PML4 leads to the image only.
LEMMA OwnedNew ==
    ASSUME NEW m, NEW pg, NEW lev, NEW b, Owned(m, pg, lev, b), NEW f, Idle(m, pg, lev, b, f),
           NEW kernel \in Roots(lev), NEW n, NEW new, Roots(new) = Roots(lev) \cup {f},
           \A x \in Page : x # f => new[x] = lev[x],
           \A r \in Roots(lev), w \in Walks : Leaf(n, r, w) = Leaf(m, r, w),
           \A w \in Walks : Leaf(n, f, w) = IF w[1] \in KernelIndex THEN Leaf(m, kernel, w)
                                            ELSE Absent
    PROVE  /\ Owned(n, pg, new, b)
           /\ \A g : Idle(m, pg, lev, b, g) /\ g # f => Idle(n, pg, new, b, g)
<1>1. \A g : Unused(pg, lev, g) /\ g # f => Unused(pg, new, g)
  BY DEF Unused
<1>2. \A w \in Walks : Leaf(n, f, w) # Absent => w[1] \in KernelIndex /\ Leaf(n, f, w) = Image
  BY Zenon DEF Owned, Mapped
<1>3. Mapped(n, pg, new, b)
  <2> SUFFICES ASSUME NEW r \in Roots(new), NEW w \in Walks, Leaf(n, r, w) # Absent
               PROVE  /\ Leaf(n, r, w) \in Page \cup {Image}
                      /\ w[1] \in KernelIndex => Leaf(n, r, w) = Image
                      /\ w[1] \notin KernelIndex /\ <<r, w>> \notin b => Unused(pg, new, Leaf(n, r, w))
    BY Zenon DEF Mapped
  <2>1. CASE r = f
    BY Zenon, <2>1, <1>2
  <2>2. CASE r # f
    <3>1. r \in Roots(lev) /\ Leaf(n, r, w) = Leaf(m, r, w)
      BY Zenon, <2>2
    <3>2. <<r, w>> \notin b => Leaf(m, r, w) # f
      BY Zenon, <3>1 DEF Idle
    <3> QED BY Zenon, <3>1, <3>2, <1>1 DEF Owned, Mapped
  <2> QED BY Zenon, <2>1, <2>2
<1>4. \A r \in Roots(new), w \in Walks :
         Leaf(n, r, w) \in Page => r \in Roots(lev) /\ Leaf(n, r, w) = Leaf(m, r, w)
  BY ZenonT(40), <1>2, Constants
<1>5. OnePlace(n, new, b)
  <2> SUFFICES ASSUME NEW r \in Roots(new), NEW q \in Roots(new), NEW w \in Walks, NEW u \in Walks,
                      <<r, w>> \notin b, <<q, u>> \notin b,
                      Leaf(n, r, w) = Leaf(n, q, u), Leaf(n, r, w) \in Page
               PROVE  r = q /\ w = u
    BY Zenon DEF OnePlace
  <2>1. /\ r \in Roots(lev) /\ Leaf(n, r, w) = Leaf(m, r, w)
        /\ q \in Roots(lev) /\ Leaf(n, q, u) = Leaf(m, q, u)
    BY Zenon, <1>4
  <2> QED BY Zenon, <2>1 DEF Owned, OnePlace
<1>6. ASSUME NEW g, Idle(m, pg, lev, b, g), g # f PROVE Idle(n, pg, new, b, g)
  <2>1. Unused(pg, new, g) /\ g \in Page
    BY Zenon, <1>1, <1>6 DEF Idle, Unused
  <2>2. ASSUME NEW r \in Roots(new), NEW w \in Walks, <<r, w>> \notin b PROVE Leaf(n, r, w) # g
    BY Zenon, <2>1, <2>2, <1>4, <1>6 DEF Idle
  <2> QED BY Zenon, <2>1, <2>2 DEF Idle
<1> QED BY Zenon, <1>3, <1>5, <1>6 DEF Owned

\* A PML4 that is released was nobody's page, and takes its pages with it.
LEMMA OwnedLess ==
    ASSUME NEW m, NEW pg, NEW lev, NEW b, Owned(m, pg, lev, b), NEW root \in Roots(lev),
           NEW qg, Range(qg) = Range(pg) \cup {root},
           NEW new, Roots(new) = Roots(lev) \ {root}, \A x \in Page : x # root => new[x] = lev[x],
           NEW c, \A r, w : r # root /\ <<r, w>> \in b => <<r, w>> \in c
    PROVE  /\ Owned(m, qg, new, c)
           /\ \A f : Idle(m, pg, lev, b, f) => Idle(m, qg, new, c, f)
<1>1. \A f : Unused(pg, lev, f) => Unused(qg, new, f)
  <2> SUFFICES ASSUME NEW f, Unused(pg, lev, f) PROVE Unused(qg, new, f)
    BY Zenon
  <2>1. f # root
    BY DEF Unused, Roots
  <2> QED BY <2>1 DEF Unused
<1>2. \A r, w : r # root /\ <<r, w>> \notin c => <<r, w>> \notin b
  BY Zenon
<1>3. \A r \in Roots(new) : r \in Roots(lev) /\ r # root
  BY Zenon
<1>4. Mapped(m, qg, new, c)
  BY ZenonT(40), <1>1, <1>2, <1>3 DEF Owned, Mapped
<1>5. OnePlace(m, new, c)
  BY ZenonT(40), <1>2, <1>3 DEF Owned, OnePlace
<1>6. \A f : Idle(m, pg, lev, b, f) => Idle(m, qg, new, c, f)
  BY ZenonT(40), <1>1, <1>2, <1>3 DEF Idle
<1> QED BY Zenon, <1>4, <1>5, <1>6 DEF Owned

\* The frame that vma_free releases was in use for the page alone.
LEMMA OwnedUnmap ==
    ASSUME NEW m, NEW pg, NEW lev, NEW b, Owned(m, pg, lev, b), NEW root \in Roots(lev),
           NEW v \in Walks, <<root, v>> \notin b, NEW d, d = Leaf(m, root, v), d \in Page,
           NEW qg, Range(qg) = Range(pg) \cup {d}, NEW n, OnlyLeaf(m, n, lev, root, v, Absent)
    PROVE  /\ Owned(n, qg, lev, b)
           /\ \A f : Idle(m, pg, lev, b, f) => Idle(n, qg, lev, b, f)
<1>1. \A f : Unused(pg, lev, f) /\ f # d => Unused(qg, lev, f)
  BY DEF Unused
<1>2. \A r \in Roots(lev), w \in Walks :
         Leaf(n, r, w) # Absent => ~(r = root /\ w = v) /\ Leaf(n, r, w) = Leaf(m, r, w)
  BY Zenon DEF OnlyLeaf
<1>3. \A r \in Roots(lev), w \in Walks :
         Leaf(n, r, w) # Absent /\ <<r, w>> \notin b => Leaf(n, r, w) # d
  BY Zenon, <1>2 DEF Owned, OnePlace
<1>4. Mapped(n, qg, lev, b)
  BY ZenonT(40), <1>1, <1>2, <1>3 DEF Owned, Mapped
<1>5. OnePlace(n, lev, b)
  <2>1. \A r \in Roots(lev), w \in Walks : Leaf(n, r, w) \in Page => Leaf(n, r, w) = Leaf(m, r, w)
    BY Zenon, <1>2, Constants
  <2> QED BY ZenonT(40), <2>1 DEF Owned, OnePlace
<1>6. ASSUME NEW f, Idle(m, pg, lev, b, f) PROVE Idle(n, qg, lev, b, f)
  <2>1. f # d /\ f # Absent
    BY Zenon, <1>6, Constants DEF Idle, Unused
  <2>2. Unused(qg, lev, f)
    BY Zenon, <2>1, <1>1, <1>6 DEF Idle
  <2> QED BY Zenon, <2>1, <2>2, <1>2, <1>6 DEF Idle
<1> QED BY Zenon, <1>4, <1>5, <1>6 DEF Owned

-----------------------------------------------------------------------------
\* What virt_to_phys finds, as a function of the memory
Phys(m, r, w) == IF Leaf(m, r, w) = Absent THEN NULL ELSE Leaf(m, r, w)

\* virt_to_phys is the walk, now and in the next state.
LEMMA WalkIsPhys ==
    ASSUME NEW r, NEW w
    PROVE  virt_to_phys(r, w) = Phys(mem, r, w) /\ virt_to_phys(r, w)' = Phys(mem', r, w)
BY ZenonT(40) DEF virt_to_phys, Pml1, Phys, Leaf, First, Second, Third, Entry

\* A cached translation is the one of the page map c, or its frame is idle.
Stands(m, pg, lev, b, c, e) == Phys(m, c, e[1]) = e[2] \/ Idle(m, pg, lev, b, e[2])

(* The inductive invariant: for some levels the tables are sound, the       *)
(* frames are owned and the cached translations stand; the kernel's half is *)
(* the same in all PML4s; pages are lent to processes only, and not to the  *)
(* one that runs.                                                           *)
Sound ==
    \E lev \in Levels :
        /\ Good(mem, pages, lev) /\ Owned(mem, pages, lev, lent) /\ maps = Roots(lev)
        /\ \A e \in tlb : Stands(mem, pages, lev, lent, cr3, e)
HalfShared == \A r \in maps, i \in KernelIndex : mem[r][i] = mem[kernel_pagemap][i]
Cached == \A e \in tlb : e[1] \in Virt /\ e[2] # NULL
Lending ==
    /\ lent \subseteq (maps \ {kernel_pagemap}) \X UserVirt
    /\ sharing \subseteq (maps \ {kernel_pagemap, cr3}) \X UserVirt
    /\ sharing # {} => up /\ cr3 \in maps
VmmInv ==
    /\ Sound /\ HalfShared /\ Cached /\ Lending
    /\ kernel_pagemap \in maps /\ up \in BOOLEAN
    /\ ~up => maps = {kernel_pagemap} /\ tlb = {}
    /\ up => \E i \in KernelIndex : mem[kernel_pagemap][i] # Absent

\* What a step does to the walks of the page maps, and to their PML4s
Sets(root, v, d) ==
    \A r \in maps, w \in Walks :
        Leaf(mem', r, w) = IF r = root /\ w = v THEN d ELSE Leaf(mem, r, w)
Keeps(root, i) ==
    \A r \in maps, j \in Index : r # root \/ j # i \/ mem[r][j] # Absent => mem'[r][j] = mem[r][j]

\* The state vmm_map starts from
LEMMA MemoryAt == Memory = At(mem, pages, NULL)
BY SMTT(60) DEF Memory, At

\* r is the state with the first frame of the pool taken and zeroed
FrameTaken(r, lev) ==
    /\ r = At(r.mem, Tail(pages), Head(pages)) /\ r.at = Head(pages) /\ r.at # NULL
    /\ r.mem \in Memories /\ Good(r.mem, Tail(pages), lev) /\ Owned(r.mem, Tail(pages), lev, lent)
    /\ Idle(r.mem, Tail(pages), lev, lent, Head(pages))
    /\ \A x \in Frame : x # Head(pages) => r.mem[x] = mem[x]
    /\ \A x \in Page : lev[x] >= 1 => r.mem[x] = mem[x]
    /\ \A q \in Roots(lev), w \in Walks : Leaf(r.mem, q, w) = Leaf(mem, q, w)
    /\ \A g : Idle(mem, pages, lev, lent, g) =>
                 Idle(r.mem, Tail(pages), lev, lent, g) /\ g # Head(pages)

\* A frame that is taken from the pool, zeroed, for the state as it is.
LEMMA RequestedFrame ==
    ASSUME NEW lev, Good(mem, pages, lev), Owned(mem, pages, lev, lent), pages # <<>>
    PROVE  FrameTaken(Requested(Memory), lev)
<1> DEFINE r == Requested(Memory)
           f == Head(pages)
<1>1. r = At([mem EXCEPT ![f] = Zeroed], Tail(pages), f)
  BY DEF Requested, Memory, At
<1>2. r.mem = [mem EXCEPT ![f] = Zeroed] /\ r.at = f /\ r.pages = Tail(pages)
  BY <1>1 DEF At
<1>3. mem \in Memories /\ pages \in Seq(Page)
  BY DEF Good, Tabled, Pooled
<1>4. f \in Page /\ f # NULL
  BY Zenon, <1>3, PoolTail, Constants
<1> HIDE DEF r
<1>5. r.mem \in Memories /\ r.mem[f] = Zeroed /\ \A x \in Frame : x # f => r.mem[x] = mem[x]
  BY SMTT(60), <1>2, <1>3, <1>4, Constants DEF Memories, Zeroed
<1>6. /\ Good(r.mem, Tail(pages), lev) /\ Unused(Tail(pages), lev, f)
      /\ f \in Range(pages) /\ Range(Tail(pages)) \subseteq Range(pages)
      /\ \A x \in Page : lev[x] >= 1 => r.mem[x] = mem[x]
      /\ \A q \in Roots(lev), w \in Walks : Leaf(r.mem, q, w) = Leaf(mem, q, w)
  BY <1>5, RequestGood
<1>7. r = At(r.mem, Tail(pages), f)
  BY Zenon, <1>1, <1>2
<1>8. Idle(r.mem, Tail(pages), lev, lent, f)
  BY ZenonT(40), <1>6, TopIsIdle
<1>9. /\ Owned(r.mem, Tail(pages), lev, lent)
      /\ \A g : Idle(mem, pages, lev, lent, g) => Idle(r.mem, Tail(pages), lev, lent, g)
  BY ZenonT(40), <1>6, OwnedKept
<1>10. \A g : Idle(mem, pages, lev, lent, g) => g # f
  BY Zenon, <1>6 DEF Idle, Unused
<1> QED BY ZenonT(40), <1>2, <1>4, <1>5, <1>6, <1>7, <1>8, <1>9, <1>10 DEF r, FrameTaken

\* The steps that map a page: m is the memory, after a frame was requested or as it was.
LEMMA MapStep ==
    ASSUME NEW lev \in Levels, maps = Roots(lev), UNCHANGED <<maps, cr3, tlb>>,
           NEW m, NEW pg, Good(m, pg, lev), Owned(m, pg, lev, lent'),
           \A x \in Roots(lev) : m[x] = mem[x],
           \A r \in Roots(lev), w \in Walks : Leaf(m, r, w) = Leaf(mem, r, w),
           NEW root \in Roots(lev), NEW v \in Walks,
           v[1] \notin KernelIndex \/ (Roots(lev) = {root} /\ tlb = {}),
           NEW d, Placeable(m, pg, lev, lent', root, v, d),
           cr3 \in Roots(lev) \/ tlb = {}, cr3 = root => <<root, v>> \notin lent',
           \A e \in tlb :
              /\ e[1] \in Walks /\ e[2] # NULL
              /\ \/ Phys(m, cr3, e[1]) = e[2]
                 \/ Idle(m, pg, lev, lent', e[2]) /\ (e[2] # d \/ <<root, v>> \in lent'),
           NEW a, Becomes(vmm_map(At(m, pg, a), root, v, d))
    PROVE  Sound' /\ Sets(root, v, d) /\ Keeps(root, v[1])
<1> DEFINE s == vmm_map(At(m, pg, a), root, v, d)
<1>1. Lasts(s) /\ mem' = s.mem /\ pages' = s.pages
  BY Zenon DEF Becomes
<1>2. PageMapped(m, pg, lev, root, v, d, s.mem, s.pages)
  <2>1. d \in Page \cup {Image} /\ (v[1] \notin KernelIndex \/ Roots(lev) = {root})
    BY Zenon DEF Placeable
  <2> QED BY ZenonT(40), <1>1, <2>1, MapGood
<1> HIDE DEF s
<1>3. PICK new \in Levels :
         /\ Good(mem', pages', new) /\ Roots(new) = Roots(lev) /\ Range(pages') \subseteq Range(pg)
         /\ \A x \in Page : x \notin Range(pg) => new[x] = lev[x]
         /\ \A r \in Roots(lev), j \in Index :
               r # root \/ j # v[1] \/ m[r][j] # Absent => mem'[r][j] = m[r][j]
         /\ \A r \in Roots(lev), w \in Walks :
               Leaf(mem', r, w) = IF r = root /\ w = v THEN d ELSE Leaf(m, r, w)
  BY ZenonT(40), <1>1, <1>2 DEF PageMapped
<1>4. /\ Owned(mem', pages', new, lent')
      /\ \A f : Idle(m, pg, lev, lent', f) /\ (f # d \/ <<root, v>> \in lent') =>
                   Idle(mem', pages', new, lent', f)
      /\ v[1] \notin KernelIndex /\ <<root, v>> \notin lent' /\ Leaf(m, root, v) # Absent =>
            Idle(mem', pages', new, lent', Leaf(m, root, v))
  <2>1. Shrinks(pg, lev, pages', new) /\ OnlyLeaf(m, mem', lev, root, v, d)
    BY Zenon, <1>3 DEF Shrinks, OnlyLeaf
  <2> QED BY ZenonT(40), <2>1, OwnedSet
<1>5. ASSUME NEW e \in tlb PROVE Stands(mem', pages', new, lent', cr3, e)
  <2>1. CASE Idle(m, pg, lev, lent', e[2]) /\ (e[2] # d \/ <<root, v>> \in lent')
    BY Zenon, <2>1, <1>4 DEF Stands
  <2>2. CASE Phys(m, cr3, e[1]) = e[2] /\ ~(cr3 = root /\ e[1] = v)
    BY Zenon, <2>2, <1>3 DEF Phys, Stands
  <2>3. CASE Phys(m, cr3, e[1]) = e[2] /\ cr3 = root /\ e[1] = v
    <3>1. Leaf(m, root, v) # Absent /\ Leaf(m, root, v) = e[2]
      BY Zenon, <2>3 DEF Phys
    <3> QED BY Zenon, <2>3, <3>1, <1>4 DEF Stands
  <2> QED BY Zenon, <2>1, <2>2, <2>3
<1>6. Sound'
  <2>1. maps' = Roots(new) /\ \A e \in tlb' : Stands(mem', pages', new, lent', cr3', e)
    BY Zenon, <1>3, <1>5
  <2> QED BY ZenonT(40), <2>1, <1>3, <1>4 DEF Sound
<1>7. Sets(root, v, d)
  BY ZenonT(40), <1>3 DEF Sets
<1>8. Keeps(root, v[1])
  <2> SUFFICES ASSUME NEW r \in Roots(lev), NEW j \in Index,
                      r # root \/ j # v[1] \/ mem[r][j] # Absent
               PROVE  mem'[r][j] = mem[r][j]
    BY Zenon DEF Keeps
  <2>1. m[r][j] = mem[r][j]
    BY Zenon
  <2> QED BY Zenon, <2>1, <1>3
<1> QED BY Zenon, <1>6, <1>7, <1>8

\* The levels of a sound state, and its parts.
LEMMA SoundLevels ==
    ASSUME VmmInv
    PROVE  \E lev \in Levels :
              /\ Good(mem, pages, lev) /\ Owned(mem, pages, lev, lent) /\ maps = Roots(lev)
              /\ \A e \in tlb : Stands(mem, pages, lev, lent, cr3, e)
BY Zenon DEF VmmInv, Sound

\* vmm_init maps a page of the kernel's half.
LEMMA InitStep ==
    ASSUME VmmInv, NEW v \in Virt, vmm_init(v)
    PROVE  /\ Sound' /\ Sets(kernel_pagemap, v, Image) /\ Keeps(kernel_pagemap, v[1])
           /\ v \in KernelVirt
<1>1. PICK lev \in Levels :
         Good(mem, pages, lev) /\ Owned(mem, pages, lev, lent) /\ maps = Roots(lev)
  BY Zenon, SoundLevels
<1>2. /\ maps = {kernel_pagemap} /\ v \in Walks /\ v[1] \in KernelIndex /\ v \in KernelVirt
      /\ tlb = {} /\ UNCHANGED <<maps, cr3, tlb, lent>>
  BY ZenonT(40), Constants DEF VmmInv, vmm_init, KernelVirt
<1>3. Placeable(mem, pages, lev, lent', kernel_pagemap, v, Image)
  BY <1>2, Constants DEF Placeable
<1>4. Becomes(vmm_map(At(mem, pages, NULL), kernel_pagemap, v, Image))
  BY MemoryAt DEF vmm_init
<1>5. <<kernel_pagemap, v>> \notin lent'
  BY <1>2 DEF VmmInv, Lending
<1> QED BY ZenonT(40), <1>1, <1>2, <1>3, <1>4, <1>5, MapStep

\* A user's page is not the kernel's.
LEMMA UserWalk ==
    ASSUME NEW v \in UserVirt
    PROVE  v \in Virt /\ v \in Walks /\ v[1] \in Index /\ v[1] \notin KernelIndex /\ v \notin KernelVirt
BY Constants, WalkIndices DEF UserVirt, KernelVirt

\* vma_alloc and elf_load_binary map a new frame, if there is one.
LEMMA MapNewStep ==
    ASSUME VmmInv, NEW root \in maps, NEW v \in Virt, MapNew(root, v)
    PROVE  \/ mem' = mem /\ pages' = pages
           \/ \E d \in Page : Sound' /\ Sets(root, v, d) /\ Keeps(root, v[1])
<1>1. PICK lev \in Levels :
         /\ Good(mem, pages, lev) /\ Owned(mem, pages, lev, lent) /\ maps = Roots(lev)
         /\ \A e \in tlb : Stands(mem, pages, lev, lent, cr3, e)
  BY Zenon, SoundLevels
<1>2. v \in Walks /\ v[1] \notin KernelIndex /\ cr3 \in Roots(lev) /\ UNCHANGED <<maps, cr3, tlb, lent>>
  BY Zenon, <1>1, UserWalk DEF MapNew, ClientRuns
<1>3. <<root, v>> \notin lent
  BY DEF MapNew, Spawned, VmmInv, Lending
<1> DEFINE r == Requested(Memory)
<1>4. CASE pages = <<>>
  <2>1. r = Memory
    BY <1>4 DEF Requested, Memory
  <2>2. r.at = NULL
    BY SMTT(40), <2>1 DEF Memory
  <2>3. Becomes(Memory)
    BY <2>1, <2>2 DEF MapNew
  <2> QED BY <2>3 DEF Becomes, Memory
<1>5. CASE pages # <<>>
  <2> DEFINE f == Head(pages)
  <2>1. /\ r = At(r.mem, Tail(pages), f) /\ r.at = f /\ r.at # NULL
        /\ Good(r.mem, Tail(pages), lev) /\ Owned(r.mem, Tail(pages), lev, lent)
        /\ Idle(r.mem, Tail(pages), lev, lent, f)
        /\ \A x \in Page : lev[x] >= 1 => r.mem[x] = mem[x]
        /\ \A q \in Roots(lev), w \in Walks : Leaf(r.mem, q, w) = Leaf(mem, q, w)
        /\ \A g : Idle(mem, pages, lev, lent, g) =>
                     Idle(r.mem, Tail(pages), lev, lent, g) /\ g # f
    <3>1. FrameTaken(r, lev)
      BY ZenonT(40), <1>1, <1>5, RequestedFrame
    <3> HIDE DEF r
    <3> QED BY ZenonT(40), <3>1 DEF FrameTaken
  <2>2. Becomes(vmm_map(r, root, v, r.at))
    BY ZenonT(40), <2>1 DEF MapNew
  <2> HIDE DEF r, f
  <2>3. Becomes(vmm_map(At(r.mem, Tail(pages), f), root, v, f))
    BY SMTT(60), <2>1, <2>2
  <2>4. f \in Page /\ Placeable(r.mem, Tail(pages), lev, lent', root, v, f)
    BY ZenonT(40), <1>2, <2>1 DEF Idle, Unused, Placeable
  <2>5. \A x \in Roots(lev) : r.mem[x] = mem[x]
    BY SMTT(60), <2>1 DEF Roots
  <2>6. ASSUME NEW e \in tlb
        PROVE  /\ e[1] \in Walks /\ e[2] # NULL
               /\ \/ Phys(r.mem, cr3, e[1]) = e[2]
                  \/ Idle(r.mem, Tail(pages), lev, lent', e[2]) /\ (e[2] # f \/ <<root, v>> \in lent')
    <3>1. e[1] \in Walks /\ e[2] # NULL
      BY Zenon, Constants DEF VmmInv, Cached
    <3>2. Phys(r.mem, cr3, e[1]) = Phys(mem, cr3, e[1])
      BY Zenon, <3>1, <2>1, <1>2 DEF Phys
    <3> QED BY Zenon, <3>1, <3>2, <2>1, <1>1, <1>2 DEF Stands
  <2>7. Owned(r.mem, Tail(pages), lev, lent') /\ <<root, v>> \notin lent'
    BY Zenon, <1>2, <1>3, <2>1
  <2>8. Sound' /\ Sets(root, v, f) /\ Keeps(root, v[1])
    BY ZenonT(40), <1>1, <1>2, <2>1, <2>3, <2>4, <2>5, <2>6, <2>7, MapStep
  <2> QED BY SMTT(60), <2>4, <2>8
<1> QED BY <1>4, <1>5

\* scheduler_spawn lends a process a page.
LEMMA LendStep ==
    ASSUME VmmInv, cr3 \in maps, NEW root \in maps, root # cr3, NEW v \in UserVirt,
           NEW d \in Page \cup {Image}, Becomes(vmm_map(Memory, root, v, d)),
           UNCHANGED <<maps, cr3, tlb>>, lent' = lent \cup {<<root, v>>}
    PROVE  Sound' /\ Sets(root, v, d) /\ Keeps(root, v[1])
<1>1. PICK lev \in Levels :
         /\ Good(mem, pages, lev) /\ Owned(mem, pages, lev, lent) /\ maps = Roots(lev)
         /\ \A e \in tlb : Stands(mem, pages, lev, lent, cr3, e)
  BY Zenon, SoundLevels
<1>2. v \in Walks /\ v[1] \notin KernelIndex
  BY Zenon, UserWalk
<1>3. lent \subseteq lent' /\ <<root, v>> \in lent'
  OBVIOUS
<1>4. Owned(mem, pages, lev, lent') /\
      \A f : Idle(mem, pages, lev, lent, f) => Idle(mem, pages, lev, lent', f)
  BY Zenon, <1>1, <1>3, OwnedMore
<1>5. Placeable(mem, pages, lev, lent', root, v, d)
  BY Zenon, <1>2, <1>3 DEF Placeable
<1>6. Becomes(vmm_map(At(mem, pages, NULL), root, v, d))
  BY Zenon, MemoryAt
<1>7. ASSUME NEW e \in tlb
      PROVE  /\ e[1] \in Walks /\ e[2] # NULL
             /\ \/ Phys(mem, cr3, e[1]) = e[2]
                \/ Idle(mem, pages, lev, lent', e[2]) /\ (e[2] # d \/ <<root, v>> \in lent')
  BY Zenon, <1>1, <1>3, <1>4, Constants DEF VmmInv, Cached, Stands
<1> HIDE DEF Sound, Sets, Keeps
<1> QED BY ZenonT(40), <1>1, <1>2, <1>4, <1>5, <1>6, <1>7, MapStep

\* The page of the process itself, mapped to the frame of its number.
LEMMA SpawnStep ==
    ASSUME VmmInv, NEW root \in maps, NEW v \in Virt, scheduler_spawn(root, v)
    PROVE  /\ Sound' /\ Sets(root, v, Identity[v]) /\ Keeps(root, v[1])
           /\ Identity[v] \in Page \cup {Image} /\ v \in UserVirt
<1>1. cr3 \in maps /\ root # cr3 /\ v \in UserVirt
  BY DEF scheduler_spawn, ClientRuns
<1>2. Identity[v] \in Page \cup {Image}
  BY <1>1, VmmAssumption
<1>3. /\ Becomes(vmm_map(Memory, root, v, Identity[v])) /\ lent' = lent \cup {<<root, v>>}
      /\ UNCHANGED <<maps, cr3, tlb>>
  BY Zenon DEF scheduler_spawn
<1> QED BY ZenonT(40), <1>1, <1>2, <1>3, LendStep

\* A page that is shared, mapped to the kernel's frame if there is one.
LEMMA ShareStep ==
    ASSUME VmmInv, NEW root \in maps, NEW v \in Virt, map_range_to_pagemap(root, v)
    PROVE  /\ root \in maps \ {kernel_pagemap, cr3} /\ v \in UserVirt /\ up /\ cr3 \in maps
           /\ \/ UNCHANGED <<mem, pages, lent>>
              \/ \E d \in Page \cup {Image} :
                    /\ Sound' /\ Sets(root, v, d) /\ Keeps(root, v[1])
                    /\ lent' = lent \cup {<<root, v>>}
<1>1. root \in maps \ {kernel_pagemap, cr3} /\ v \in UserVirt /\ up /\ cr3 \in maps
  BY DEF map_range_to_pagemap, VmmInv, Lending
<1> DEFINE d == virt_to_phys(kernel_pagemap, v)
<1>2. ASSUME d # NULL, Becomes(vmm_map(Memory, root, v, d)), lent' = lent \cup {<<root, v>>}
      PROVE  d \in Page \cup {Image} /\ Sound' /\ Sets(root, v, d) /\ Keeps(root, v[1])
  <2>1. d = Leaf(mem, kernel_pagemap, v) /\ d # Absent
    BY Zenon, <1>2, WalkIsPhys DEF Phys
  <2> HIDE DEF d
  <2>2. PICK lev \in Levels : Owned(mem, pages, lev, lent) /\ maps = Roots(lev)
    BY Zenon, SoundLevels
  <2>3. d \in Page \cup {Image}
    BY Zenon, <2>1, <2>2, <1>1, UserWalk DEF Owned, Mapped, VmmInv
  <2>4. UNCHANGED <<maps, cr3, tlb>>
    BY Zenon DEF map_range_to_pagemap
  <2> QED BY ZenonT(40), <1>1, <1>2, <2>3, <2>4, LendStep
<1>3. \/ UNCHANGED <<mem, pages, lent>>
      \/ d # NULL /\ Becomes(vmm_map(Memory, root, v, d)) /\ lent' = lent \cup {<<root, v>>}
  BY Zenon DEF map_range_to_pagemap
<1> HIDE DEF d
<1> QED BY Zenon, <1>1, <1>2, <1>3

\* vma_free unmaps a page of the kernel's page map.
LEMMA UnmapStep ==
    ASSUME VmmInv, NEW v \in Virt, vmm_unmap(v)
    PROVE  /\ Sound' /\ Sets(kernel_pagemap, v, Absent)
           /\ \A r \in maps : mem'[r] = mem[r]
<1>1. PICK lev \in Levels :
         /\ Good(mem, pages, lev) /\ Owned(mem, pages, lev, lent) /\ maps = Roots(lev)
         /\ \A e \in tlb : Stands(mem, pages, lev, lent, cr3, e)
  BY Zenon, SoundLevels
<1>2. /\ v \in Walks /\ v[1] \notin KernelIndex /\ kernel_pagemap \in Roots(lev) /\ cr3 \in Roots(lev)
      /\ UNCHANGED <<maps, cr3, lent>> /\ tlb' = {e \in tlb : e[1] # v}
  BY Zenon, <1>1, UserWalk DEF vmm_unmap, VmmInv, ClientRuns, Invalidated
<1>3. <<kernel_pagemap, v>> \notin lent
  BY DEF VmmInv, Lending
<1> DEFINE d == Leaf(mem, kernel_pagemap, v)
<1>4. virt_to_phys(kernel_pagemap, v) = d /\ d # Absent
  BY WalkIsPhys, Constants DEF Phys, vmm_unmap
<1>5. mem' = Entered(mem, First(mem, kernel_pagemap, v), v[4], Absent)
  BY ZenonT(40) DEF vmm_unmap, Unlinked, Pml1, First, Second, Third, Entry
<1>6. pages' = <<d>> \o pages
  BY ZenonT(40), <1>4 DEF vmm_unmap
<1> HIDE DEF d
<1>7. Unused(pages, lev, d) /\ d \in Page
  BY Zenon, <1>1, <1>2, <1>3, <1>4 DEF Owned, Mapped, Unused, d
<1>8. /\ Good(mem', <<d>> \o pages, lev)
      /\ \A r \in Roots(lev) : mem'[r] = mem[r]
      /\ OnlyLeaf(mem, mem', lev, kernel_pagemap, v, Absent)
  <2>1. d = Leaf(mem, kernel_pagemap, v)
    BY Zenon DEF d
  <2> QED BY <2>1, <1>1, <1>2, <1>4, <1>5, <1>7, UnmapGood
<1>9. Range(pages') = Range(pages) \cup {d}
  <2>1. pages \in Seq(Page)
    BY Zenon, <1>1 DEF Good, Pooled
  <2> QED BY Zenon, <2>1, <1>6, <1>7, PoolPush
<1>10. /\ Owned(mem', pages', lev, lent)
       /\ \A f : Idle(mem, pages, lev, lent, f) => Idle(mem', pages', lev, lent, f)
  <2>1. d = Leaf(mem, kernel_pagemap, v)
    BY Zenon DEF d
  <2> QED BY ZenonT(40), <2>1, <1>1, <1>2, <1>3, <1>7, <1>8, <1>9, OwnedUnmap
<1>11. ASSUME NEW e \in tlb' PROVE Stands(mem', pages', lev, lent, cr3, e)
  <2>1. e \in tlb /\ e[1] # v /\ e[1] \in Walks
    BY <1>2, Constants DEF VmmInv, Cached
  <2>2. Phys(mem', cr3, e[1]) = Phys(mem, cr3, e[1])
    BY Zenon, <2>1, <1>2, <1>8 DEF Phys, OnlyLeaf
  <2> QED BY Zenon, <2>1, <2>2, <1>1, <1>10 DEF Stands
<1>12. Sound'
  <2>1. /\ Good(mem', pages', lev) /\ Owned(mem', pages', lev, lent') /\ maps' = Roots(lev)
        /\ \A e \in tlb' : Stands(mem', pages', lev, lent', cr3', e)
    BY Zenon, <1>1, <1>2, <1>6, <1>8, <1>10, <1>11
  <2> QED BY Zenon, <2>1 DEF Sound
<1> QED BY Zenon, <1>1, <1>8, <1>12 DEF Sets, OnlyLeaf

\* vmm_new_pagemap creates a page map with the kernel's half and nothing else.
\* It gets a frame: writing the kernel's half to frame 0 would show.
LEMMA NewStep ==
    ASSUME VmmInv, vmm_new_pagemap
    PROVE  \E f \in Page :
              /\ Sound' /\ f \notin maps /\ maps' = maps \cup {f}
              /\ \A r \in maps : mem'[r] = mem[r]
              /\ \A i \in KernelIndex : mem'[f][i] = mem[kernel_pagemap][i]
              /\ \A r \in maps, w \in Walks : Leaf(mem', r, w) = Leaf(mem, r, w)
              /\ \A w \in Walks : Leaf(mem', f, w) = IF w[1] \in KernelIndex
                                                     THEN Leaf(mem, kernel_pagemap, w) ELSE Absent
<1>1. PICK lev \in Levels :
         /\ Good(mem, pages, lev) /\ Owned(mem, pages, lev, lent) /\ maps = Roots(lev)
         /\ \A e \in tlb : Stands(mem, pages, lev, lent, cr3, e)
  BY Zenon, SoundLevels
<1>2. kernel_pagemap \in Roots(lev) /\ kernel_pagemap \in Page /\ mem \in Memories /\ lev[kernel_pagemap] = 4
  BY <1>1 DEF VmmInv, Roots, Good, Tabled
<1> DEFINE r == Requested(Memory)
           half == [i \in Index |-> IF i \in KernelIndex THEN mem[kernel_pagemap][i] ELSE Absent]
           s == [r EXCEPT !.mem = [r.mem EXCEPT ![r.at] = half]]
<1>3. Becomes(s) /\ maps' = maps \cup {r.at}
  BY DEF vmm_new_pagemap, Inherited
<1>4. pages # <<>>
  <2> SUFFICES ASSUME pages = <<>> PROVE FALSE
    OBVIOUS
  <2>1. r.at = NULL /\ r.mem = mem /\ s.mem = [mem EXCEPT ![NULL] = half]
    BY DEF Requested, Memory
  <2>2. s.mem[NULL] = half
    BY <2>1, <1>2, Constants DEF Memories
  <2>3. half = Zeroed
    BY <2>2, <1>3 DEF Becomes, Lasts
  <2>4. \A i \in KernelIndex : mem[kernel_pagemap][i] = Absent
    BY SMTT(60), <2>3, Constants DEF Zeroed
  <2> QED BY <2>4 DEF VmmInv, vmm_new_pagemap, ClientRuns
<1> DEFINE f == Head(pages)
<1>5. /\ r = At(r.mem, Tail(pages), f) /\ r.at = f
      /\ r.mem \in Memories /\ Good(r.mem, Tail(pages), lev) /\ Owned(r.mem, Tail(pages), lev, lent)
      /\ Idle(r.mem, Tail(pages), lev, lent, f)
      /\ \A x \in Frame : x # f => r.mem[x] = mem[x]
      /\ \A x \in Page : lev[x] >= 1 => r.mem[x] = mem[x]
      /\ \A q \in Roots(lev), w \in Walks : Leaf(r.mem, q, w) = Leaf(mem, q, w)
      /\ \A g : Idle(mem, pages, lev, lent, g) =>
                   Idle(r.mem, Tail(pages), lev, lent, g) /\ g # f
  <2>1. FrameTaken(r, lev)
    BY ZenonT(40), <1>1, <1>4, RequestedFrame
  <2> HIDE DEF r, half, s
  <2> QED BY ZenonT(40), <2>1 DEF FrameTaken
<1> HIDE DEF r, f
<1>6. f \in Page /\ f \in Frame /\ f \notin Roots(lev)
  BY <1>5, Constants DEF Idle, Unused, Roots
<1>7. mem' = [r.mem EXCEPT ![f] = half] /\ pages' = Tail(pages)
  BY <1>3, <1>5 DEF Becomes, At
<1>8. half \in [Index -> Frame \cup {Absent}]
  BY ZenonT(40), <1>2, Constants DEF Memories
<1>9. mem' \in Memories /\ mem'[f] = half /\ \A x \in Frame : x # f => mem'[x] = r.mem[x]
  <2> HIDE DEF half
  <2> QED BY Zenon, <1>5, <1>6, <1>7, <1>8 DEF Memories
<1>10. r.mem[kernel_pagemap] = mem[kernel_pagemap]
  BY <1>2, <1>5
<1>11. \A i \in Index : mem'[f][i] = IF i \in KernelIndex THEN r.mem[kernel_pagemap][i] ELSE Absent
  BY SMTT(60), <1>9, <1>10
<1> HIDE DEF half, s
<1>12. PICK new \in Levels :
          /\ Good(mem', Tail(pages), new) /\ Roots(new) = Roots(lev) \cup {f}
          /\ \A x \in Page : x # f => new[x] = lev[x]
          /\ \A q \in Roots(lev), w \in Walks : Leaf(mem', q, w) = Leaf(r.mem, q, w)
          /\ \A w \in Walks : Leaf(mem', f, w) = IF w[1] \in KernelIndex
                                                 THEN Leaf(r.mem, kernel_pagemap, w) ELSE Absent
  <2>1. RootAdded(r.mem, Tail(pages), lev, kernel_pagemap, f, mem')
    BY ZenonT(40), <1>2, <1>5, <1>9, <1>11, NewGood DEF Idle
  <2> QED BY ZenonT(40), <2>1 DEF RootAdded
<1>13. maps' = maps \cup {f}
  BY ZenonT(40), <1>3, <1>5
<1>14. Sound'
  <2>1. UNCHANGED <<cr3, tlb, lent>> /\ cr3 \in Roots(lev)
    BY Zenon, <1>1 DEF vmm_new_pagemap, ClientRuns
  <2>2. /\ Owned(mem', Tail(pages), new, lent)
        /\ \A g : Idle(r.mem, Tail(pages), lev, lent, g) /\ g # f =>
                     Idle(mem', Tail(pages), new, lent, g)
    <3> DEFINE m == r.mem
    <3>1. /\ Owned(m, Tail(pages), lev, lent) /\ Idle(m, Tail(pages), lev, lent, f)
          /\ kernel_pagemap \in Roots(lev)
      BY Zenon, <1>2, <1>5
    <3> HIDE DEF m
    <3>2. /\ Roots(new) = Roots(lev) \cup {f} /\ \A x \in Page : x # f => new[x] = lev[x]
          /\ \A q \in Roots(lev), w \in Walks : Leaf(mem', q, w) = Leaf(m, q, w)
          /\ \A w \in Walks : Leaf(mem', f, w) = IF w[1] \in KernelIndex
                                                 THEN Leaf(m, kernel_pagemap, w) ELSE Absent
      BY <1>12 DEF m
    <3>3. /\ Owned(mem', Tail(pages), new, lent)
          /\ \A g : Idle(m, Tail(pages), lev, lent, g) /\ g # f =>
                       Idle(mem', Tail(pages), new, lent, g)
      BY <3>1, <3>2, OwnedNew
    <3> QED BY <3>3 DEF m
  <2>3. ASSUME NEW e \in tlb PROVE Stands(mem', Tail(pages), new, lent, cr3, e)
    <3>1. e[1] \in Walks
      BY Zenon, Constants DEF VmmInv, Cached
    <3>2. Phys(mem', cr3, e[1]) = Phys(mem, cr3, e[1])
      BY Zenon, <3>1, <2>1, <1>5, <1>12 DEF Phys
    <3> QED BY Zenon, <3>2, <2>2, <1>1, <1>5 DEF Stands
  <2>4. /\ Good(mem', pages', new) /\ Owned(mem', pages', new, lent') /\ maps' = Roots(new)
        /\ \A e \in tlb' : Stands(mem', pages', new, lent', cr3', e)
    BY Zenon, <1>1, <1>7, <1>12, <1>13, <2>1, <2>2, <2>3
  <2> QED BY Zenon, <2>4 DEF Sound
<1>15. \A q \in maps : mem'[q] = mem[q]
  <2> SUFFICES ASSUME NEW q \in Roots(lev) PROVE mem'[q] = mem[q]
    BY <1>1
  <2>1. q \in Frame /\ q \in Page /\ lev[q] = 4 /\ q # f
    BY Zenon, <1>6, Constants DEF Roots
  <2> QED BY Zenon, <2>1, <1>5, <1>9
<1>16. \A i \in KernelIndex : mem'[f][i] = mem[kernel_pagemap][i]
  BY Zenon, <1>10, <1>11, Constants
<1>17. \A q \in maps, w \in Walks : Leaf(mem', q, w) = Leaf(mem, q, w)
  BY ZenonT(40), <1>1, <1>5, <1>12
<1>18. \A w \in Walks : Leaf(mem', f, w) = IF w[1] \in KernelIndex
                                           THEN Leaf(mem, kernel_pagemap, w) ELSE Absent
  BY <1>2, <1>5, <1>12
<1> QED BY Zenon, <1>1, <1>6, <1>13, <1>14, <1>15, <1>16, <1>17, <1>18

\* vmm_destroy_pagemap releases the PML4 in use.
LEMMA DestroyStep ==
    ASSUME VmmInv, vmm_destroy_pagemap
    PROVE  Sound' /\ mem' = mem /\ cr3 \in maps /\ cr3 # kernel_pagemap /\ maps' = maps \ {cr3}
<1>1. PICK lev \in Levels :
         /\ Good(mem, pages, lev) /\ Owned(mem, pages, lev, lent) /\ maps = Roots(lev)
         /\ \A e \in tlb : Stands(mem, pages, lev, lent, cr3, e)
  BY Zenon, SoundLevels
<1>2. /\ mem' = mem /\ cr3 \in Roots(lev) /\ cr3 # kernel_pagemap /\ maps' = maps \ {cr3}
      /\ pages' = <<cr3>> \o pages /\ lent' = {e \in lent : e[1] # cr3} /\ UNCHANGED <<cr3, tlb>>
  BY <1>1 DEF vmm_destroy_pagemap, Released, ClientRuns
<1>3. PICK new \in Levels :
         /\ Good(mem, <<cr3>> \o pages, new) /\ Roots(new) = Roots(lev) \ {cr3}
         /\ \A x \in Page : x # cr3 => new[x] = lev[x]
  BY <1>1, <1>2, DestroyGood
<1>4. Range(pages') = Range(pages) \cup {cr3}
  <2>1. pages \in Seq(Page) /\ cr3 \in Page
    BY Zenon, <1>1, <1>2 DEF Good, Pooled, Roots
  <2> QED BY Zenon, <2>1, <1>2, PoolPush
<1>5. /\ Owned(mem, pages', new, lent')
      /\ \A f : Idle(mem, pages, lev, lent, f) => Idle(mem, pages', new, lent', f)
  <2>1. /\ Owned(mem, pages, lev, lent) /\ cr3 \in Roots(lev)
        /\ Roots(new) = Roots(lev) \ {cr3} /\ \A x \in Page : x # cr3 => new[x] = lev[x]
    BY Zenon, <1>1, <1>2, <1>3
  <2>2. \A r, w : r # cr3 /\ <<r, w>> \in lent => <<r, w>> \in lent'
    BY <1>2
  <2> QED BY <2>1, <2>2, <1>4, OwnedLess
<1>6. \A e \in tlb : Stands(mem, pages', new, lent', cr3, e)
  BY Zenon, <1>1, <1>5 DEF Stands
<1>7. Sound'
  <2>1. /\ Good(mem', pages', new) /\ Owned(mem', pages', new, lent') /\ maps' = Roots(new)
        /\ \A e \in tlb' : Stands(mem', pages', new, lent', cr3', e)
    BY Zenon, <1>1, <1>2, <1>3, <1>5, <1>6
  <2> QED BY Zenon, <2>1 DEF Sound
<1> QED BY <1>1, <1>2, <1>7

\* vmm_init's first request: the kernel's PML4.
LEMMA VmmInvInit == Init => VmmInv
<1> SUFFICES ASSUME Init PROVE VmmInv
  OBVIOUS
<1> DEFINE zero == [f \in Frame |-> Zeroed]
           kernel == Head(Pages)
           lev == [f \in Page |-> IF f = kernel THEN 4 ELSE 0]
<1>1. Pages \in Seq(Page) /\ Pages # <<>> /\ \A a, b \in 1 .. Len(Pages) : Pages[a] = Pages[b] => a = b
  <2>1. Pages \in Seq(Page) /\ Pages # <<>> /\ IsInjective(Pages)
    BY VmmAssumption
  <2>2. DOMAIN Pages = 1 .. Len(Pages)
    BY <2>1
  <2> QED BY <2>1, <2>2 DEF IsInjective
<1>2. kernel \in Page /\ kernel = Pages[1]
  BY Zenon, <1>1, PoolTail
<1>3. zero \in Memories /\ [zero EXCEPT ![kernel] = Zeroed] = zero /\ \A f \in Frame : zero[f] = Zeroed
  BY <1>2, Constants DEF Memories, Zeroed
<1>4. mem = zero /\ pages = Tail(Pages) /\ kernel_pagemap = kernel /\ maps = {kernel}
  <2> HIDE DEF zero
  <2> QED BY <1>1, <1>3 DEF Init, Requested, zero
<1>5. lev \in Levels /\ lev[kernel] = 4 /\ \A f \in Page : f # kernel => lev[f] = 0
  BY <1>2 DEF Levels
<1> HIDE DEF zero, kernel, lev
<1>6. maps = Roots(lev)
  BY <1>2, <1>4, <1>5 DEF Roots
<1>7. \A f \in Page, i \in Index : mem[f][i] = Absent
  BY <1>3, <1>4, Constants DEF Zeroed
<1>8. \A w \in Walks : Leaf(mem, kernel, w) = Absent
  BY ZenonT(40), <1>2, <1>7, WalkIndices DEF Leaf, First, Second, Third, Entry
<1>9. Tabled(mem, lev) /\ mem[NULL] = Zeroed
  BY SMTT(60), <1>3, <1>4, <1>5, <1>7, Constants DEF Tabled, Linked, OneParent
<1>10. Pooled(Tail(Pages), lev)
  <2>1. \A a \in 1 .. Len(Tail(Pages)) : Tail(Pages)[a] \in Page /\ Tail(Pages)[a] # kernel
    BY <1>1, <1>2, PoolTail
  <2>2. Tail(Pages) \in Seq(Page) /\ \A a \in 1 .. Len(Tail(Pages)) : lev[Tail(Pages)[a]] = 0
    BY Zenon, <2>1, <1>1, <1>5, PoolTail
  <2>3. ASSUME NEW a \in 1 .. Len(Tail(Pages)), NEW b \in 1 .. Len(Tail(Pages)),
               Tail(Pages)[a] = Tail(Pages)[b]
        PROVE  a = b
    <3>1. /\ Pages[a + 1] = Pages[b + 1]
          /\ a + 1 \in 1 .. Len(Pages) /\ b + 1 \in 1 .. Len(Pages)
      BY <2>3, <1>1, PoolTail
    <3>2. a + 1 = b + 1
      BY Zenon, <3>1, <1>1
    <3> QED BY <3>2
  <2> QED BY ZenonT(40), <2>2, <2>3 DEF Pooled
<1>11. Owned(mem, pages, lev, lent)
  BY Zenon, <1>4, <1>6, <1>8, Constants DEF Owned, Mapped, OnePlace
<1>12. tlb = {} /\ up = FALSE /\ lent = {} /\ sharing = {}
  BY DEF Init
<1>13. Sound
  BY Zenon, <1>4, <1>5, <1>6, <1>9, <1>10, <1>11, <1>12 DEF Sound, Good
<1>14. Lending
  BY <1>12 DEF Lending
<1> QED BY ZenonT(40), <1>4, <1>12, <1>13, <1>14 DEF VmmInv, HalfShared, Cached

\* A step that maps a user's page leaves the kernel's half alone.
LEMMA HalfKept ==
    ASSUME VmmInv, up, NEW root \in maps, NEW v \in UserVirt, Keeps(root, v[1]),
           UNCHANGED <<kernel_pagemap, maps>>
    PROVE  HalfShared' /\ \E i \in KernelIndex : mem'[kernel_pagemap][i] # Absent
<1>1. \A r \in maps, i \in KernelIndex : mem'[r][i] = mem[r][i]
  BY ZenonT(40), UserWalk, Constants DEF Keeps
<1>2. HalfShared'
  BY <1>1 DEF HalfShared, VmmInv
<1>3. \E i \in KernelIndex : mem'[kernel_pagemap][i] # Absent
  BY Zenon, <1>1 DEF VmmInv
<1> QED BY Zenon, <1>2, <1>3

\* Every step preserves the invariant.
LEMMA VmmInvNext == VmmInv /\ [Next]_vars => VmmInv'
<1> SUFFICES ASSUME VmmInv, [Next]_vars PROVE VmmInv'
  OBVIOUS
<1>1. ASSUME NEW v \in Virt, vmm_init(v) PROVE VmmInv'
  <2>1. Sound' /\ Keeps(kernel_pagemap, v[1])
    BY <1>1, InitStep
  <2>2. UNCHANGED <<kernel_pagemap, maps, cr3, tlb, up, lent, sharing>> /\ ~up
    BY <1>1 DEF vmm_init
  <2>3. maps' = {kernel_pagemap} /\ tlb' = {} /\ kernel_pagemap' \in maps'
    BY Zenon, <2>2 DEF VmmInv
  <2>4. HalfShared' /\ Cached'
    BY Zenon, <2>2, <2>3 DEF HalfShared, Cached
  <2>5. Lending'
    BY Zenon, <2>2 DEF VmmInv, Lending
  <2> QED BY ZenonT(40), <2>1, <2>2, <2>3, <2>4, <2>5 DEF VmmInv
<1>2. ASSUME NEW root \in maps, vmm_switch_pagemap(root) PROVE VmmInv'
  <2>1. /\ UNCHANGED <<mem, pages, kernel_pagemap, maps, lent, sharing>>
        /\ tlb' = {} /\ up' = TRUE /\ sharing = {}
    BY <1>2 DEF vmm_switch_pagemap
  <2>2. \E i \in KernelIndex : mem[kernel_pagemap][i] # Absent
    <3>1. CASE up
      BY <3>1 DEF VmmInv
    <3>2. CASE ~up
      <4>1. PICK v \in KernelVirt : TRUE
        BY Constants
      <4>2. virt_to_phys(kernel_pagemap, v) = Image
        BY <1>2, <3>2, <4>1 DEF vmm_switch_pagemap
      <4>3. Leaf(mem, kernel_pagemap, v) # Absent
        BY SMTT(60), <4>2, WalkIsPhys, Constants DEF Phys
      <4>4. mem[kernel_pagemap][v[1]] # Absent
        BY ZenonT(40), <4>3 DEF Leaf, First, Second, Third, Entry
      <4> QED BY <4>4 DEF KernelVirt
    <3> QED BY <3>1, <3>2
  <2>3. Sound'
    BY Zenon, <2>1 DEF VmmInv, Sound
  <2>4. Lending'
    BY <2>1 DEF VmmInv, Lending
  <2> QED BY Zenon, <2>1, <2>2, <2>3, <2>4 DEF VmmInv, HalfShared, Cached
<1>3. ASSUME NEW v \in Virt, Access(v) PROVE VmmInv'
  <2>1. /\ UNCHANGED <<mem, pages, kernel_pagemap, maps, cr3, up, lent, sharing>> /\ up
        /\ virt_to_phys(cr3, v) # NULL /\ tlb' = {<<v, virt_to_phys(cr3, v)>>}
    BY <1>3 DEF Access
  <2>2. virt_to_phys(cr3, v) = Phys(mem, cr3, v)
    BY WalkIsPhys
  <2>3. \A e \in tlb' : e[1] \in Virt /\ e[2] # NULL /\ Phys(mem, cr3, e[1]) = e[2]
    BY <2>1, <2>2
  <2>4. Sound'
    BY Zenon, <2>1, <2>3 DEF VmmInv, Sound, Stands
  <2>5. Cached'
    BY Zenon, <2>3 DEF Cached
  <2>6. HalfShared' /\ Lending'
    BY Zenon, <2>1 DEF VmmInv, HalfShared, Lending
  <2> QED BY Zenon, <2>1, <2>4, <2>5, <2>6 DEF VmmInv
<1>4. ASSUME NEW root \in maps, NEW v \in Virt, MapNew(root, v) PROVE VmmInv'
  <2>1. UNCHANGED <<kernel_pagemap, maps, cr3, tlb, up, lent, sharing>> /\ up /\ v \in UserVirt
    BY Zenon, <1>4 DEF MapNew, ClientRuns
  <2>2. CASE mem' = mem /\ pages' = pages
    BY <1>4, <2>1, <2>2 DEF VmmInv, Sound, HalfShared, Cached, Lending
  <2>3. ASSUME Sound', Keeps(root, v[1]) PROVE VmmInv'
    <3>1. HalfShared' /\ \E i \in KernelIndex : mem'[kernel_pagemap][i] # Absent
      BY Zenon, <2>1, <2>3, HalfKept
    <3>2. Lending' /\ Cached'
      BY Zenon, <2>1 DEF VmmInv, Lending, Cached
    <3> QED BY ZenonT(40), <3>1, <3>2, <2>1, <2>3 DEF VmmInv
  <2> QED BY Zenon, <2>2, <2>3, <1>4, MapNewStep
<1>5. ASSUME NEW root \in maps, NEW v \in Virt, scheduler_spawn(root, v) PROVE VmmInv'
  <2>1. /\ UNCHANGED <<kernel_pagemap, maps, cr3, tlb, up>> /\ up /\ cr3 \in maps
        /\ root \in maps \ {kernel_pagemap, cr3} /\ v \in UserVirt
        /\ lent' = lent \cup {<<root, v>>} /\ sharing' = {root} \X Shared
    BY Zenon, <1>5 DEF scheduler_spawn, ClientRuns
  <2>2. Sound' /\ Keeps(root, v[1])
    BY Zenon, <1>5, SpawnStep
  <2>3. HalfShared' /\ \E i \in KernelIndex : mem'[kernel_pagemap][i] # Absent
    BY Zenon, <2>1, <2>2, HalfKept
  <2>4. Lending'
    <3>1. Shared \subseteq UserVirt
      BY VmmAssumption
    <3>2. lent' \subseteq (maps' \ {kernel_pagemap'}) \X UserVirt
      BY <2>1 DEF VmmInv, Lending
    <3>3. sharing' \subseteq (maps' \ {kernel_pagemap', cr3'}) \X UserVirt
      BY <2>1, <3>1
    <3> QED BY Zenon, <2>1, <3>2, <3>3 DEF Lending
  <2>5. Cached'
    BY Zenon, <2>1 DEF VmmInv, Cached
  <2> QED BY ZenonT(40), <2>1, <2>2, <2>3, <2>4, <2>5 DEF VmmInv
<1>6. ASSUME NEW root \in maps, NEW v \in Virt, map_range_to_pagemap(root, v) PROVE VmmInv'
  <2>1. /\ UNCHANGED <<kernel_pagemap, maps, cr3, tlb, up>>
        /\ sharing' = sharing \ {<<root, v>>}
    BY Zenon, <1>6 DEF map_range_to_pagemap
  <2>2. /\ root \in maps \ {kernel_pagemap, cr3} /\ v \in UserVirt /\ up /\ cr3 \in maps
        /\ \/ UNCHANGED <<mem, pages, lent>>
           \/ Sound' /\ Keeps(root, v[1]) /\ lent' = lent \cup {<<root, v>>}
    BY Zenon, <1>6, ShareStep
  <2>3. Lending'
    <3>1. lent' \subseteq (maps' \ {kernel_pagemap'}) \X UserVirt
      BY <2>1, <2>2 DEF VmmInv, Lending
    <3>2. sharing' \subseteq (maps' \ {kernel_pagemap', cr3'}) \X UserVirt
      BY <2>1 DEF VmmInv, Lending
    <3> QED BY Zenon, <2>1, <2>2, <3>1, <3>2 DEF Lending
  <2>4. Cached'
    BY Zenon, <2>1 DEF VmmInv, Cached
  <2>5. CASE UNCHANGED <<mem, pages, lent>>
    <3>1. Sound' /\ HalfShared'
      BY Zenon, <2>1, <2>5 DEF VmmInv, Sound, HalfShared
    <3> QED BY Zenon, <2>1, <2>3, <2>4, <2>5, <3>1 DEF VmmInv
  <2>6. CASE Sound' /\ Keeps(root, v[1])
    <3>1. HalfShared' /\ \E i \in KernelIndex : mem'[kernel_pagemap][i] # Absent
      BY Zenon, <2>1, <2>2, <2>6, HalfKept
    <3> QED BY ZenonT(40), <2>1, <2>2, <2>3, <2>4, <2>6, <3>1 DEF VmmInv
  <2> QED BY Zenon, <2>2, <2>5, <2>6
<1>7. ASSUME NEW v \in Virt, vmm_unmap(v) PROVE VmmInv'
  <2>1. /\ UNCHANGED <<kernel_pagemap, maps, cr3, up, lent, sharing>> /\ up
        /\ tlb' = {e \in tlb : e[1] # v}
    BY Zenon, <1>7 DEF vmm_unmap, ClientRuns, Invalidated
  <2>2. Sound' /\ \A r \in maps : mem'[r] = mem[r]
    BY Zenon, <1>7, UnmapStep
  <2>3. HalfShared'
    BY <2>1, <2>2 DEF HalfShared, VmmInv
  <2>4. Cached' /\ Lending'
    BY Zenon, <2>1 DEF Cached, Lending, VmmInv
  <2> QED BY Zenon, <2>1, <2>2, <2>3, <2>4 DEF VmmInv
<1>8. CASE vmm_new_pagemap
  <2>1. UNCHANGED <<kernel_pagemap, cr3, tlb, up, lent, sharing>> /\ up /\ sharing = {}
    BY Zenon, <1>8 DEF vmm_new_pagemap, ClientRuns
  <2>2. PICK f \in Page :
           /\ Sound' /\ f \notin maps /\ maps' = maps \cup {f}
           /\ \A r \in maps : mem'[r] = mem[r]
           /\ \A i \in KernelIndex : mem'[f][i] = mem[kernel_pagemap][i]
    BY ZenonT(40), <1>8, NewStep
  <2>3. HalfShared'
    BY <2>1, <2>2 DEF HalfShared, VmmInv
  <2>4. Lending'
    BY <2>1, <2>2 DEF Lending, VmmInv
  <2>5. Cached'
    BY Zenon, <2>1 DEF Cached, VmmInv
  <2> QED BY <2>1, <2>2, <2>3, <2>4, <2>5 DEF VmmInv
<1>9. CASE vmm_destroy_pagemap
  <2>1. /\ UNCHANGED <<kernel_pagemap, cr3, tlb, up, sharing>> /\ up /\ sharing = {}
        /\ lent' = {e \in lent : e[1] # cr3}
    BY Zenon, <1>9 DEF vmm_destroy_pagemap, ClientRuns
  <2>2. Sound' /\ mem' = mem /\ cr3 # kernel_pagemap /\ maps' = maps \ {cr3}
    BY Zenon, <1>9, DestroyStep
  <2>3. Lending'
    BY <2>1, <2>2 DEF Lending, VmmInv
  <2>4. Cached' /\ HalfShared'
    BY Zenon, <2>1, <2>2 DEF Cached, HalfShared, VmmInv
  <2> QED BY Zenon, <2>1, <2>2, <2>3, <2>4 DEF VmmInv
<1>10. CASE UNCHANGED vars
  BY Zenon, <1>10 DEF vars, VmmInv, Sound, HalfShared, Cached, Lending
<1> QED BY <1>1, <1>2, <1>3, <1>4, <1>5, <1>6, <1>7, <1>8, <1>9, <1>10 DEF Next

\* The invariant holds in every state.
THEOREM PageTablesSound == Spec => []VmmInv
BY VmmInvInit, VmmInvNext, PTL DEF Spec

-----------------------------------------------------------------------------
\* The tables of a page map have levels above 0.
LEMMA TablesLevels ==
    ASSUME NEW lev, Good(mem, pages, lev), NEW root \in Roots(lev), NEW t \in Tables(root)
    PROVE  t \in Page /\ lev[t] >= 1
<1> DEFINE Below(T) == {mem[x][i] : x \in T, i \in Index} \ {Absent}
           P3 == Below({root})
           P2 == Below(P3)
           P1 == Below(P2)
<1>1. root \in Page /\ lev[root] = 4 /\ Tabled(mem, lev)
  BY SMTT(60) DEF Roots, Good
<1>2. t = root \/ t \in P3 \/ t \in P2 \/ t \in P1
  BY SMTT(60) DEF Tables
<1>3. \A x \in P3 : x \in Page /\ lev[x] = 3
  BY SMTT(40), <1>1 DEF Tabled, Linked
<1> HIDE DEF P3
<1>4. \A x \in P2 : x \in Page /\ lev[x] = 2
  BY SMTT(40), <1>1, <1>3 DEF Tabled, Linked
<1> HIDE DEF P2
<1>5. \A x \in P1 : x \in Page /\ lev[x] = 1
  BY <1>1, <1>4 DEF Tabled, Linked
<1> HIDE DEF P1
<1> QED BY <1>1, <1>2, <1>3, <1>4, <1>5

\* The tables of a page map in use are never handed out again: no table of one
\* is in the pool of the physical memory manager.
THEOREM TablesStayHeld == Spec => []TablesHeld
<1>1. VmmInv => TablesHeld
  <2> SUFFICES ASSUME VmmInv, NEW root \in maps, NEW t \in Tables(root), t \in Range(pages)
               PROVE  FALSE
    BY DEF TablesHeld
  <2>1. PICK lev \in Levels : Good(mem, pages, lev) /\ maps = Roots(lev)
    BY Zenon, SoundLevels
  <2>2. t \in Page /\ lev[t] >= 1
    BY ZenonT(40), <2>1, TablesLevels
  <2>3. lev[t] = 0
    BY <2>1, PoolRange DEF Good, Pooled
  <2> QED BY <2>2, <2>3
<1> QED BY <1>1, PageTablesSound, PTL

\* A frame that is no table is among nobody's tables.
LEMMA UnusedNoTable ==
    ASSUME VmmInv, NEW lev, Good(mem, pages, lev), maps = Roots(lev),
           NEW f, Unused(pages, lev, f), NEW root \in maps
    PROVE  f \notin Tables(root)
<1> SUFFICES ASSUME f \in Tables(root) PROVE FALSE
  OBVIOUS
<1>1. lev[f] >= 1 /\ lev[f] = 0
  BY TablesLevels DEF Unused
<1> QED BY <1>1

\* No frame that a client reaches through a page map is part of a table, but for
\* pages lent to a process at which the kernel does not have that frame.
THEOREM DataIsNoTable == Spec => []DataNotTables
<1>1. VmmInv => DataNotTables
  <2> SUFFICES ASSUME VmmInv, NEW root \in maps, NEW other \in maps, NEW v \in UserVirt,
                      virt_to_phys(root, v) # NULL,
                      <<root, v>> \in lent =>
                          virt_to_phys(root, v) = virt_to_phys(kernel_pagemap, v)
               PROVE  virt_to_phys(root, v) \notin Tables(other)
    BY Zenon DEF DataNotTables
  <2>1. PICK lev \in Levels :
           Good(mem, pages, lev) /\ Owned(mem, pages, lev, lent) /\ maps = Roots(lev)
    BY Zenon, SoundLevels
  <2> DEFINE d == virt_to_phys(root, v)
  <2>2. PICK q \in maps : <<q, v>> \notin lent /\ d = virt_to_phys(q, v)
    <3>1. CASE <<root, v>> \notin lent
      BY Zenon, <3>1
    <3>2. CASE <<root, v>> \in lent
      <4>1. <<kernel_pagemap, v>> \notin lent /\ kernel_pagemap \in maps
        BY DEF VmmInv, Lending
      <4> QED BY Zenon, <3>2, <4>1
    <3> QED BY Zenon, <3>1, <3>2
  <2>3. d = Leaf(mem, q, v) /\ d # Absent
    BY Zenon, <2>2, WalkIsPhys DEF Phys
  <2> HIDE DEF d
  <2>4. v \in Walks /\ v[1] \notin KernelIndex
    BY Zenon, UserWalk
  <2>5. Unused(pages, lev, d)
    BY Zenon, <2>1, <2>2, <2>3, <2>4 DEF Owned, Mapped
  <2>6. d \notin Tables(other)
    BY Zenon, <2>1, <2>5, UnusedNoTable
  <2> QED BY Zenon, <2>6 DEF d
<1> QED BY <1>1, PageTablesSound, PTL

\* All page maps have the same kernel half, for good.
THEOREM KernelHalfStaysShared == Spec => []KernelHalfShared
<1>1. VmmInv => KernelHalfShared
  <2> SUFFICES ASSUME VmmInv, NEW root \in maps, NEW v \in KernelVirt
               PROVE  virt_to_phys(root, v) = virt_to_phys(kernel_pagemap, v)
    BY Zenon DEF KernelHalfShared
  <2>1. mem[root][v[1]] = mem[kernel_pagemap][v[1]]
    BY ZenonT(40) DEF VmmInv, HalfShared, KernelVirt
  <2> QED BY <2>1 DEF virt_to_phys, Pml1
<1> QED BY <1>1, PageTablesSound, PTL

\* A cached translation is the one of the page map in use, or its frame is lost:
\* it is not free, no table, and in no page map except where it is lent.
THEOREM TlbStaysCoherent == Spec => []TlbCoherent
<1>1. VmmInv => TlbCoherent
  <2> SUFFICES ASSUME VmmInv, NEW e \in tlb, virt_to_phys(cr3, e[1]) # e[2]
               PROVE  /\ e[2] \notin Range(pages)
                      /\ \A root \in maps :
                            /\ e[2] \notin Tables(root)
                            /\ \A v \in UserVirt : virt_to_phys(root, v) = e[2] => <<root, v>> \in lent
    BY Zenon DEF TlbCoherent
  <2>1. PICK lev \in Levels :
           /\ Good(mem, pages, lev) /\ maps = Roots(lev)
           /\ Stands(mem, pages, lev, lent, cr3, e)
    BY Zenon, SoundLevels
  <2>2. Idle(mem, pages, lev, lent, e[2])
    BY Zenon, <2>1, WalkIsPhys DEF Stands
  <2>3. Unused(pages, lev, e[2]) /\ e[2] \notin Range(pages) /\ e[2] # NULL
    BY Zenon, <2>2, Constants DEF Idle, Unused
  <2>4. ASSUME NEW root \in maps PROVE e[2] \notin Tables(root)
    BY Zenon, <2>1, <2>3, UnusedNoTable
  <2>5. ASSUME NEW root \in maps, NEW v \in UserVirt, virt_to_phys(root, v) = e[2]
        PROVE  <<root, v>> \in lent
    <3>1. Leaf(mem, root, v) = e[2] /\ v \in Walks
      BY Zenon, <2>3, <2>5, WalkIsPhys, UserWalk DEF Phys
    <3> QED BY Zenon, <3>1, <2>1, <2>2 DEF Idle
  <2> QED BY Zenon, <2>3, <2>4, <2>5
<1> QED BY <1>1, PageTablesSound, PTL

-----------------------------------------------------------------------------
\* The address spaces that page maps M over a memory m stand for
Translate(m, M) == [s \in Page |-> [v \in Virt |-> IF s \in M THEN Phys(m, s, v) ELSE NULL]]

\* The refinement mapping, now and in the next state.
LEMMA Mapping ==
    /\ [s \in Page |-> [v \in Virt |-> IF s \in maps THEN virt_to_phys(s, v) ELSE NULL]]
          = Translate(mem, maps)
    /\ [s \in Page |-> [v \in Virt |-> IF s \in maps THEN virt_to_phys(s, v) ELSE NULL]]'
          = Translate(mem', maps')
<1>1. \A s, v : virt_to_phys(s, v) = Phys(mem, s, v) /\ virt_to_phys(s, v)' = Phys(mem', s, v)
  BY WalkIsPhys
<1> QED BY <1>1 DEF Translate

\* A step that sets one walk of one page map assigns one page of one space.
LEMMA SetsIsAssign ==
    ASSUME VmmInv, NEW root \in maps, NEW v \in Virt, NEW d, Sets(root, v, d), maps' = maps
    PROVE  Translate(mem', maps') =
              [Translate(mem, maps) EXCEPT ![root] = [Translate(mem, maps)[root] EXCEPT ![v] =
                  IF d = Absent THEN NULL ELSE d]]
<1>1. maps \subseteq Page
  BY DEF VmmInv, Sound, Roots
<1>2. \A s \in maps, w \in Virt : Phys(mem', s, w) =
         IF s = root /\ w = v THEN IF d = Absent THEN NULL ELSE d ELSE Phys(mem, s, w)
  BY Zenon, Constants DEF Sets, Phys
<1> QED BY ZenonT(40), <1>1, <1>2 DEF Translate

\* The initial state maps to an initial state.
LEMMA SpaceInits == Init => Spaces!SpaceInit
<1> SUFFICES ASSUME Init PROVE Spaces!SpaceInit
  OBVIOUS
<1>1. VmmInv /\ maps = {kernel_pagemap} /\ up = FALSE
  BY Zenon, VmmInvInit DEF Init
<1>2. kernel_pagemap \in Page
  BY SMTT(60), <1>1 DEF VmmInv, Sound, Roots
<1>3. \A w \in Virt : Phys(mem, kernel_pagemap, w) = NULL
  <2>1. mem[kernel_pagemap] = Zeroed
    <3>1. PICK lev \in Levels : Good(mem, pages, lev)
      BY <1>1 DEF VmmInv, Sound
    <3>2. kernel_pagemap = Head(Pages) /\ mem = [[f \in Frame |-> Zeroed] EXCEPT ![Head(Pages)] = Zeroed]
      BY SMTT(60), VmmAssumption DEF Init, Requested
    <3> QED BY <3>2, <1>2, Constants
  <2>2. \A w \in Virt : Third(mem, kernel_pagemap, w) = Absent
    BY <2>1, Constants, WalkIndices DEF Third, Zeroed
  <2> QED BY ZenonT(40), <2>2 DEF Phys, Leaf, First, Second, Entry
<1>4. Translate(mem, maps) = [s \in Page |-> [v \in Virt |-> NULL]]
  BY Zenon, <1>1, <1>3 DEF Translate
<1> QED BY Zenon, <1>1, <1>2, <1>4, Mapping DEF Spaces!SpaceInit, Spaces!Empty

\* Every step of the page tables is a step of the address spaces, or none.
LEMMA SpaceSteps == VmmInv /\ [Next]_vars => [Spaces!SpaceNext]_Spaces!spaceVars
<1> SUFFICES ASSUME VmmInv, [Next]_vars PROVE [Spaces!SpaceNext]_Spaces!spaceVars
  OBVIOUS
<1> DEFINE T == Translate(mem, maps)
           N == Translate(mem', maps')
<1>1. maps \subseteq Page
  BY DEF VmmInv, Sound, Roots
<1>2. ASSUME NEW root \in maps, NEW v \in Virt, NEW d \in Frame \cup {NULL},
             up <=> v \notin KernelVirt,
             N = [T EXCEPT ![root] = [T[root] EXCEPT ![v] = d]], maps' = maps, up' = up
      PROVE  Spaces!SpaceNext
  <2> HIDE DEF T, N
  <2>1. Spaces!Assign(root, v, d)
    BY ZenonT(40), <1>2, Mapping DEF Spaces!Assign, T, N
  <2> QED BY <1>1, <2>1 DEF Spaces!SpaceNext
<1>3. ASSUME N = T, maps' = maps, up' = up PROVE UNCHANGED Spaces!spaceVars
  BY <1>3, Mapping DEF Spaces!spaceVars
<1>4. ASSUME NEW v \in Virt, vmm_init(v) PROVE Spaces!SpaceNext
  <2>1. Sets(kernel_pagemap, v, Image) /\ v \in KernelVirt
    BY <1>4, InitStep
  <2>2. ~up /\ maps' = maps /\ up' = up /\ kernel_pagemap \in maps
    BY <1>4 DEF vmm_init, VmmInv
  <2>3. N = [T EXCEPT ![kernel_pagemap] = [T[kernel_pagemap] EXCEPT ![v] = Image]]
    BY <2>1, <2>2, SetsIsAssign, Constants
  <2> HIDE DEF T, N
  <2> QED BY ZenonT(40), <2>1, <2>2, <2>3, <1>2, Constants
<1>5. ASSUME NEW root \in maps, vmm_switch_pagemap(root) PROVE Spaces!SpaceNext
  <2>1. mem' = mem /\ maps' = maps /\ up' = TRUE
    BY <1>5 DEF vmm_switch_pagemap
  <2>2. N = T
    BY <2>1
  <2> HIDE DEF T, N
  <2>3. Spaces!Start
    BY <2>1, <2>2, Mapping DEF Spaces!Start, T, N
  <2> QED BY <2>3 DEF Spaces!SpaceNext
<1>6. ASSUME NEW v \in Virt, Access(v) PROVE UNCHANGED Spaces!spaceVars
  <2>1. mem' = mem /\ maps' = maps /\ up' = up
    BY <1>6 DEF Access
  <2> QED BY <2>1, <1>3
<1>7. ASSUME NEW root \in maps, NEW v \in Virt, MapNew(root, v) PROVE [Spaces!SpaceNext]_Spaces!spaceVars
  <2>1. up /\ maps' = maps /\ up' = up /\ v \notin KernelVirt
    BY Zenon, <1>7, UserWalk DEF MapNew, ClientRuns
  <2>2. CASE mem' = mem /\ pages' = pages
    BY <2>1, <2>2, <1>3
  <2>3. ASSUME NEW d \in Page, Sets(root, v, d) PROVE Spaces!SpaceNext
    <3>1. N = [T EXCEPT ![root] = [T[root] EXCEPT ![v] = d]]
      BY <2>1, <2>3, SetsIsAssign, Constants
    <3> HIDE DEF T, N
    <3> QED BY ZenonT(40), <2>1, <3>1, <1>2, Constants
  <2> QED BY Zenon, <2>2, <2>3, <1>7, MapNewStep
<1>8. ASSUME NEW root \in maps, NEW v \in Virt, scheduler_spawn(root, v) PROVE Spaces!SpaceNext
  <2> DEFINE d == Identity[v]
  <2>1. Sets(root, v, d) /\ d \in Page \cup {Image} /\ v \in UserVirt
    BY Zenon, <1>8, SpawnStep
  <2> HIDE DEF d
  <2>2. up /\ maps' = maps /\ up' = up /\ v \notin KernelVirt
    BY Zenon, <1>8, <2>1, UserWalk DEF scheduler_spawn, ClientRuns
  <2>3. N = [T EXCEPT ![root] = [T[root] EXCEPT ![v] = d]]
    BY <2>1, <2>2, SetsIsAssign, Constants
  <2>4. d \in Frame \cup {NULL}
    BY <2>1, Constants
  <2> HIDE DEF T, N
  <2> QED BY ZenonT(40), <2>2, <2>3, <2>4, <1>2
<1>8a. ASSUME NEW root \in maps, NEW v \in Virt, map_range_to_pagemap(root, v)
       PROVE  [Spaces!SpaceNext]_Spaces!spaceVars
  <2>1. up /\ maps' = maps /\ up' = up /\ v \notin KernelVirt
    BY Zenon, <1>8a, ShareStep, UserWalk DEF map_range_to_pagemap
  <2>2. CASE mem' = mem
    BY <2>1, <2>2, <1>3
  <2>3. ASSUME NEW d \in Page \cup {Image}, Sets(root, v, d) PROVE Spaces!SpaceNext
    <3>1. N = [T EXCEPT ![root] = [T[root] EXCEPT ![v] = d]]
      BY <2>1, <2>3, SetsIsAssign, Constants
    <3>2. d \in Frame \cup {NULL}
      BY Constants
    <3> HIDE DEF T, N
    <3> QED BY ZenonT(40), <2>1, <3>1, <3>2, <1>2
  <2> QED BY Zenon, <2>2, <2>3, <1>8a, ShareStep
<1>9. ASSUME NEW v \in Virt, vmm_unmap(v) PROVE Spaces!SpaceNext
  <2>1. up /\ maps' = maps /\ up' = up /\ v \notin KernelVirt /\ kernel_pagemap \in maps
    BY Zenon, <1>9, UserWalk DEF vmm_unmap, ClientRuns, VmmInv
  <2>2. Sets(kernel_pagemap, v, Absent)
    BY <1>9, UnmapStep
  <2>3. N = [T EXCEPT ![kernel_pagemap] = [T[kernel_pagemap] EXCEPT ![v] = NULL]]
    BY <2>1, <2>2, SetsIsAssign
  <2> HIDE DEF T, N
  <2> QED BY ZenonT(40), <2>1, <2>3, <1>2
<1>10. CASE vmm_new_pagemap
  <2>1. up /\ up' = up /\ kernel_pagemap \in maps
    BY Zenon, <1>10 DEF vmm_new_pagemap, ClientRuns, VmmInv
  <2>2. PICK f \in Page :
           /\ f \notin maps /\ maps' = maps \cup {f}
           /\ \A r \in maps, w \in Walks : Leaf(mem', r, w) = Leaf(mem, r, w)
           /\ \A w \in Walks : Leaf(mem', f, w) = IF w[1] \in KernelIndex
                                                  THEN Leaf(mem, kernel_pagemap, w) ELSE Absent
    BY Zenon, <1>10, NewStep
  <2>3. \A s \in maps, w \in Virt : Phys(mem', s, w) = Phys(mem, s, w)
    BY <2>2, Constants DEF Phys
  <2>4. \A w \in Virt : Phys(mem', f, w) = IF w \in KernelVirt THEN Phys(mem, kernel_pagemap, w) ELSE NULL
    BY <2>2, Constants DEF Phys, KernelVirt
  <2>5. N = [T EXCEPT ![f] = [v \in Virt |-> IF v \in KernelVirt THEN T[kernel_pagemap][v] ELSE NULL]]
    <3>1. \A v \in Virt : T[kernel_pagemap][v] = Phys(mem, kernel_pagemap, v)
      BY Zenon, <2>1, <1>1 DEF Translate
    <3> DEFINE row == [v \in Virt |-> IF v \in KernelVirt THEN T[kernel_pagemap][v] ELSE NULL]
    <3>2. row = [v \in Virt |-> Phys(mem', f, v)]
      BY Zenon, <3>1, <2>4
    <3> HIDE DEF row
    <3>3. \A s \in Page : s # f => N[s] = T[s]
      BY Zenon, <2>2, <2>3 DEF Translate
    <3>4. N[f] = row
      BY <3>2, <2>2 DEF Translate
    <3>5. N = [s \in Page |-> N[s]] /\ T = [s \in Page |-> T[s]]
      BY DEF Translate
    <3> HIDE DEF N, T
    <3> QED BY <3>3, <3>4, <3>5 DEF row
  <2> HIDE DEF T, N
  <2>6. Spaces!Create(f)
    <3> DEFINE M == [s \in Page |-> [v \in Virt |->
                        IF s \in maps THEN virt_to_phys(s, v) ELSE NULL]]
    <3>1. M = T /\ M' = N
      BY Mapping DEF T, N
    <3> HIDE DEF M
    <3>2. M' = [M EXCEPT ![f] = [v \in Virt |->
                  IF v \in KernelVirt THEN M[kernel_pagemap][v] ELSE NULL]]
      BY <2>5, <3>1
    <3> QED BY ZenonT(40), <2>1, <2>2, <3>2 DEF Spaces!Create, M
  <2> QED BY <2>6 DEF Spaces!SpaceNext
<1>11. CASE vmm_destroy_pagemap
  <2>1. mem' = mem /\ cr3 \in maps /\ maps' = maps \ {cr3}
    BY <1>11, DestroyStep
  <2>2. up' = up
    BY <1>11 DEF vmm_destroy_pagemap
  <2>3. N = [T EXCEPT ![cr3] = [v \in Virt |-> NULL]]
    BY ZenonT(40), <2>1, <1>1 DEF Translate
  <2> HIDE DEF T, N
  <2>4. Spaces!Destroy(cr3)
    BY <2>1, <2>2, <2>3, Mapping DEF Spaces!Destroy, Spaces!Empty, T, N
  <2> QED BY <2>1, <2>4, <1>1 DEF Spaces!SpaceNext
<1>12. CASE UNCHANGED vars
  BY <1>12, <1>3 DEF vars
<1> QED BY <1>4, <1>5, <1>6, <1>7, <1>8, <1>9, <1>10, <1>11, <1>12, <1>8a DEF Next

\* The page tables implement address spaces: mapping or unmapping a page of one
\* page map changes nothing else, a new one has the kernel's half only, and the
\* kernel's half is fixed once the kernel runs.
THEOREM PageTablesImplementSpaces == Spec => SpaceRefinement
BY SpaceInits, SpaceSteps, PageTablesSound, PTL DEF Spec, SpaceRefinement, Spaces!SpaceSpec
=============================================================================
