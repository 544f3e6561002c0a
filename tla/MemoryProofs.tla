---------------------------- MODULE MemoryProofs ----------------------------
(***************************************************************************)
(* The memory routines, and the areas of virtual memory.                   *)
(*                                                                         *)
(* memcpy, memmove and memset do what they should for every size, every    *)
(* memory and every overlap.  While a loop runs, the bytes it has passed   *)
(* are as wanted and the others as at the call; the byte it reads next is  *)
(* not among those it has passed, which is where the direction matters.    *)
(*                                                                         *)
(* The areas: no frame ever has two uses, for any number of frames and     *)
(* pages and however small PAGE_SIZE makes the distance between regions.   *)
(* The invariant adds to FramesOnce that nothing uses the context's frame. *)
(***************************************************************************)
EXTENDS MemCopy, Vma, FiniteSetTheorems, TLAPS

\* The bytes that are already written
Done ==
    IF Upwards(fn, dest, src) THEN dest .. dest + (len - n) - 1
                              ELSE dest + n .. dest + len - 1

TypeOK ==
    /\ fn \in {"none", "memcpy", "memmove", "memset"}
    /\ mem \in [Addr -> Byte] /\ old \in [Addr -> Byte] /\ c \in Byte
    /\ dest \in Nat /\ src \in Nat /\ len \in Nat /\ n \in Nat
    /\ n <= len /\ dest + len <= Size /\ src + len <= Size

\* Where the loop is
Position ==
    ~Idle => IF Upwards(fn, dest, src) THEN d = dest + (len - n) /\ s = src + (len - n)
                                       ELSE d = dest + n /\ s = src + n

Progress ==
    ~Idle /\ Proper =>
        \A a \in Addr : mem[a] = IF a \in Done THEN Wanted(a) ELSE old[a]

IInv == TypeOK /\ Position /\ Progress

\* The loops start with nothing written, whatever was there before.
LEMMA BeginKeeps ==
    ASSUME MemCopyAssumption, IInv,
           NEW f \in {"memcpy", "memmove", "memset"},
           NEW to \in Nat, NEW from \in Nat, NEW size \in Nat,
           Begin(f, to, from, size), c' \in Byte
    PROVE  IInv'
<1>1. TypeOK'
  BY DEF IInv, TypeOK, Begin
<1>2. Position'
  BY DEF IInv, TypeOK, Begin, Position, Upwards, Idle
<1>3. Progress'
  <2>1. Done' = {}
    BY DEF IInv, TypeOK, Begin, Done, Upwards
  <2>2. QED
    BY <2>1 DEF Begin, Progress, Idle
<1>4. QED
  BY <1>1, <1>2, <1>3 DEF IInv

\* One turn upwards writes the next byte; what it reads lies above all bytes
\* written, or apart from them.
LEMMA AscendKeeps ==
    ASSUME MemCopyAssumption, IInv, Ascend
    PROVE  IInv'
<1>1. d \in Addr /\ s \in Addr /\ d \in Int /\ s \in Int
  BY DEF IInv, TypeOK, Position, Ascend, Addr, Idle, MemCopyAssumption
<1>2. TypeOK'
  BY <1>1 DEF IInv, TypeOK, Ascend, args
<1>3. Position'
  BY DEF IInv, TypeOK, Position, Ascend, args, Idle, Upwards
<1>4. Progress'
  <2> SUFFICES ASSUME Proper, NEW a \in Addr
               PROVE  mem'[a] = IF a \in Done' THEN Wanted(a) ELSE old[a]
    BY DEF Progress, Ascend, args, Idle, Proper, Wanted
  <2>1. a \in Int /\ \A x \in Addr : mem[x] = IF x \in Done THEN Wanted(x) ELSE old[x]
    BY DEF IInv, Progress, Ascend, Addr, MemCopyAssumption
  <2>2. Done = dest .. d - 1 /\ Done' = dest .. d
    BY DEF IInv, TypeOK, Position, Ascend, Done, args, Idle
  <2>3. CASE a # d
    BY <2>1, <2>2, <2>3, <1>1 DEF IInv, TypeOK, Ascend
  <2>4. CASE a = d
    <3>1. mem'[a] = IF fn = "memset" THEN c ELSE mem[s]
      BY <2>4, <1>1 DEF IInv, TypeOK, Ascend
    <3>2. a \in Done'
      BY <2>2, <2>4, <1>1 DEF IInv, TypeOK, Position, Ascend, Idle
    <3>3. s = src + (d - dest)
      BY DEF IInv, TypeOK, Position, Ascend, Idle
    <3>4. fn # "memset" => s \notin Done
      BY <2>2, <3>3, <1>1 DEF IInv, TypeOK, Position, Ascend, Idle, Proper, Upwards
    <3>5. QED
      BY SMTT(40), <3>1, <3>2, <3>3, <3>4, <2>1, <2>4, <1>1 DEF Wanted
  <2>5. QED
    BY <2>3, <2>4
<1>5. QED
  BY <1>2, <1>3, <1>4 DEF IInv

\* One turn downwards, only in memmove: what it reads lies below all bytes
\* written.
LEMMA DescendKeeps ==
    ASSUME MemCopyAssumption, IInv, Descend
    PROVE  IInv'
<1>1. d - 1 \in Addr /\ s - 1 \in Addr /\ d \in Int /\ s \in Int
  BY DEF IInv, TypeOK, Position, Descend, Addr, Idle, MemCopyAssumption
<1>2. TypeOK'
  BY <1>1 DEF IInv, TypeOK, Descend, args
<1>3. Position'
  BY DEF IInv, TypeOK, Position, Descend, args, Idle, Upwards
<1>4. Progress'
  <2> SUFFICES ASSUME Proper, NEW a \in Addr
               PROVE  mem'[a] = IF a \in Done' THEN Wanted(a) ELSE old[a]
    BY DEF Progress, Descend, args, Idle, Proper, Wanted
  <2>1. a \in Int /\ \A x \in Addr : mem[x] = IF x \in Done THEN Wanted(x) ELSE old[x]
    BY DEF IInv, Progress, Descend, Addr, MemCopyAssumption
  <2>2. Done = d .. dest + len - 1 /\ Done' = d - 1 .. dest + len - 1
    BY DEF IInv, TypeOK, Position, Descend, Done, args, Idle
  <2>3. CASE a # d - 1
    BY <2>1, <2>2, <2>3, <1>1 DEF IInv, TypeOK, Descend
  <2>4. CASE a = d - 1
    <3>1. mem'[a] = mem[s - 1]
      BY <2>4, <1>1 DEF IInv, TypeOK, Descend
    <3>2. a \in Done'
      BY <2>2, <2>4, <1>1 DEF IInv, TypeOK, Position, Descend, Idle
    <3>3. s - 1 = src + ((d - 1) - dest)
      BY DEF IInv, TypeOK, Position, Descend, Idle
    <3>4. fn = "memmove" /\ s - 1 \notin Done
      BY <2>2, <3>3, <1>1 DEF IInv, TypeOK, Position, Descend, Idle, Upwards
    <3>5. QED
      BY SMTT(40), <3>1, <3>2, <3>3, <3>4, <2>1, <2>4, <1>1 DEF Wanted
  <2>5. QED
    BY <2>3, <2>4
<1>5. QED
  BY <1>2, <1>3, <1>4 DEF IInv

\* The invariant holds at the start and is kept by every step.
LEMMA InitHolds == ASSUME MemCopyAssumption, CopyInit PROVE IInv
BY DEF MemCopyAssumption, CopyInit, IInv, TypeOK, Position, Progress, Idle, Addr

\* Every step of a copy keeps the invariant.
LEMMA StepKeeps ==
    ASSUME MemCopyAssumption, IInv, [CopyNext]_copyVars
    PROVE  IInv'
<1>1. CASE UNCHANGED copyVars
  BY <1>1 DEF copyVars, IInv, TypeOK, Position, Progress, Idle, Done, Upwards, Proper, Wanted
<1>2. ASSUME NEW to \in 0 .. Size, NEW from \in 0 .. Size, NEW size \in 0 .. Size,
             memcpy(to, from, size) \/ memmove(to, from, size)
      PROVE  IInv'
  <2>1. to \in Nat /\ from \in Nat /\ size \in Nat /\ c' \in Byte
    BY <1>2 DEF memcpy, memmove, IInv, TypeOK
  <2>2. QED
    BY <1>2, <2>1, BeginKeeps DEF memcpy, memmove
<1>3. ASSUME NEW to \in 0 .. Size, NEW size \in 0 .. Size, NEW value \in Byte,
             memset(to, value, size)
      PROVE  IInv'
  <2>1. to \in Nat /\ size \in Nat /\ c' \in Byte
    BY <1>3 DEF memset
  <2>2. QED
    BY <1>3, <2>1, BeginKeeps DEF memset
<1>4. CASE Return
  BY <1>4 DEF Return, Cleared, IInv, TypeOK, Position, Progress, Idle, MemCopyAssumption
<1>5. QED
  BY SMTT(40), <1>1, <1>2, <1>3, <1>4, AscendKeeps, DescendKeeps DEF CopyNext

\* Whatever the size of the memory, the sizes and the overlap of the areas:
\* memmove and memset, and memcpy unless it overlaps upwards, return with each
\* byte of the destination as it should be and every other byte unchanged.
THEOREM CopiesCorrectly == ASSUME MemCopyAssumption PROVE CopySpec => []Copied
<1>1. IInv => Copied
  <2> SUFFICES ASSUME IInv, ~Idle, n = 0, Proper, NEW a \in Addr
               PROVE  mem[a] = IF a \in Written THEN Wanted(a) ELSE old[a]
    BY DEF Copied
  <2>1. Done = Written
    BY DEF IInv, TypeOK, Done, Written
  <2>2. QED
    BY <2>1 DEF IInv, Progress
<1>2. QED
  BY <1>1, InitHolds, StepKeeps, PTL DEF CopySpec

-----------------------------------------------------------------------------
(* Areas of virtual memory.                                                *)

Frame == Nat \ {0}
Region == [start : Nat, size : Nat, node : Frame]

AreaType ==
    /\ root \in Seq(Region) /\ page \in [PageNumber -> Nat]
    /\ free \in Seq(Frame) /\ live \in BOOLEAN

\* The frame of the context has no other use.
ContextApart ==
    live => /\ 1 \notin Range(free)
            /\ \A v \in Mapped : page[v] # 1
            /\ \A k \in DOMAIN root : root[k].node # 1

AreaInv == AreaType /\ FramesOnce /\ ContextApart

\* Frames pushed on the stack that are not on it yet
LEMMA Stacked ==
    ASSUME NEW x \in Frame, NEW g \in Seq(Frame), NEW h \in Seq(Frame),
           IsInjective(g), IsInjective(h), x \notin Range(g), x \notin Range(h),
           \A a \in DOMAIN g : g[a] \notin Range(h)
    PROVE  /\ <<x>> \o g \o h \in Seq(Frame) /\ IsInjective(<<x>> \o g \o h)
           /\ \A y \in Range(<<x>> \o g \o h) : y = x \/ y \in Range(g) \/ y \in Range(h)
<1> DEFINE w == <<x>> \o g \o h
<1>1. w \in Seq(Frame) /\ Len(w) = 1 + Len(g) + Len(h)
  OBVIOUS
<1>2. ASSUME NEW a \in DOMAIN w
      PROVE  \/ a = 1 /\ w[a] = x
             \/ a - 1 \in 1 .. Len(g) /\ w[a] = g[a - 1]
             \/ a - 1 - Len(g) \in 1 .. Len(h) /\ w[a] = h[a - 1 - Len(g)]
  OBVIOUS
<1> HIDE DEF w
<1>3. ASSUME NEW y \in Range(w) PROVE y = x \/ y \in Range(g) \/ y \in Range(h)
  <2>1. PICK a \in DOMAIN w : y = w[a]
    BY DEF Range
  <2>2. DOMAIN g = 1 .. Len(g) /\ DOMAIN h = 1 .. Len(h)
    OBVIOUS
  <2> QED BY <1>2, <2>1, <2>2, Zenon DEF Range
<1>4. ASSUME NEW a \in DOMAIN w, NEW b \in DOMAIN w, w[a] = w[b] PROVE a = b
  <2> DEFINE l == Len(g)
  <2>1. /\ a \in Nat /\ b \in Nat /\ l \in Nat /\ DOMAIN g = 1 .. l /\ DOMAIN h = 1 .. Len(h)
    BY <1>1
  <2> HIDE DEF l
  <2>2. \A i \in 1 .. l : g[i] # x /\ \A j \in 1 .. Len(h) : g[i] # h[j]
    BY <2>1, Zenon DEF Range
  <2>3. \A j \in 1 .. Len(h) : h[j] # x
    BY <2>1, Zenon DEF Range
  <2>4. \A i, j \in 1 .. l : g[i] = g[j] => i = j
    BY <2>1, Zenon DEF IsInjective
  <2>5. \A i, j \in 1 .. Len(h) : h[i] = h[j] => i = j
    BY <2>1, Zenon DEF IsInjective
  <2>6. \/ a = 1 /\ w[a] = x
        \/ a - 1 \in 1 .. l /\ w[a] = g[a - 1]
        \/ a - 1 - l \in 1 .. Len(h) /\ w[a] = h[a - 1 - l]
    BY <1>2, Zenon DEF l
  <2>7. \/ b = 1 /\ w[b] = x
        \/ b - 1 \in 1 .. l /\ w[b] = g[b - 1]
        \/ b - 1 - l \in 1 .. Len(h) /\ w[b] = h[b - 1 - l]
    BY <1>2, Zenon DEF l
  <2>8. CASE a = 1 /\ w[a] = x
    BY <1>4, <2>2, <2>3, <2>7, <2>8, ZenonT(40)
  <2>9. CASE a - 1 \in 1 .. l /\ w[a] = g[a - 1]
    <3>1. b - 1 \in 1 .. l /\ w[b] = g[b - 1]
      BY <1>4, <2>2, <2>7, <2>9, Zenon
    <3>2. a - 1 = b - 1
      BY <1>4, <2>4, <2>9, <3>1, ZenonT(40)
    <3> QED BY <2>1, <3>2
  <2>10. CASE a - 1 - l \in 1 .. Len(h) /\ w[a] = h[a - 1 - l]
    <3>1. b - 1 - l \in 1 .. Len(h) /\ w[b] = h[b - 1 - l]
      BY <1>4, <2>2, <2>3, <2>7, <2>10, ZenonT(40)
    <3>2. a - 1 - l = b - 1 - l
      BY <1>4, <2>5, <2>10, <3>1, ZenonT(40)
    <3> QED BY <2>1, <3>2
  <2> QED BY <2>6, <2>8, <2>9, <2>10
<1> QED BY <1>1, <1>3, <1>4 DEF w, IsInjective

\* A concatenation is a sequence, as long as both parts.
LEMMA AreaJoined ==
    ASSUME NEW S, NEW g \in Seq(S), NEW h \in Seq(S)
    PROVE  g \o h \in Seq(S) /\ Len(g \o h) = Len(g) + Len(h)
OBVIOUS

\* A new element stands at its position, the later ones one further.
Grown(w, S, q, k, e) ==
    /\ w \in Seq(S) /\ Len(w) = Len(q) + 1
    /\ \A j \in 1 .. Len(q) + 1 :
          w[j] = IF j <= k THEN q[j] ELSE IF j = k + 1 THEN e ELSE q[j - 1]

\* That is what InsertAt makes of a list.
LEMMA AreaInserted ==
    ASSUME NEW S, NEW q \in Seq(S), NEW k \in 1 .. Len(q), NEW e \in S
    PROVE  Grown(InsertAt(q, k + 1, e), S, q, k, e)
<1> DEFINE a == SubSeq(q, 1, k)
           b == SubSeq(q, k + 1, Len(q))
<1>1. a \in Seq(S) /\ Len(a) = k /\ \A j \in 1 .. k : a[j] = q[j]
  OBVIOUS
<1>2. b \in Seq(S) /\ Len(b) = Len(q) - k /\ \A j \in 1 .. Len(q) - k : b[j] = q[k + j]
  OBVIOUS
<1>3. InsertAt(q, k + 1, e) = a \o <<e>> \o b
  <2>1. (k + 1) - 1 = k
    OBVIOUS
  <2> QED BY <2>1, Zenon DEF InsertAt
<1> HIDE DEF a, b
<1> DEFINE w == a \o <<e>> \o b
<1>4. w \in Seq(S) /\ Len(w) = Len(q) + 1
  <2> DEFINE f == a \o <<e>>
  <2>1. f \in Seq(S) /\ Len(f) = Len(a) + 1
    BY <1>1
  <2> HIDE DEF f
  <2>2. f \o b \in Seq(S) /\ Len(f \o b) = Len(f) + Len(b)
    BY <1>2, <2>1, AreaJoined, Zenon
  <2>3. Len(f) + Len(b) = Len(q) + 1
    BY <1>1, <1>2, <2>1
  <2> QED BY <2>2, <2>3, Zenon DEF f
<1>5. ASSUME NEW j \in 1 .. Len(q) + 1
      PROVE  w[j] = IF j <= k THEN q[j] ELSE IF j = k + 1 THEN e ELSE q[j - 1]
  <2>1. w[j] = IF j <= k THEN a[j] ELSE IF j = k + 1 THEN e ELSE b[j - k - 1]
    BY <1>1, <1>2
  <2>2. j <= k => j \in 1 .. k
    OBVIOUS
  <2>3. ~(j <= k) /\ j # k + 1 => j - k - 1 \in 1 .. Len(q) - k /\ k + (j - k - 1) = j - 1
    OBVIOUS
  <2> HIDE DEF w
  <2> QED BY <1>1, <1>2, <2>1, <2>2, <2>3
<1> HIDE DEF w
<1>6. InsertAt(q, k + 1, e) = w
  BY <1>3 DEF w
<1> QED BY <1>4, <1>5, <1>6 DEF Grown

\* After a removed element the others stand one position earlier.
Shrunk(w, S, q, k) ==
    /\ w \in Seq(S) /\ Len(w) = Len(q) - 1
    /\ \A j \in 1 .. Len(q) - 1 : w[j] = IF j < k THEN q[j] ELSE q[j + 1]

\* That is what RemoveAt makes of a list.
LEMMA AreaRemoved ==
    ASSUME NEW S, NEW q \in Seq(S), NEW k \in 1 .. Len(q)
    PROVE  Shrunk(RemoveAt(q, k), S, q, k)
<1> DEFINE a == SubSeq(q, 1, k - 1)
           b == SubSeq(q, k + 1, Len(q))
<1>1. a \in Seq(S) /\ Len(a) = k - 1 /\ \A j \in 1 .. k - 1 : a[j] = q[j]
  OBVIOUS
<1>2. b \in Seq(S) /\ Len(b) = Len(q) - k /\ \A j \in 1 .. Len(q) - k : b[j] = q[k + j]
  OBVIOUS
<1>3. RemoveAt(q, k) = a \o b
  BY DEF RemoveAt
<1> HIDE DEF a, b
<1> DEFINE w == a \o b
<1>4. w \in Seq(S) /\ Len(w) = Len(q) - 1
  <2>1. w \in Seq(S) /\ Len(w) = Len(a) + Len(b)
    BY <1>1, <1>2, AreaJoined, Zenon
  <2>2. Len(a) + Len(b) = Len(q) - 1
    BY <1>1, <1>2
  <2> QED BY <2>1, <2>2, Zenon
<1>5. ASSUME NEW j \in 1 .. Len(q) - 1 PROVE w[j] = IF j < k THEN q[j] ELSE q[j + 1]
  <2>1. w[j] = IF j < k THEN a[j] ELSE b[j - k + 1]
    BY <1>1, <1>2
  <2>2. j < k => j \in 1 .. k - 1
    OBVIOUS
  <2>3. ~(j < k) => j - k + 1 \in 1 .. Len(q) - k /\ k + (j - k + 1) = j + 1
    OBVIOUS
  <2> HIDE DEF w
  <2> QED BY SMTT(40), <1>1, <1>2, <2>1, <2>2, <2>3
<1> HIDE DEF w
<1>6. RemoveAt(q, k) = w
  BY <1>3 DEF w
<1> QED BY <1>4, <1>5, <1>6 DEF Shrunk

\* The end of a sequence
LEMMA Rest ==
    ASSUME NEW S, NEW q \in Seq(S), NEW m \in 1 .. Len(q) + 1
    PROVE  /\ SubSeq(q, m, Len(q)) \in Seq(S) /\ Len(SubSeq(q, m, Len(q))) = Len(q) - m + 1
           /\ \A a \in 1 .. Len(q) - m + 1 : SubSeq(q, m, Len(q))[a] = q[m + a - 1]
OBVIOUS

\* What FramesOnce and ContextApart say of positions
FreeOnce == \A a, b \in DOMAIN free : free[a] = free[b] => a = b
PageOnce == \A v, w \in Mapped : page[v] = page[w] => v = w
NodeOnce == \A j, k \in DOMAIN root : root[j].node = root[k].node => j = k
PageNotFree == \A v \in Mapped : \A a \in DOMAIN free : page[v] # free[a]
NodeNotFree == \A k \in DOMAIN root : \A a \in DOMAIN free : root[k].node # free[a]
NodeNotPage == \A k \in DOMAIN root : \A v \in Mapped : page[v] # root[k].node
OneNotUsed ==
    live => /\ \A a \in DOMAIN free : free[a] # 1
            /\ \A v \in Mapped : page[v] # 1
            /\ \A k \in DOMAIN root : root[k].node # 1

\* They say no less, now and after a step.
LEMMA Uses ==
    /\ FramesOnce <=> /\ FreeOnce /\ PageOnce /\ NodeOnce
                      /\ PageNotFree /\ NodeNotFree /\ NodeNotPage
    /\ ContextApart <=> OneNotUsed
<1>1. IsInjective(free) <=> FreeOnce
  BY Zenon DEF IsInjective, FreeOnce
<1>2. ASSUME NEW x PROVE x \notin Range(free) <=> \A a \in DOMAIN free : x # free[a]
  BY Zenon DEF Range
<1>3. (\A v \in Mapped : page[v] \notin Range(free)) <=> PageNotFree
  BY <1>2, Zenon DEF PageNotFree
<1>4. (\A k \in DOMAIN root : root[k].node \notin Range(free)) <=> NodeNotFree
  BY <1>2, Zenon DEF NodeNotFree
<1>5. ContextApart <=> OneNotUsed
  BY <1>2, Zenon DEF ContextApart, OneNotUsed
<1>6. FramesOnce => /\ FreeOnce /\ PageOnce /\ NodeOnce
                    /\ PageNotFree /\ NodeNotFree /\ NodeNotPage
  BY <1>1, <1>3, <1>4, Zenon DEF FramesOnce, PageOnce, NodeOnce, NodeNotPage
<1>7. /\ FreeOnce /\ PageOnce /\ NodeOnce /\ PageNotFree /\ NodeNotFree /\ NodeNotPage
      => FramesOnce
  BY <1>1, <1>3, <1>4, Zenon DEF FramesOnce, PageOnce, NodeOnce, NodeNotPage
<1> QED BY <1>5, <1>6, <1>7

\* vma_alloc takes its frames off the stack: one for the list node, the next for
\* the pages; whatever a page was mapped to before has no use left.
LEMMA AllocKeeps ==
    ASSUME AreaInv, NEW size \in Sizes, vma_alloc(size)
    PROVE  AreaInv'
<1>1. PICK k \in DOMAIN root :
        LET new == [start |-> root[k].start + root[k].size, size |-> size, node |-> Head(free)]
            given == IF size < Len(free) THEN size ELSE Len(free) - 1
            filled == PageAt(new, 0) .. PageAt(new, given - 1) IN
        /\ live /\ FirstHole(k)
        /\ free # <<>> /\ PageAt(new, size) <= MaxPage
        /\ root' = InsertAt(root, k + 1, new)
        /\ page' = [v \in PageNumber |->
                       IF v \in filled THEN free[2 + v - PageAt(new, 0)] ELSE page[v]]
        /\ free' = SubSeq(free, 2 + given, Len(free))
        /\ UNCHANGED live
  BY DEF vma_alloc
<1> DEFINE L == Len(free)
           given == IF size < L THEN size ELSE L - 1
           start == root[k].start + root[k].size
           first == PageOf(start)
           new == [start |-> start, size |-> size, node |-> Head(free)]
           Filled == first .. first + (given - 1)
<1>2. /\ root \in Seq(Region) /\ page \in [PageNumber -> Nat] /\ free \in Seq(Frame)
      /\ k \in 1 .. Len(root) /\ root[k].start \in Nat /\ root[k].size \in Nat
  <2>1. root \in Seq(Region) /\ page \in [PageNumber -> Nat] /\ free \in Seq(Frame)
    BY DEF AreaInv, AreaType
  <2>2. k \in 1 .. Len(root) /\ root[k] \in Region
    BY <2>1
  <2> QED BY <2>1, <2>2 DEF Region
<1>3. L \in Nat \ {0} /\ DOMAIN free = 1 .. L /\ Head(free) = free[1] /\ free[1] \in Frame
  BY <1>1, <1>2
<1>4. size \in Nat \ {0} /\ PAGE_SIZE \in Nat \ {0}
  BY VmaAssumption
<1>5. start \in Nat /\ first \in Nat
  <2>1. start \in Nat
    BY <1>2
  <2> HIDE DEF start
  <2> QED BY <1>4, <2>1 DEF PageOf
<1>6. given \in 0 .. L - 1
  BY <1>3, <1>4
<1>7. new \in Region
  <2> HIDE DEF start
  <2> QED BY <1>3, <1>4, <1>5 DEF Region
<1>8. PageAt(new, 0) = first /\ PageAt(new, given - 1) = first + (given - 1)
  <2> HIDE DEF given, start
  <2> QED BY <1>5 DEF PageAt
<1>9. /\ root' = InsertAt(root, k + 1, new) /\ free' = SubSeq(free, 2 + given, L) /\ live' = live
      /\ page' = [v \in PageNumber |->
                     IF v \in Filled THEN free[2 + (v - first)] ELSE page[v]]
      /\ live
  BY <1>1, <1>8, Zenon
<1> HIDE DEF L, given, start, first
<1>10. /\ free' \in Seq(Frame) /\ DOMAIN free' = 1 .. L - 1 - given
       /\ \A a \in DOMAIN free' : 1 + given + a \in given + 2 .. L /\ free'[a] = free[1 + given + a]
  <2> DEFINE m == 2 + given
             rest == SubSeq(free, m, L)
  <2>1. m \in 1 .. L + 1 /\ L - m + 1 = L - 1 - given
        /\ \A a \in 1 .. L - 1 - given : 1 + given + a \in given + 2 .. L /\ m + a - 1 = 1 + given + a
    BY <1>3, <1>6
  <2> HIDE DEF m
  <2>2. /\ rest \in Seq(Frame) /\ Len(rest) = L - m + 1
        /\ \A a \in 1 .. L - m + 1 : rest[a] = free[m + a - 1]
    BY <1>2, <2>1, Rest, ZenonT(40) DEF L
  <2>3. free' = rest
    BY <1>9 DEF m
  <2> HIDE DEF rest
  <2>4. DOMAIN rest = 1 .. Len(rest)
    BY <2>2
  <2> QED BY <2>1, <2>2, <2>3, <2>4, ZenonT(40)
<1> DEFINE place(v) == 2 + (v - first)
<1>11. /\ \A v \in Filled : place(v) \in 2 .. given + 1 /\ v \in Nat
       /\ \A v, w \in Filled : place(v) = place(w) => v = w
  BY <1>3, <1>5, <1>6
<1>12. \A i \in 2 .. given + 1 : i \in DOMAIN free /\ i # 1 /\ i \notin given + 2 .. L
  BY <1>3, <1>6
<1>13. \A i \in given + 2 .. L : i \in DOMAIN free /\ i # 1
  BY <1>3, <1>6
<1>14. page' \in [PageNumber -> Nat]
  <2>1. ASSUME NEW v \in Filled PROVE free[place(v)] \in Nat
    BY SMTT(40), <1>2, <1>11, <1>12 DEF Frame
  <2> HIDE DEF Filled
  <2> QED BY <1>2, <1>9, <2>1
<1>15. ASSUME NEW v \in Mapped'
       PROVE  \/ v \in Filled /\ page'[v] = free[place(v)]
              \/ v \in Mapped /\ page'[v] = page[v]
  <2> HIDE DEF Filled
  <2> QED BY <1>9, <1>15 DEF Mapped
<1>16. /\ root' \in Seq(Region) /\ DOMAIN root' = 1 .. Len(root) + 1
       /\ \A j \in 1 .. Len(root) + 1 :
             root'[j] = IF j <= k THEN root[j] ELSE IF j = k + 1 THEN new ELSE root[j - 1]
  <2> DEFINE grown == InsertAt(root, k + 1, new)
  <2> HIDE DEF new
  <2>1. Grown(grown, Region, root, k, new)
    BY <1>2, <1>7, AreaInserted, ZenonT(40)
  <2> HIDE DEF grown
  <2>2. /\ grown \in Seq(Region) /\ Len(grown) = Len(root) + 1
        /\ \A j \in 1 .. Len(root) + 1 :
              grown[j] = IF j <= k THEN root[j] ELSE IF j = k + 1 THEN new ELSE root[j - 1]
    BY <2>1, Zenon DEF Grown
  <2>3. DOMAIN grown = 1 .. Len(grown)
    BY <2>2
  <2>4. root' = grown
    BY <1>9, Zenon DEF grown
  <2> QED BY <2>2, <2>3, <2>4, Zenon
<1>17. new.node = free[1] /\ 1 \in DOMAIN free
  BY <1>3
<1> HIDE DEF new
<1> DEFINE Old(j) == IF j <= k THEN j ELSE j - 1
<1>18. /\ \A j \in DOMAIN root' :
             (j = k + 1 /\ root'[j].node = free[1]) \/ (j # k + 1 /\ root'[j] = root[Old(j)])
       /\ \A j \in DOMAIN root' : j # k + 1 => Old(j) \in DOMAIN root
       /\ \A i, j \in DOMAIN root' : i # k + 1 /\ j # k + 1 /\ Old(i) = Old(j) => i = j
  <2>1. Len(root) \in Nat /\ DOMAIN root = 1 .. Len(root)
    BY <1>2
  <2>2. ASSUME NEW j \in 1 .. Len(root) + 1
        PROVE  (j = k + 1 /\ root'[j].node = free[1]) \/ (j # k + 1 /\ root'[j] = root[Old(j)])
    BY SMTT(40), <1>2, <1>16, <1>17, <2>1
  <2>3. ASSUME NEW j \in 1 .. Len(root) + 1, j # k + 1 PROVE Old(j) \in DOMAIN root
    BY <1>2, <2>1, <2>3
  <2>4. ASSUME NEW i \in 1 .. Len(root) + 1, NEW j \in 1 .. Len(root) + 1,
               i # k + 1, j # k + 1, Old(i) = Old(j)
        PROVE  i = j
    BY SMTT(40), <1>2, <2>1, <2>4
  <2> QED BY SMTT(40), <1>16, <2>2, <2>3, <2>4
<1> HIDE DEF Old
<1>19. AreaType'
  BY SMTT(40), <1>9, <1>10, <1>14, <1>16 DEF AreaInv, AreaType
<1> HIDE DEF place, Filled
<1>20. /\ FreeOnce /\ PageOnce /\ NodeOnce /\ PageNotFree /\ NodeNotFree /\ NodeNotPage
       /\ OneNotUsed
  BY Uses DEF AreaInv
<1>21. FreeOnce'
  <2> SUFFICES ASSUME NEW a \in DOMAIN free', NEW b \in DOMAIN free', free'[a] = free'[b]
               PROVE  a = b
    BY DEF FreeOnce
  <2>1. 1 + given + a = 1 + given + b
    BY <1>10, <1>13, <1>20, ZenonT(40) DEF FreeOnce
  <2> QED BY SMTT(40), <1>3, <1>6, <1>10, <2>1
<1>22. PageNotFree'
  <2> SUFFICES ASSUME NEW v \in Mapped', NEW a \in DOMAIN free' PROVE page'[v] # free'[a]
    BY DEF PageNotFree
  <2>1. PICK i \in given + 2 .. L : i \in DOMAIN free /\ free'[a] = free[i]
    BY <1>10, <1>13, Zenon
  <2>2. CASE v \in Filled /\ page'[v] = free[place(v)]
    <3>1. place(v) \in DOMAIN free /\ place(v) \notin given + 2 .. L
      BY <1>11, <1>12, <2>2, ZenonT(40)
    <3> QED BY <2>2, <2>1, <3>1, <1>20, Zenon DEF FreeOnce
  <2>3. CASE v \in Mapped /\ page'[v] = page[v]
    BY <1>20, <2>3, <2>1, ZenonT(40) DEF PageNotFree
  <2> QED BY <1>15, <2>2, <2>3
<1>23. PageOnce'
  <2> SUFFICES ASSUME NEW v \in Mapped', NEW w \in Mapped', page'[v] = page'[w] PROVE v = w
    BY DEF PageOnce
  <2>1. CASE v \in Filled /\ page'[v] = free[place(v)] /\ w \in Filled /\ page'[w] = free[place(w)]
    BY <1>11, <1>12, <1>20, <2>1, ZenonT(40) DEF FreeOnce
  <2>2. CASE v \in Mapped /\ page'[v] = page[v] /\ w \in Mapped /\ page'[w] = page[w]
    BY <1>20, <2>2, Zenon DEF PageOnce
  <2>3. CASE v \in Filled /\ page'[v] = free[place(v)] /\ w \in Mapped /\ page'[w] = page[w]
    BY <1>11, <1>12, <1>20, <2>3, ZenonT(40) DEF PageNotFree
  <2>4. CASE v \in Mapped /\ page'[v] = page[v] /\ w \in Filled /\ page'[w] = free[place(w)]
    BY <1>11, <1>12, <1>20, <2>4, ZenonT(40) DEF PageNotFree
  <2> QED BY SMTT(40), <1>15, <2>1, <2>2, <2>3, <2>4
<1>24. NodeNotFree'
  <2> SUFFICES ASSUME NEW j \in DOMAIN root', NEW a \in DOMAIN free' PROVE root'[j].node # free'[a]
    BY DEF NodeNotFree
  <2>1. PICK i \in DOMAIN free : i # 1 /\ free'[a] = free[i]
    BY <1>10, <1>13, Zenon
  <2>2. CASE root'[j].node = free[1]
    BY <1>17, <1>20, <2>2, <2>1, ZenonT(40) DEF FreeOnce
  <2>3. CASE j # k + 1 /\ root'[j] = root[Old(j)]
    BY <1>18, <1>20, <2>3, <2>1, ZenonT(40) DEF NodeNotFree
  <2> QED BY SMTT(40), <1>18, <2>2, <2>3
<1>25. NodeNotPage'
  <2> SUFFICES ASSUME NEW j \in DOMAIN root', NEW v \in Mapped' PROVE page'[v] # root'[j].node
    BY DEF NodeNotPage
  <2>1. CASE root'[j].node = free[1] /\ v \in Filled /\ page'[v] = free[place(v)]
    BY <1>11, <1>12, <1>17, <1>20, <2>1, ZenonT(40) DEF FreeOnce
  <2>2. CASE root'[j].node = free[1] /\ v \in Mapped /\ page'[v] = page[v]
    BY <1>17, <1>20, <2>2, ZenonT(40) DEF PageNotFree
  <2>3. CASE j # k + 1 /\ root'[j] = root[Old(j)] /\ v \in Filled /\ page'[v] = free[place(v)]
    BY <1>11, <1>12, <1>18, <1>20, <2>3, ZenonT(40) DEF NodeNotFree
  <2>4. CASE j # k + 1 /\ root'[j] = root[Old(j)] /\ v \in Mapped /\ page'[v] = page[v]
    BY <1>18, <1>20, <2>4, ZenonT(40) DEF NodeNotPage
  <2> QED BY SMTT(40), <1>15, <1>18, <2>1, <2>2, <2>3, <2>4
<1>26. NodeOnce'
  <2> SUFFICES ASSUME NEW i \in DOMAIN root', NEW j \in DOMAIN root', root'[i].node = root'[j].node
               PROVE  i = j
    BY DEF NodeOnce
  <2>1. CASE i = k + 1 /\ j = k + 1
    BY <2>1
  <2>2. CASE i # k + 1 /\ root'[i] = root[Old(i)] /\ j # k + 1 /\ root'[j] = root[Old(j)]
    BY <1>18, <1>20, <2>2, ZenonT(40) DEF NodeOnce
  <2>3. CASE root'[i].node = free[1] /\ j # k + 1 /\ root'[j] = root[Old(j)]
    BY <1>17, <1>18, <1>20, <2>3, ZenonT(40) DEF NodeNotFree
  <2>4. CASE root'[j].node = free[1] /\ i # k + 1 /\ root'[i] = root[Old(i)]
    BY <1>17, <1>18, <1>20, <2>4, ZenonT(40) DEF NodeNotFree
  <2> QED BY SMTT(40), <1>18, <2>1, <2>2, <2>3, <2>4
<1>27. OneNotUsed'
  <2>1. \A a \in DOMAIN free : free[a] # 1
    BY <1>9, <1>20 DEF OneNotUsed
  <2>2. \A a \in DOMAIN free' : free'[a] # 1
    BY <1>10, <1>13, <2>1, ZenonT(40)
  <2>3. \A v \in Mapped' : page'[v] # 1
    BY <1>9, <1>11, <1>12, <1>15, <1>20, <2>1, ZenonT(40) DEF OneNotUsed
  <2>4. \A j \in DOMAIN root' : root'[j].node # 1
    BY <1>9, <1>17, <1>18, <1>20, <2>1, ZenonT(40) DEF OneNotUsed
  <2> QED BY SMTT(40), <2>2, <2>3, <2>4 DEF OneNotUsed
<1>28. FramesOnce' /\ ContextApart'
  BY <1>21, <1>22, <1>23, <1>24, <1>25, <1>26, <1>27, Uses, PTL
<1> QED BY SMTT(40), <1>19, <1>28 DEF AreaInv

\* vma_free puts on the stack what it takes from the page map and the list.
LEMMA FreeKeeps ==
    ASSUME AreaInv, NEW ptr, vma_free(ptr)
    PROVE  AreaInv'
<1>1. PICK k \in DOMAIN root :
        /\ live /\ UNCHANGED live
        /\ page' = [v \in PageNumber |-> IF v \in PagesOf(root[k]) THEN NULL ELSE page[v]]
        /\ \E order \in Descending(PagesOf(root[k]) \cap Mapped) :
              free' = <<root[k].node>> \o [j \in DOMAIN order |-> page[order[j]]] \o free
        /\ root' = RemoveAt(root, k)
  BY ZenonT(40) DEF vma_free, Unmaps
<1> DEFINE S == PagesOf(root[k]) \cap Mapped
<1>2. PICK order \in Descending(S) :
        free' = <<root[k].node>> \o [j \in DOMAIN order |-> page[order[j]]] \o free
  BY ZenonT(40), <1>1
<1> DEFINE frames == [j \in DOMAIN order |-> page[order[j]]]
           x == root[k].node
<1>3. /\ root \in Seq(Region) /\ page \in [PageNumber -> Nat] /\ free \in Seq(Frame)
  BY DEF AreaInv, AreaType
<1>4. k \in 1 .. Len(root) /\ x \in Frame
  <2>1. k \in 1 .. Len(root) /\ root[k] \in Region
    BY <1>3
  <2> QED BY <2>1 DEF Region
<1>5. /\ FreeOnce /\ PageOnce /\ NodeOnce /\ PageNotFree /\ NodeNotFree /\ NodeNotPage
      /\ OneNotUsed /\ FramesOnce
  BY Uses DEF AreaInv
<1>6. Cardinality(S) \in Nat /\ S \subseteq Mapped /\ S \subseteq Nat
  <2>1. 0 \in Int /\ MaxPage \in Int
    BY VmaAssumption
  <2>2. IsFiniteSet(PageNumber)
    BY <2>1, FS_Interval DEF PageNumber
  <2>3. S \subseteq PageNumber /\ S \subseteq Mapped
    BY DEF Mapped
  <2>4. IsFiniteSet(S)
    BY <2>2, <2>3, FS_Subset
  <2>5. PageNumber \subseteq Nat
    BY VmaAssumption DEF PageNumber
  <2> HIDE DEF S
  <2> QED BY SMTT(40), <2>3, <2>4, <2>5, FS_CardinalityType
<1>7. /\ order \in [1 .. Cardinality(S) -> S]
      /\ \A i, j \in DOMAIN order : i < j => order[i] > order[j]
  BY ZenonT(40) DEF Descending
<1> HIDE DEF S, x
<1>8. \A i, j \in DOMAIN order : order[i] = order[j] => i = j
  <2> SUFFICES ASSUME NEW i \in DOMAIN order, NEW j \in DOMAIN order, order[i] = order[j]
               PROVE  i = j
    OBVIOUS
  <2>1. i \in Nat /\ j \in Nat /\ order[i] \in Nat /\ order[j] \in Nat
    <3>1. DOMAIN order = 1 .. Cardinality(S) /\ order[i] \in S /\ order[j] \in S
      BY <1>7
    <3>2. i \in Nat /\ j \in Nat
      BY <1>6, <3>1
    <3> QED BY <1>6, <3>1, <3>2, ZenonT(40)
  <2>2. ~(i < j) /\ ~(j < i)
    BY <1>7, <2>1
  <2> QED BY <2>1, <2>2
<1>9. \A j \in DOMAIN order : order[j] \in S /\ order[j] \in Mapped
  BY ZenonT(40), <1>6, <1>7
<1>10. frames \in Seq(Frame) /\ DOMAIN frames = DOMAIN order
  <2>1. \A v \in Mapped : page[v] \in Frame
    BY <1>3 DEF Mapped, Frame, NULL
  <2>2. frames \in [1 .. Cardinality(S) -> Frame]
    BY <1>7, <1>9, <2>1
  <2> HIDE DEF frames
  <2>3. frames \in Seq(Frame)
    BY <1>6, <2>2
  <2> QED BY <1>7, <2>2, <2>3
<1>11. \A j \in DOMAIN frames : frames[j] = page[order[j]]
  BY <1>10
<1>12. IsInjective(frames)
  <2> SUFFICES ASSUME NEW i \in DOMAIN frames, NEW j \in DOMAIN frames, frames[i] = frames[j]
               PROVE  i = j
    BY Zenon DEF IsInjective
  <2> HIDE DEF frames
  <2>1. page[order[i]] = page[order[j]] /\ order[i] \in Mapped /\ order[j] \in Mapped
    BY <1>9, <1>10, <1>11
  <2>2. order[i] = order[j]
    BY <1>5, <2>1, Zenon DEF PageOnce
  <2> QED BY <1>8, <1>10, <2>2
<1> HIDE DEF frames
<1>13. \A y \in Range(frames) : \E v \in S : v \in Mapped /\ y = page[v]
  <2> SUFFICES ASSUME NEW j \in DOMAIN frames PROVE \E v \in S : v \in Mapped /\ frames[j] = page[v]
    BY Zenon DEF Range
  <2> QED BY <1>9, <1>10, <1>11
<1>14. x \notin Range(free) /\ x \notin Range(frames)
  BY <1>5, <1>13, Zenon DEF x, FramesOnce
<1>15. \A a \in DOMAIN frames : frames[a] \notin Range(free)
  BY <1>5, <1>9, <1>10, <1>11, ZenonT(40) DEF FramesOnce
<1>16. IsInjective(free)
  BY <1>5, Zenon DEF FramesOnce
<1>17. free' = <<x>> \o frames \o free
  BY <1>2, Zenon DEF frames, x
<1>18. /\ free' \in Seq(Frame) /\ IsInjective(free')
       /\ \A y \in Range(free') : y = x \/ y \in Range(frames) \/ y \in Range(free)
  BY <1>3, <1>4, <1>10, <1>12, <1>14, <1>15, <1>16, <1>17, Stacked, ZenonT(40)
<1>19. page' \in [PageNumber -> Nat]
  BY <1>1, <1>3 DEF NULL
<1>20. \A v \in Mapped' : v \in Mapped /\ v \notin S /\ page'[v] = page[v]
  BY <1>1 DEF Mapped, NULL, S
<1> DEFINE Old(j) == IF j < k THEN j ELSE j + 1
<1>21. /\ root' \in Seq(Region) /\ DOMAIN root' = 1 .. Len(root) - 1
       /\ \A j \in 1 .. Len(root) - 1 : root'[j] = IF j < k THEN root[j] ELSE root[j + 1]
  <2>1. Shrunk(root', Region, root, k)
    BY <1>1, <1>3, <1>4, AreaRemoved, ZenonT(40)
  <2>2. /\ root' \in Seq(Region) /\ Len(root') = Len(root) - 1
        /\ \A j \in 1 .. Len(root) - 1 : root'[j] = IF j < k THEN root[j] ELSE root[j + 1]
    BY <2>1, Zenon DEF Shrunk
  <2>3. DOMAIN root' = 1 .. Len(root')
    BY <2>2
  <2> QED BY <2>2, <2>3, Zenon
<1>22. /\ \A j \in DOMAIN root' : root'[j] = root[Old(j)] /\ Old(j) \in DOMAIN root /\ Old(j) # k
       /\ \A i, j \in DOMAIN root' : Old(i) = Old(j) => i = j
  <2>1. Len(root) \in Nat /\ DOMAIN root = 1 .. Len(root)
    BY <1>3
  <2>2. ASSUME NEW j \in 1 .. Len(root) - 1
        PROVE  root'[j] = root[Old(j)] /\ Old(j) \in DOMAIN root /\ Old(j) # k
    BY <1>4, <1>21, <2>1
  <2>3. ASSUME NEW i \in 1 .. Len(root) - 1, NEW j \in 1 .. Len(root) - 1, Old(i) = Old(j)
        PROVE  i = j
    BY SMTT(40), <1>4, <2>1, <2>3
  <2> QED BY <1>21, <2>2, <2>3
<1> HIDE DEF Old
<1>23. AreaType'
  BY SMTT(40), <1>1, <1>18, <1>19, <1>21 DEF AreaInv, AreaType
<1>24. ASSUME NEW v \in Mapped' PROVE page'[v] \notin Range(free') /\ page'[v] # 1
  <2>1. v \in Mapped /\ v \notin S /\ page'[v] = page[v]
    BY <1>20
  <2>2. page[v] # x /\ page[v] \notin Range(free)
    BY <1>5, <2>1, Zenon DEF FramesOnce, x
  <2>3. page[v] \notin Range(frames)
    BY <1>5, <1>13, <2>1, ZenonT(40) DEF PageOnce
  <2>4. page[v] # 1
    BY <1>1, <1>5, <2>1, ZenonT(40) DEF OneNotUsed
  <2> QED BY <1>18, <2>1, <2>2, <2>3, <2>4, ZenonT(40)
<1>25. ASSUME NEW j \in DOMAIN root' PROVE root'[j].node \notin Range(free') /\ root'[j].node # 1
  <2>1. root'[j] = root[Old(j)] /\ Old(j) \in DOMAIN root /\ Old(j) # k
    BY <1>22
  <2>2. root[Old(j)].node # x
    BY <1>5, <2>1, Zenon DEF NodeOnce, x
  <2>3. root[Old(j)].node \notin Range(free) /\ root[Old(j)].node # 1
    BY <1>1, <1>5, <2>1, ZenonT(40) DEF FramesOnce, OneNotUsed
  <2>4. root[Old(j)].node \notin Range(frames)
    BY <1>5, <1>13, <2>1, ZenonT(40) DEF NodeNotPage
  <2> QED BY <1>18, <2>1, <2>2, <2>3, <2>4, ZenonT(40)
<1>26. PageOnce' /\ NodeOnce' /\ NodeNotPage'
  <2>1. PageOnce'
    BY <1>5, <1>20, Zenon DEF PageOnce
  <2>2. NodeOnce'
    BY <1>5, <1>22, ZenonT(40) DEF NodeOnce
  <2>3. NodeNotPage'
    <3> SUFFICES ASSUME NEW j \in DOMAIN root', NEW v \in Mapped' PROVE page'[v] # root'[j].node
      BY Zenon DEF NodeNotPage
    <3>1. v \in Mapped /\ page'[v] = page[v] /\ root'[j] = root[Old(j)] /\ Old(j) \in DOMAIN root
      BY <1>20, <1>22, Zenon
    <3> QED BY <1>5, <3>1, Zenon DEF NodeNotPage
  <2> QED BY <2>1, <2>2, <2>3
<1>27. 1 \notin Range(free')
  BY <1>1, <1>5, <1>13, <1>18, ZenonT(40) DEF OneNotUsed, Range, x
<1>28. FramesOnce'
  BY <1>18, <1>24, <1>25, <1>26, ZenonT(40) DEF FramesOnce, PageOnce, NodeOnce, NodeNotPage
<1>29. ContextApart'
  BY <1>24, <1>25, <1>27, ZenonT(40) DEF ContextApart
<1> QED BY <1>23, <1>28, <1>29 DEF AreaInv

\* vma_destroy_context puts the list nodes and the context on the stack.
LEMMA DestroyKeeps ==
    ASSUME AreaInv, vma_destroy_context
    PROVE  AreaInv'
<1> DEFINE nodes == [k \in DOMAIN root |-> root[k].node]
           back == Reverse(nodes)
           L == Len(root)
<1>1. /\ live /\ live' = FALSE /\ free' = <<1>> \o back \o free /\ root' = <<>> /\ page' = page
  BY DEF vma_destroy_context
<1>2. /\ root \in Seq(Region) /\ page \in [PageNumber -> Nat] /\ free \in Seq(Frame)
  BY DEF AreaInv, AreaType
<1>3. FramesOnce /\ NodeOnce /\ OneNotUsed
  BY Uses DEF AreaInv
<1>4. L \in Nat /\ DOMAIN root = 1 .. L /\ nodes \in [1 .. L -> Frame] /\ Len(nodes) = L
  <2>1. L \in Nat /\ DOMAIN root = 1 .. L /\ \A k \in 1 .. L : root[k] \in Region
    BY <1>2
  <2>2. \A k \in 1 .. L : root[k].node \in Frame
    BY <2>1 DEF Region
  <2>3. nodes \in [1 .. L -> Frame]
    BY <2>1, <2>2
  <2> HIDE DEF nodes, L
  <2>4. Len(nodes) = L
    BY <2>1, <2>3
  <2> QED BY <2>1, <2>3, <2>4
<1>5. \A k \in 1 .. L : nodes[k] = root[k].node
  BY <1>4
<1> HIDE DEF nodes, L
<1>6. /\ back \in Seq(Frame) /\ DOMAIN back = 1 .. L
      /\ \A i \in 1 .. L : (L - i) + 1 \in 1 .. L /\ back[i] = nodes[(L - i) + 1]
  <2>1. back = [i \in 1 .. L |-> nodes[(L - i) + 1]]
    BY <1>4, Zenon DEF Reverse
  <2>2. \A i \in 1 .. L : (L - i) + 1 \in 1 .. L
    BY <1>4
  <2> HIDE DEF back
  <2>3. back \in [1 .. L -> Frame]
    BY <1>4, <2>1, <2>2
  <2>4. back \in Seq(Frame)
    BY <1>4, <2>3
  <2> QED BY <2>1, <2>2, <2>3, <2>4
<1>7. \A i, j \in 1 .. L : (L - i) + 1 = (L - j) + 1 => i = j
  BY <1>4
<1> HIDE DEF back
<1>8. IsInjective(back)
  <2> SUFFICES ASSUME NEW i \in 1 .. L, NEW j \in 1 .. L, back[i] = back[j] PROVE i = j
    BY <1>6, Zenon DEF IsInjective
  <2> DEFINE f == (L - i) + 1
             g == (L - j) + 1
  <2>1. f \in 1 .. L /\ g \in 1 .. L /\ back[i] = nodes[f] /\ back[j] = nodes[g]
    BY <1>6, Zenon
  <2> HIDE DEF f, g
  <2>2. root[f].node = root[g].node /\ f \in DOMAIN root /\ g \in DOMAIN root
    BY <1>4, <1>5, <2>1, Zenon
  <2>3. f = g
    BY <1>3, <2>2, Zenon DEF NodeOnce
  <2> QED BY <1>7, <2>3, Zenon DEF f, g
<1>9. /\ \A a \in DOMAIN back : \E k \in DOMAIN root : back[a] = root[k].node
      /\ \A y \in Range(back) : \E k \in DOMAIN root : y = root[k].node
  <2>1. ASSUME NEW i \in 1 .. L PROVE \E k \in DOMAIN root : back[i] = root[k].node
    <3> DEFINE f == (L - i) + 1
    <3>1. f \in 1 .. L /\ back[i] = nodes[f]
      BY <1>6, Zenon
    <3> HIDE DEF f
    <3> QED BY <1>4, <1>5, <3>1, Zenon
  <2>2. \A a \in DOMAIN back : \E k \in DOMAIN root : back[a] = root[k].node
    BY <1>6, <2>1, Zenon
  <2> QED BY <2>2, Zenon DEF Range
<1>10. 1 \notin Range(back) /\ 1 \notin Range(free) /\ IsInjective(free)
  BY <1>1, <1>3, <1>9, Zenon DEF OneNotUsed, FramesOnce, Range
<1>11. \A a \in DOMAIN back : back[a] \notin Range(free)
  BY <1>3, <1>9, Zenon DEF FramesOnce
<1>12. 1 \in Frame
  BY DEF Frame
<1>13. /\ free' \in Seq(Frame) /\ IsInjective(free')
       /\ \A y \in Range(free') : y = 1 \/ y \in Range(back) \/ y \in Range(free)
  BY <1>1, <1>2, <1>6, <1>8, <1>10, <1>11, <1>12, Stacked, ZenonT(40)
<1>14. root' \in Seq(Region) /\ DOMAIN root' = {}
  BY <1>1
<1>15. Mapped' = Mapped
  BY <1>1 DEF Mapped
<1>16. ASSUME NEW v \in Mapped PROVE page[v] \notin Range(free')
  <2>1. page[v] # 1
    BY <1>1, <1>3, Zenon DEF OneNotUsed
  <2>2. page[v] \notin Range(free) /\ \A k \in DOMAIN root : page[v] # root[k].node
    BY <1>3, Zenon DEF FramesOnce
  <2>3. page[v] \notin Range(back)
    BY <1>9, <2>2, Zenon
  <2> QED BY <1>13, <2>1, <2>2, <2>3, ZenonT(40)
<1>17. FramesOnce'
  <2>1. \A v \in Mapped' : page'[v] \notin Range(free')
    BY <1>1, <1>15, <1>16, ZenonT(40)
  <2>2. \A v, w \in Mapped' : page'[v] = page'[w] => v = w
    BY <1>1, <1>3, <1>15, ZenonT(40) DEF FramesOnce
  <2>3. \A k \in DOMAIN root' : FALSE
    BY <1>14
  <2> QED BY <1>13, <2>1, <2>2, <2>3, ZenonT(40) DEF FramesOnce
<1>18. AreaType'
  BY ZenonT(40), <1>1, <1>2, <1>13, <1>14 DEF AreaType
<1>19. ContextApart'
  BY <1>1 DEF ContextApart
<1> QED BY <1>17, <1>18, <1>19 DEF AreaInv

\* For any number of frames, pages and regions, whatever sizes are asked for, and
\* wherever memory runs out: no frame is free and in use, or in use twice, and so
\* vma_alloc, vma_free and vma_destroy_context never release a frame twice.
THEOREM FramesUsedOnce == Spec => []FramesOnce
<1>1. Init => AreaInv
  <2> SUFFICES ASSUME Init PROVE AreaInv
    OBVIOUS
  <2>1. /\ root = <<[start |-> VMA_START, size |-> 0, node |-> 2]>>
        /\ page = [v \in PageNumber |-> NULL]
        /\ free = [k \in 1 .. Frames - 2 |-> k + 2] /\ live = TRUE
    BY DEF Init
  <2>2. root \in Seq(Region) /\ DOMAIN root = {1} /\ root[1].node = 2
    <3> DEFINE first == [start |-> VMA_START, size |-> 0, node |-> 2]
    <3>1. first \in Region /\ first.node = 2
      BY VmaAssumption DEF Region, Frame
    <3> HIDE DEF first
    <3>2. root = <<first>>
      BY <2>1 DEF first
    <3> QED BY <3>1, <3>2
  <2>3. /\ DOMAIN free = 1 .. Frames - 2
        /\ \A k \in 1 .. Frames - 2 : free[k] = k + 2 /\ k + 2 \in Frame /\ k + 2 # 1 /\ k + 2 # 2
        /\ \A j, k \in 1 .. Frames - 2 : j + 2 = k + 2 => j = k
    BY <2>1, VmaAssumption DEF Frame
  <2>4. free \in Seq(Frame)
    <3>1. CASE Frames < 2
      <4>1. 1 .. Frames - 2 = {} /\ 1 .. 0 = {}
        BY <3>1, VmaAssumption
      <4>2. free \in [1 .. 0 -> Frame] /\ 0 \in Nat
        BY <2>1, <4>1
      <4> QED BY <4>2
    <3>2. CASE Frames >= 2
      <4>1. Frames - 2 \in Nat
        BY <3>2, VmaAssumption
      <4>2. free \in [1 .. Frames - 2 -> Frame]
        BY <2>1, <2>3
      <4> QED BY <4>1, <4>2
    <3> QED BY <3>1, <3>2, VmaAssumption
  <2>5. Mapped = {} /\ page \in [PageNumber -> Nat]
    BY <2>1 DEF Mapped, NULL
  <2>6. FramesOnce
    <3>1. IsInjective(free)
      BY <2>3, ZenonT(40) DEF IsInjective
    <3>2. 2 \notin Range(free)
      BY <2>3, Zenon DEF Range
    <3>3. \A k \in DOMAIN root : /\ root[k].node \notin Range(free)
                                 /\ \A j \in DOMAIN root : root[j].node = root[k].node => j = k
      BY <2>2, <3>2
    <3> QED BY <2>5, <3>1, <3>3, ZenonT(40) DEF FramesOnce
  <2>7. \A k \in DOMAIN root : root[k].node # 1
    BY <2>2
  <2>8. ContextApart
    BY <2>3, <2>5, <2>7, ZenonT(40) DEF ContextApart, Range
  <2> QED BY SMTT(40), <2>1, <2>2, <2>4, <2>5, <2>6, <2>8 DEF AreaInv, AreaType
<1>2. AreaInv /\ [Next]_vars => AreaInv'
  <2> SUFFICES ASSUME AreaInv, [Next]_vars PROVE AreaInv'
    OBVIOUS
  <2>1. CASE UNCHANGED vars
    BY <2>1 DEF vars, AreaInv, AreaType, FramesOnce, ContextApart, Mapped
  <2>2. CASE Next
    BY SMTT(40), <2>2, AllocKeeps, FreeKeeps, DestroyKeeps DEF Next
  <2> QED BY <2>1, <2>2
<1>3. AreaInv => FramesOnce
  BY DEF AreaInv
<1> QED BY <1>1, <1>2, <1>3, PTL DEF Spec
=============================================================================
