----------------------------- MODULE PmmProofs -----------------------------
(***************************************************************************)
(* Proofs about the physical memory manager, for every memory map, every   *)
(* hash function and every size of the cache and of a frame.               *)
(*                                                                         *)
(* The safety properties of Pmm speak of the stack once the manager is up; *)
(* what makes them inductive is what the loops of pmm_init have done so    *)
(* far, and that the height of the stack counts the distinct frames on it. *)
(***************************************************************************)
EXTENDS Pmm, FiniteSetTheorems, SequenceTheorems, TLAPS

\* The memory map stays well formed when the array is carved out of it.
MapOK ==
    /\ \A e \in DOMAIN entries :
          entries[e].type = "usable" =>
              /\ Frames(entries[e]) \subseteq Page \ {NULL}
              /\ entries[e].base + entries[e].length + CacheSize <= MaxFrame
    /\ \A d, e \in DOMAIN entries :
          d # e => Frames(entries[d]) \cap Frames(entries[e]) = {}

\* While entries are counted, free_pages counts the frames of those seen.
CountInv ==
    phase = "count" =>
        /\ entries \in MemMaps
        /\ stack = <<>> /\ held = {}
        /\ \A c \in 0 .. CacheSize - 1 : cache[c] = NULL
        /\ free_pages = Cardinality(UsableAmong(entries, 1 .. i - 1))

\* The frames that the push loop has taken from the entry it is in.
Pushed ==
    IF i <= Len(entries) /\ entries[i].type = "usable"
    THEN entries[i].base .. entries[i].base + j - 1 ELSE {}

PushInv ==
    phase = "push" =>
        /\ held = {}
        /\ OnStack = UsableAmong(entries, 1 .. i - 1) \cup Pushed
        /\ i <= Len(entries) => j <= entries[i].length

\* Every frame that will ever be on the stack has a slot in the array, and the
\* frames of the array are not among them.
RoomInv ==
    phase # "count" =>
        /\ Cardinality(Usable(entries)) <= capacity
        /\ Usable(entries) \cap (pages .. pages + ArraySize(free_pages) - 1) = {}

UpInv ==
    phase = "up" =>
        /\ OnStack \cup held = Usable(entries)
        /\ max = Cardinality(Usable(entries))

\* The stack is as high as the number of different frames on it.
HeightInv == idx = Cardinality(OnStack)

IInv ==
    /\ TypeOK /\ MapOK /\ CountInv /\ PushInv /\ RoomInv /\ UpInv
    /\ HeightInv /\ NoAliasing /\ CacheSound

-----------------------------------------------------------------------------
(* Facts about the operators.                                              *)

\* The array of ALIGN_UP(free_pages * 8, PAGE_SIZE) bytes has a slot for each
\* of the free_pages frames.
LEMMA ArraySizeHolds ==
    ASSUME NEW n \in Nat
    PROVE  ArraySize(n) \in Nat /\ n <= ArraySize(n) * SlotsPerPage
BY SizeAssumption, Z3 DEF ArraySize

\* Every set of frames is finite.
LEMMA PagesFinite ==
    ASSUME NEW S \in SUBSET Page
    PROVE  IsFiniteSet(S) /\ Cardinality(S) \in Nat
<1>1. IsFiniteSet(Page)
  BY SizeAssumption, FS_Interval DEF Page
<1>2. QED BY <1>1, FS_Subset, FS_CardinalityType

\* Pushing a frame adds it to the frames on the stack.
LEMMA PushAdds ==
    ASSUME NEW s \in Seq(Page), NEW p \in Page
    PROVE  LET t == Append(s, p) IN
           /\ t \in Seq(Page)
           /\ Len(t) = Len(s) + 1
           /\ {t[k] : k \in 1 .. Len(t)} = {s[k] : k \in 1 .. Len(s)} \cup {p}
           /\ \A k \in 1 .. Len(s) : t[k] = s[k]
           /\ t[Len(s) + 1] = p
BY AppendProperties, LenProperties

\* Popping removes the top frame, if it is there only once.
LEMMA PopRemoves ==
    ASSUME NEW s \in Seq(Page), Len(s) > 0,
           \A k, l \in 1 .. Len(s) : s[k] = s[l] => k = l
    PROVE  LET t == SubSeq(s, 1, Len(s) - 1) IN
           /\ t \in Seq(Page)
           /\ Len(t) = Len(s) - 1
           /\ {t[k] : k \in 1 .. Len(t)} = {s[k] : k \in 1 .. Len(s)} \ {s[Len(s)]}
           /\ \A k \in 1 .. Len(t) : t[k] = s[k]
<1> DEFINE n == Len(s) - 1
           t == SubSeq(s, 1, n)
<1>1. n \in Nat /\ \A k \in 1 .. n : s[k] \in Page
  BY LenProperties
<1> HIDE DEF n
<1>2. t \in Seq(Page) /\ Len(t) = n /\ \A k \in 1 .. n : t[k] = s[k]
  BY <1>1, SubSeqProperties
<1> HIDE DEF t
<1>3. {t[k] : k \in 1 .. Len(t)} = {s[k] : k \in 1 .. Len(s)} \ {s[Len(s)]}
  BY <1>1, <1>2, LenProperties DEF n
<1>4. QED BY <1>2, <1>3 DEF t, n

\* One more step of the push loop.
LEMMA IntervalGrows ==
    ASSUME NEW b \in Nat, NEW n \in Nat
    PROVE  (b .. b + n - 1) \cup {b + n} = b .. b + (n + 1) - 1
OBVIOUS

\* Which frames are usable, entry by entry.
LEMMA UsableStep ==
    ASSUME NEW m \in Seq(Entry), NEW n \in 1 .. Len(m),
           \A e \in DOMAIN m : m[e].type = "usable" => Frames(m[e]) \subseteq Page
    PROVE  UsableAmong(m, 1 .. n) =
             UsableAmong(m, 1 .. n - 1)
               \cup (IF m[n].type = "usable" THEN Frames(m[n]) ELSE {})
<1>1. 1 .. n = (1 .. n - 1) \cup {n} /\ n \in DOMAIN m
  BY LenProperties
<1>2. QED BY <1>1 DEF UsableAmong

-----------------------------------------------------------------------------
(* The invariant holds initially and every step keeps it.                  *)

\* The invariant holds before pmm_init has run.
LEMMA InitIInv == Init => IInv
<1> SUFFICES ASSUME Init PROVE IInv
  OBVIOUS
<1>1. entries \in Seq(Entry) /\ MapOK
  BY MapAssumption DEF Init, MapOK
<1>2. Len(entries) \in Nat
  BY <1>1, LenProperties
<1>3. TypeOK
  BY <1>1, <1>2, SizeAssumption, EmptySeq DEF Init, TypeOK, Page, NULL
<1>4. OnStack = {} /\ idx = 0
  BY EmptySeq DEF Init, OnStack, idx
<1>5. UsableAmong(entries, 1 .. i - 1) = {}
  BY DEF Init, UsableAmong
<1>6. CountInv /\ HeightInv
  BY ZenonT(40), <1>4, <1>5, FS_EmptySet DEF Init, CountInv, HeightInv
<1>7. QED
  BY <1>1, <1>3, <1>4, <1>6
  DEF Init, IInv, PushInv, RoomInv, UpInv, NoAliasing, CacheSound

\* Counting an entry preserves the invariant.
LEMMA CountEntryIInv == IInv /\ CountEntry => IInv'
<1> SUFFICES ASSUME IInv, CountEntry PROVE IInv'
  OBVIOUS
<1>1. /\ entries \in Seq(Entry) /\ i \in 1 .. Len(entries) /\ Len(entries) \in Nat
      /\ i' = i + 1 /\ UNCHANGED <<entries, stack, held, cache, max, pages, capacity, phase, j>>
      /\ phase = "count"
  BY LenProperties DEF IInv, TypeOK, CountEntry
<1>2. entries[i] \in Entry /\ i \in DOMAIN entries
  BY <1>1, LenProperties
<1> DEFINE U == UsableAmong(entries, 1 .. i - 1)
           F == Frames(entries[i])
<1>3. free_pages = Cardinality(U) /\ U \subseteq Page /\ IsFiniteSet(U)
  BY ZenonT(40), <1>1, PagesFinite DEF IInv, CountInv, UsableAmong
<1>4. free_pages' = Cardinality(UsableAmong(entries, 1 .. i))
  <2>1. CASE entries[i].type = "usable"
    <3>1. F \subseteq Page /\ IsFiniteSet(F)
      BY <1>2, <2>1, PagesFinite DEF IInv, MapOK
    <3>2. Cardinality(F) = entries[i].length
      <4>1. entries[i].base \in Int /\ entries[i].length \in Nat
        BY <1>2 DEF Entry
      <4> DEFINE first == entries[i].base
                 last == entries[i].base + entries[i].length - 1
      <4>2. F = first .. last /\ first \in Int /\ last \in Int
        BY <4>1 DEF Frames
      <4>3. Cardinality(first .. last) = IF first > last THEN 0 ELSE last - first + 1
        <5> HIDE DEF first, last
        <5> QED BY <4>2, FS_Interval
      <4>4. QED BY <4>1, <4>2, <4>3
    <3>3. U \cap F = {}
      BY <1>1, <1>2 DEF IInv, MapOK, UsableAmong
    <3>4. UsableAmong(entries, 1 .. i) = U \cup F
      BY <1>1, <2>1, UsableStep DEF IInv, MapOK
    <3>5. Cardinality(U \cup F) = Cardinality(U) + Cardinality(F)
      <4>1. Cardinality(U \cup F) = Cardinality(U) + Cardinality(F) - Cardinality(U \cap F)
        BY <1>3, <3>1, FS_Union
      <4>2. Cardinality(U) \in Nat /\ Cardinality(F) \in Nat
        BY <1>3, <3>1, FS_CardinalityType
      <4>3. Cardinality(U \cap F) = 0
        BY <3>3, FS_EmptySet, Zenon
      <4>4. QED BY <4>1, <4>2, <4>3
    <3>6. QED BY ZenonT(40), <1>3, <2>1, <3>2, <3>4, <3>5 DEF CountEntry
  <2>2. CASE entries[i].type # "usable"
    <3>1. UsableAmong(entries, 1 .. i) = U
      BY <1>1, <2>2, LenProperties DEF UsableAmong
    <3>2. QED BY <3>1, <1>3, <2>2 DEF CountEntry
  <2>3. QED BY <2>1, <2>2
<1>5. free_pages' \in Nat
  BY <1>4, PagesFinite DEF UsableAmong
<1>6. TypeOK'
  BY <1>1, <1>5 DEF IInv, TypeOK
<1>7. CountInv'
  <2>1. i' - 1 = i
    BY <1>1
  <2>2. UsableAmong(entries', 1 .. i' - 1) = UsableAmong(entries, 1 .. i)
    BY <1>1, <2>1
  <2>3. QED BY <1>1, <1>4, <2>2 DEF IInv, CountInv
<1>8. MapOK' /\ PushInv' /\ RoomInv' /\ UpInv' /\ CacheSound'
  BY SMTT(60), <1>1 DEF IInv, MapOK, PushInv, RoomInv, UpInv, CacheSound
<1>9. HeightInv' /\ NoAliasing'
  BY ZenonT(40), <1>1 DEF IInv, HeightInv, NoAliasing, OnStack, idx
<1>10. QED
  BY <1>6, <1>7, <1>8, <1>9 DEF IInv

\* Carving the stack's array out of an entry preserves the invariant, and the
\* array has a slot for every frame that is left.
LEMMA CarveIInv == IInv /\ Carve => IInv'
<1> SUFFICES ASSUME IInv, Carve PROVE IInv'
  OBVIOUS
<1>1. /\ entries \in Seq(Entry) /\ Len(entries) \in Nat /\ i = Len(entries) + 1
      /\ DOMAIN entries = 1 .. Len(entries)
      /\ entries \in MemMaps /\ stack = <<>> /\ held = {}
      /\ \A c \in 0 .. CacheSize - 1 : cache[c] = NULL
      /\ phase' = "push" /\ i' = 1 /\ j' = 0
      /\ UNCHANGED <<free_pages, stack, max, held>>
  BY LenProperties DEF IInv, TypeOK, CountInv, Carve
<1> DEFINE n == Cardinality(Usable(entries))
<1>2. free_pages = n /\ n \in Nat
  <2>1. 1 .. i - 1 = DOMAIN entries
    BY <1>1
  <2>2. free_pages = Cardinality(UsableAmong(entries, 1 .. i - 1))
    BY DEF IInv, CountInv, Carve
  <2>3. free_pages = n
    BY SMTT(60), <2>1, <2>2 DEF Usable
  <2>4. QED BY <2>3, PagesFinite DEF Usable, UsableAmong
<1> DEFINE size == ArraySize(n)
<1>3. PICK f \in DOMAIN entries :
        /\ FitsArray(entries, f, n)
        /\ \A k \in 1 .. f - 1 : ~FitsArray(entries, k, n)
        /\ entries' = [entries EXCEPT ![f].base = entries[f].base + size,
                                      ![f].length = @ - size]
        /\ pages' = entries[f].base
        /\ capacity' = size * SlotsPerPage
        /\ cache' = [c \in 0 .. CacheSize - 1 |->
                       IF c < SeedCount(n) THEN entries[f].base + size + c ELSE cache[c]]
  BY ZenonT(40), <1>2 DEF Carve
<1> HIDE DEF n
<1>4. size \in Nat /\ n <= size * SlotsPerPage
  BY <1>2, ArraySizeHolds
<1> HIDE DEF size
<1>5. entries[f].length >= size
  BY <1>3 DEF FitsArray, size
<1>6. SeedCount(n) \in Nat /\ SeedCount(n) <= CacheSize
  BY <1>2, SizeAssumption DEF SeedCount
<1>7. entries[f] \in Entry /\ entries[f].base \in Nat /\ entries[f].length \in Nat
  <2>1. entries[f] \in Entry
    BY <1>1, ElementOfSeq
  <2>2. QED BY <2>1 DEF Entry
<1> DEFINE e1 == [entries[f] EXCEPT !.base = entries[f].base + size,
                                    !.length = entries[f].length - size]
<1>8. /\ e1 \in Entry
      /\ e1.type = "usable"
      /\ e1.base = entries[f].base + size
      /\ e1.length = entries[f].length - size
  BY <1>3, <1>4, <1>5, <1>6, <1>7 DEF Entry, FitsArray
<1>9. entries' = [entries EXCEPT ![f] = e1]
  BY ZenonT(40), <1>1, <1>3, <1>7 DEF Entry
<1> HIDE DEF e1
<1>10. /\ entries' \in Seq(Entry)
       /\ Len(entries') = Len(entries) /\ DOMAIN entries' = DOMAIN entries
       /\ entries'[f] = e1
       /\ \A e \in DOMAIN entries : e # f => entries'[e] = entries[e]
  BY <1>1, <1>8, <1>9, ExceptSeq, LenProperties
<1>11. Frames(e1) \subseteq Frames(entries[f])
  BY <1>4, <1>7, <1>8 DEF Frames
<1>12. entries[f].type = "usable"
  BY <1>3 DEF FitsArray
<1>13. Usable(entries') \subseteq Usable(entries)
  BY <1>8, <1>10, <1>11, <1>12 DEF Usable, UsableAmong
<1>14. MapOK'
  <2>1. \A e \in DOMAIN entries : Frames(entries'[e]) \subseteq Frames(entries[e])
    BY <1>10, <1>11
  <2>2. \A e \in DOMAIN entries : entries'[e].type = entries[e].type
    BY <1>8, <1>10, <1>12
  <2>3. e1.base + e1.length = entries[f].base + entries[f].length
    BY <1>4, <1>7, <1>8
  <2>4. \A e \in DOMAIN entries :
          entries'[e].base + entries'[e].length = entries[e].base + entries[e].length
    BY <1>10, <2>3
  <2>5. QED BY <1>10, <2>1, <2>2, <2>4 DEF IInv, MapOK
<1>15. \A c \in 0 .. CacheSize - 1 :
         c < SeedCount(n) => cache'[c] = pages' + size + c /\ cache'[c] \in Page
  <2> SUFFICES ASSUME NEW c \in 0 .. CacheSize - 1, c < SeedCount(n)
               PROVE  cache'[c] = pages' + size + c /\ cache'[c] \in Page
    OBVIOUS
  <2>1. cache'[c] = entries[f].base + size + c
    BY <1>3
  <2>2. entries[f].base + entries[f].length + CacheSize <= MaxFrame
    BY <1>12 DEF IInv, MapOK
  <2>3. QED BY <2>1, <2>2, <1>3, <1>4, <1>5, <1>7, SizeAssumption DEF Page
<1>16. TypeOK'
  <2>1. cache' \in [0 .. CacheSize - 1 -> Page]
    <3>1. \A c \in 0 .. CacheSize - 1 : cache'[c] \in Page
      BY <1>1, <1>3, <1>15 DEF IInv, TypeOK
    <3>2. QED BY <3>1, <1>3
  <2>2. capacity' \in Nat /\ pages' \in Nat
    BY <1>3, <1>4, <1>7, SizeAssumption
  <2>3. QED BY <1>1, <1>10, <2>1, <2>2 DEF IInv, TypeOK
<1>17. RoomInv'
  <2>1. Usable(entries) \subseteq Page
    BY DEF Usable, UsableAmong
  <2>2. Cardinality(Usable(entries')) <= n
    BY <1>13, <2>1, PagesFinite, FS_Subset DEF n
  <2>3. Cardinality(Usable(entries')) \in Nat
    BY <1>13, <2>1, PagesFinite
  <2>4. Cardinality(Usable(entries')) <= capacity'
    BY <1>2, <1>3, <1>4, <2>2, <2>3, SizeAssumption
  <2>5. Usable(entries') \cap (pages' .. pages' + size - 1) = {}
    <3> SUFFICES ASSUME NEW p \in Usable(entries'), p \in pages' .. pages' + size - 1
                 PROVE  FALSE
      OBVIOUS
    <3>1. PICK e \in DOMAIN entries : p \in Frames(entries'[e])
      BY <1>10 DEF Usable, UsableAmong
    <3>2. CASE e = f
      <4>1. p \in Frames(e1)
        BY <1>10, <3>1, <3>2
      <4>2. QED BY <1>3, <1>4, <1>7, <1>8, <4>1 DEF Frames
    <3>3. CASE e # f
      <4>1. p \in Frames(entries[e])
        BY <1>10, <3>1, <3>3
      <4>2. p \in Frames(entries[f])
        BY <1>3, <1>4, <1>5, <1>7 DEF Frames
      <4>3. QED BY <3>3, <4>1, <4>2 DEF IInv, MapOK
    <3>4. QED BY <3>2, <3>3
  <2>6. size = ArraySize(free_pages')
    BY <1>1, <1>2 DEF size
  <2>7. QED BY <2>4, <2>5, <2>6 DEF RoomInv
<1>18. CacheSound'
  <2> SUFFICES ASSUME NEW c \in 0 .. CacheSize - 1, cache'[c] # NULL
               PROVE  /\ cache'[c] \in Seeded'
                      /\ cache'[c] \notin pages' .. pages' + ArraySize(free_pages') - 1
    BY DEF CacheSound
  <2>1. c < SeedCount(n) /\ cache'[c] = pages' + size + c
    BY <1>1, <1>3, <1>15
  <2>2. size = ArraySize(free_pages') /\ SeedCount(free_pages') = SeedCount(n)
    BY <1>1, <1>2 DEF size
  <2>3. c \in 0 .. SeedCount(free_pages') - 1
    BY <1>6, <2>1, <2>2
  <2>4. cache'[c] \in Seeded'
    BY <2>1, <2>2, <2>3 DEF Seeded
  <2>5. QED BY <1>3, <1>4, <1>7, <2>1, <2>2, <2>4
<1>19. PushInv'
  <2>1. OnStack' = {}
    BY <1>1, EmptySeq DEF OnStack, idx
  <2>2. UsableAmong(entries', 1 .. i' - 1) = {}
    BY <1>1 DEF UsableAmong
  <2>3. Pushed' = {}
    <3>1. CASE i' <= Len(entries')
      <4>1. entries'[i'] \in Entry
        BY <1>1, <1>10, <3>1, ElementOfSeq
      <4>2. entries'[i'].base \in Nat /\ j' = 0
        BY <1>1, <4>1 DEF Entry
      <4>3. QED BY <4>2 DEF Pushed
    <3>2. QED BY <3>1 DEF Pushed
  <2>4. i' <= Len(entries') => j' <= entries'[i'].length
    <3> SUFFICES ASSUME i' <= Len(entries') PROVE j' <= entries'[i'].length
      OBVIOUS
    <3>1. entries'[i'] \in Entry
      BY <1>1, <1>10, ElementOfSeq
    <3>2. QED BY <1>1, <3>1 DEF Entry
  <2>5. QED BY <1>1, <2>1, <2>2, <2>3, <2>4 DEF PushInv
<1>20. HeightInv' /\ NoAliasing'
  BY <1>1 DEF IInv, HeightInv, NoAliasing, OnStack, idx
<1>21. CountInv' /\ UpInv'
  BY <1>1 DEF CountInv, UpInv
<1>22. QED
  BY <1>14, <1>16, <1>17, <1>18, <1>19, <1>20, <1>21 DEF IInv

\* Pushing a frame preserves the invariant; the frame was not on the stack.
LEMMA PushFrameIInv ==
    IInv /\ PushFrame =>
        /\ IInv'
        /\ \E p \in Page : p \notin OnStack /\ OnStack' = OnStack \cup {p}
<1> SUFFICES ASSUME IInv, PushFrame
             PROVE  /\ IInv'
                    /\ \E p \in Page : p \notin OnStack /\ OnStack' = OnStack \cup {p}
  OBVIOUS
<1>1. /\ entries \in Seq(Entry) /\ i \in 1 .. Len(entries) /\ Len(entries) \in Nat
      /\ DOMAIN entries = 1 .. Len(entries)
      /\ phase = "push" /\ held = {} /\ stack \in Seq(Page) /\ j \in Nat
      /\ entries[i].type = "usable" /\ j < entries[i].length /\ j' = j + 1
      /\ UNCHANGED <<entries, phase, i, free_pages, pages, capacity, max, cache, held>>
  BY LenProperties DEF IInv, TypeOK, PushInv, PushFrame, MoreFrames
<1>2. entries[i].base \in Nat /\ entries[i].length \in Nat
  <2>1. entries[i] \in Entry
    BY <1>1, ElementOfSeq
  <2>2. QED BY <2>1 DEF Entry
<1> DEFINE p == entries[i].base + j
           U == UsableAmong(entries, 1 .. i - 1)
           B == entries[i].base .. entries[i].base + j - 1
<1>3. p \in Frames(entries[i]) /\ p \in Page
  <2>1. p \in Frames(entries[i])
    BY <1>1, <1>2 DEF Frames
  <2>2. QED BY <1>1, <2>1 DEF IInv, MapOK
<1>4. OnStack = U \cup B
  BY <1>1 DEF IInv, PushInv, Pushed
<1>5. p \notin OnStack
  <2>1. p \notin U
    BY <1>1, <1>3 DEF IInv, MapOK, UsableAmong
  <2>2. p \notin B
    BY <1>1, <1>2
  <2>3. QED BY <1>4, <2>1, <2>2
<1>6. stack' = Append(stack, p)
  BY DEF PushFrame
<1>7. /\ stack' \in Seq(Page)
      /\ idx' = idx + 1
      /\ OnStack' = OnStack \cup {p}
      /\ \A k \in 1 .. idx : stack'[k] = stack[k]
      /\ stack'[idx + 1] = p
      /\ idx \in Nat
  <2> HIDE DEF p
  <2>1. idx \in Nat
    BY <1>1, LenProperties DEF idx
  <2>2. QED BY <1>1, <1>3, <1>6, <2>1, PushAdds DEF idx, OnStack
<1>8. TypeOK'
  BY <1>1, <1>7 DEF IInv, TypeOK
<1>9. PushInv'
  <2>1. B \cup {p} = entries[i].base .. entries[i].base + j' - 1
    BY <1>1, <1>2, IntervalGrows
  <2>2. Pushed' = B \cup {p}
    BY <1>1, <2>1 DEF Pushed
  <2>3. U' = U
    BY <1>1
  <2>4. OnStack' = U' \cup Pushed'
    BY <1>4, <1>7, <2>2, <2>3
  <2>5. QED BY <1>1, <1>2, <2>4 DEF PushInv
<1>10. HeightInv' /\ OnStack \subseteq Page
  <2>1. OnStack \subseteq Page
    BY <1>1, ElementOfSeq DEF OnStack, idx
  <2>2. Cardinality(OnStack \cup {p}) = Cardinality(OnStack) + 1
    BY <1>5, <2>1, PagesFinite, FS_AddElement
  <2>3. QED BY <1>7, <2>1, <2>2 DEF HeightInv, IInv
<1>11. NoAliasing'
  <2>1. \A k \in 1 .. idx : stack'[k] \in OnStack
    BY <1>7 DEF OnStack
  <2>2. \A k, l \in 1 .. idx' : stack'[k] = stack'[l] => k = l
    <3> HIDE DEF p
    <3>1. \A k, l \in 1 .. idx : stack[k] = stack[l] => k = l
      BY DEF IInv, NoAliasing
    <3>2. QED BY <1>5, <1>7, <2>1, <3>1
  <2>3. QED BY <1>1, <2>2 DEF NoAliasing
<1>12. MapOK' /\ RoomInv' /\ CacheSound' /\ CountInv' /\ UpInv'
  BY <1>1 DEF IInv, MapOK, RoomInv, CacheSound, Seeded, CountInv, UpInv
<1>13. QED
  BY <1>3, <1>5, <1>7, <1>8, <1>9, <1>10, <1>11, <1>12 DEF IInv

\* Going on to the next entry preserves the invariant.
LEMMA NextEntryIInv == IInv /\ NextEntry => IInv'
<1> SUFFICES ASSUME IInv, NextEntry PROVE IInv'
  OBVIOUS
<1>1. /\ entries \in Seq(Entry) /\ i \in 1 .. Len(entries) /\ Len(entries) \in Nat
      /\ phase = "push" /\ j \in Nat /\ i' = i + 1 /\ j' = 0
      /\ entries[i].type = "usable" => ~(j < entries[i].length)
      /\ UNCHANGED <<entries, phase, free_pages, pages, capacity, stack, max, cache, held>>
  BY LenProperties DEF IInv, TypeOK, NextEntry, MoreFrames
<1>2. \A e \in 1 .. Len(entries) : entries[e].base \in Nat /\ entries[e].length \in Nat
  <2>1. \A e \in 1 .. Len(entries) : entries[e] \in Entry
    BY <1>1, ElementOfSeq
  <2>2. QED BY <2>1 DEF Entry
<1>3. UsableAmong(entries, 1 .. i) = UsableAmong(entries, 1 .. i - 1) \cup Pushed
  <2>1. entries[i].type = "usable" => Pushed = Frames(entries[i])
    <3>1. j <= entries[i].length
      BY <1>1 DEF IInv, PushInv
    <3>2. entries[i].type = "usable" => j = entries[i].length
      BY <1>1, <1>2, <3>1
    <3>3. QED BY <1>1, <3>2, SMTT(40) DEF Pushed, Frames
  <2>2. entries[i].type # "usable" => Pushed = {}
    BY DEF Pushed
  <2>3. QED BY <1>1, <2>1, <2>2, UsableStep DEF IInv, MapOK
<1>4. Pushed' = {}
  <2>1. i' <= Len(entries') => entries'[i'].base \in Nat
    BY <1>1, <1>2
  <2>2. QED BY <1>1, <2>1 DEF Pushed
<1>5. OnStack' = UsableAmong(entries', 1 .. i' - 1) \cup Pushed'
  <2>1. i' - 1 = i
    BY <1>1
  <2>2. OnStack' = OnStack
    BY <1>1 DEF OnStack, idx
  <2>3. QED BY ZenonT(40), <1>1, <1>3, <1>4, <2>1, <2>2 DEF IInv, PushInv
<1>6. PushInv'
  BY <1>1, <1>2, <1>5 DEF IInv, PushInv
<1>7. TypeOK'
  BY <1>1 DEF IInv, TypeOK
<1>8. MapOK' /\ RoomInv' /\ CacheSound' /\ CountInv' /\ UpInv'
  BY <1>1 DEF IInv, MapOK, RoomInv, CacheSound, Seeded, CountInv, UpInv
<1>9. HeightInv' /\ NoAliasing'
  BY ZenonT(40), <1>1 DEF IInv, HeightInv, NoAliasing, OnStack, idx
<1>10. QED
  BY <1>6, <1>7, <1>8, <1>9 DEF IInv

\* When pmm_init returns, every usable frame is on the stack.
LEMMA InitDoneIInv == IInv /\ InitDone => IInv'
<1> SUFFICES ASSUME IInv, InitDone PROVE IInv'
  OBVIOUS
<1>1. /\ entries \in Seq(Entry) /\ i = Len(entries) + 1 /\ Len(entries) \in Nat
      /\ DOMAIN entries = 1 .. Len(entries)
      /\ phase = "push" /\ held = {} /\ phase' = "up" /\ max' = idx
      /\ UNCHANGED <<entries, i, j, free_pages, pages, capacity, stack, cache, held>>
  BY LenProperties DEF IInv, TypeOK, PushInv, InitDone
<1>2. OnStack = Usable(entries)
  <2>1. 1 .. i - 1 = DOMAIN entries
    BY <1>1
  <2>2. Pushed = {}
    BY <1>1 DEF Pushed
  <2>3. QED BY <1>1, <2>1, <2>2 DEF IInv, PushInv, Usable
<1>3. OnStack' = OnStack /\ idx' = idx /\ idx \in Nat
  BY <1>1, LenProperties DEF IInv, TypeOK, OnStack, idx
<1>4. UpInv'
  BY <1>1, <1>2, <1>3 DEF IInv, HeightInv, UpInv
<1>5. TypeOK'
  BY <1>1, <1>3 DEF IInv, TypeOK
<1>6. MapOK' /\ RoomInv' /\ CacheSound' /\ CountInv' /\ PushInv'
  BY <1>1 DEF IInv, MapOK, RoomInv, CacheSound, Seeded, CountInv, PushInv
<1>7. HeightInv' /\ NoAliasing'
  BY <1>1, <1>3 DEF IInv, HeightInv, NoAliasing
<1>8. QED
  BY <1>4, <1>5, <1>6, <1>7 DEF IInv

\* Every frame on the stack passes the validity check, so none is dropped.
LEMMA RequestIInv ==
    IInv /\ pmm_request_page =>
        /\ IInv'
        /\ \E p \in OnStack : OnStack' = OnStack \ {p} /\ held' = held \cup {p}
<1> SUFFICES ASSUME IInv, pmm_request_page
             PROVE  /\ IInv'
                    /\ \E p \in OnStack : /\ OnStack' = OnStack \ {p}
                                          /\ held' = held \cup {p}
  OBVIOUS
<1> DEFINE p == stack[idx]
<1>1. /\ phase = "up" /\ idx > 0 /\ idx \in Nat /\ stack \in Seq(Page)
      /\ stack' = SubSeq(stack, 1, idx - 1)
      /\ OnStack \cup held = Usable(entries)
      /\ UNCHANGED <<entries, phase, i, j, free_pages, pages, capacity, max, cache>>
  BY LenProperties DEF IInv, TypeOK, UpInv, pmm_request_page, idx, Popped
<1>2. p \in OnStack /\ OnStack \subseteq Page
  BY <1>1, ElementOfSeq DEF OnStack, idx
<1>3. is_page_valid(p)
  BY <1>1, <1>2 DEF is_page_valid, Usable, UsableAmong
<1>4. held' = held \cup {p}
  BY <1>3 DEF pmm_request_page
<1>5. /\ stack' \in Seq(Page)
      /\ idx' = idx - 1
      /\ OnStack' = OnStack \ {p}
      /\ \A k \in 1 .. idx' : stack'[k] = stack[k]
  BY <1>1, PopRemoves DEF IInv, NoAliasing, OnStack, idx
<1> HIDE DEF p
<1>6. TypeOK'
  BY <1>1, <1>2, <1>4, <1>5 DEF IInv, TypeOK
<1>7. UpInv'
  BY <1>1, <1>2, <1>4, <1>5 DEF IInv, UpInv
<1>8. HeightInv'
  <2>1. Cardinality(OnStack \ {p}) = Cardinality(OnStack) - 1
    BY <1>2, PagesFinite, FS_RemoveElement
  <2>2. QED BY <1>5, <2>1 DEF IInv, HeightInv
<1>9. NoAliasing'
  <2>1. \A k, l \in 1 .. idx' : stack'[k] = stack'[l] => k = l
    BY <1>1, <1>5 DEF IInv, NoAliasing
  <2>2. QED BY <1>4, <1>5, <2>1 DEF IInv, NoAliasing
<1>10. MapOK' /\ RoomInv' /\ CacheSound' /\ CountInv' /\ PushInv'
  BY <1>1 DEF IInv, MapOK, RoomInv, CacheSound, Seeded, CountInv, PushInv
<1>11. QED
  BY <1>2, <1>4, <1>5, <1>6, <1>7, <1>8, <1>9, <1>10 DEF IInv

\* A held frame goes back on the stack; any other address is refused.
LEMMA ReleaseIInv ==
    IInv /\ ReleaseAny =>
        /\ IInv'
        /\ \/ \E p \in held : OnStack' = OnStack \cup {p} /\ held' = held \ {p}
           \/ OnStack' = OnStack /\ held' = held
<1> SUFFICES ASSUME IInv, NEW p \in Page, p \in held \/ ~is_page_valid(p), pmm_release_page(p)
             PROVE  /\ IInv'
                    /\ \/ p \in held /\ OnStack' = OnStack \cup {p} /\ held' = held \ {p}
                       \/ OnStack' = OnStack /\ held' = held
  BY DEF ReleaseAny
<1>1. /\ phase = "up" /\ idx \in Nat /\ stack \in Seq(Page)
      /\ OnStack \cup held = Usable(entries) /\ max = Cardinality(Usable(entries))
      /\ held' = held \ {p}
      /\ UNCHANGED <<entries, phase, i, j, free_pages, pages, capacity, max>>
  BY LenProperties DEF IInv, TypeOK, UpInv, pmm_release_page, idx
<1>2. OnStack \subseteq Page /\ Usable(entries) \subseteq Page
  BY <1>1, ElementOfSeq DEF OnStack, idx, Usable, UsableAmong
<1>3. MapOK' /\ RoomInv' /\ CountInv' /\ PushInv'
  BY SMTT(60), <1>1 DEF IInv, MapOK, RoomInv, CountInv, PushInv
<1>4. CASE p \in held
  <2>1. p \in Usable(entries) /\ p # NULL /\ is_page_valid(p)
    BY <1>1, <1>4 DEF IInv, MapOK, Usable, UsableAmong, is_page_valid
  <2> p \notin OnStack
    BY <1>4 DEF IInv, NoAliasing
  <2>2. idx < max
    <3>1. Cardinality(OnStack \cup {p}) = Cardinality(OnStack) + 1
      BY <1>2, PagesFinite, FS_AddElement
    <3>2. OnStack \cup {p} \subseteq Usable(entries)
      BY <1>1, <2>1
    <3>3. Cardinality(OnStack \cup {p}) <= Cardinality(Usable(entries))
      BY <1>2, <3>2, PagesFinite, FS_Subset
    <3>4. Cardinality(Usable(entries)) \in Nat
      BY <1>2, PagesFinite
    <3>5. QED BY <1>1, <3>1, <3>3, <3>4 DEF IInv, HeightInv
  <2>3. cache' = [cache EXCEPT ![Hash[p]] = p] /\ stack' = Append(stack, p)
    BY <2>1, <2>2 DEF pmm_release_page, HasRoom
  <2>4. /\ stack' \in Seq(Page)
        /\ idx' = idx + 1
        /\ OnStack' = OnStack \cup {p}
        /\ \A k \in 1 .. idx : stack'[k] = stack[k]
        /\ stack'[idx + 1] = p
    BY <1>1, <2>3, PushAdds DEF idx, OnStack
  <2>5. Hash[p] \in 0 .. CacheSize - 1 /\ cache \in [0 .. CacheSize - 1 -> Page]
    BY SizeAssumption DEF IInv, TypeOK
  <2>6. TypeOK'
    BY <1>1, <2>3, <2>4, <2>5 DEF IInv, TypeOK
  <2>7. CacheSound'
    <3>1. p \notin pages .. pages + ArraySize(free_pages) - 1
      BY <1>1, <2>1 DEF IInv, RoomInv
    <3>2. QED BY <1>1, <2>1, <2>3, <2>5, <3>1 DEF IInv, CacheSound, Seeded
  <2>8. UpInv'
    BY <1>1, <1>4, <2>4 DEF IInv, UpInv
  <2>9. HeightInv'
    <3>1. Cardinality(OnStack \cup {p}) = Cardinality(OnStack) + 1
      BY <1>2, PagesFinite, FS_AddElement
    <3>2. QED BY <1>1, <2>4, <3>1 DEF IInv, HeightInv
  <2>10. NoAliasing'
    <3>1. \A k, l \in 1 .. idx : stack[k] = stack[l] => k = l
      BY DEF IInv, NoAliasing
    <3>2. \A k \in 1 .. idx : stack'[k] # p
      BY <2>4 DEF OnStack
    <3>3. \A k, l \in 1 .. idx' : stack'[k] = stack'[l] => k = l
      BY <1>1, <2>4, <3>1, <3>2
    <3>4. QED BY <1>1, <2>4, <3>3 DEF IInv, NoAliasing
  <2>11. QED
    BY <1>1, <1>3, <1>4, <2>4, <2>6, <2>7, <2>8, <2>9, <2>10 DEF IInv
<1>5. CASE p \notin held
  <2>3. UNCHANGED <<cache, stack, held>>
    BY <1>1, <1>5 DEF pmm_release_page
  <2>4. OnStack' = OnStack /\ idx' = idx
    BY <2>3 DEF OnStack, idx
  <2>5. TypeOK' /\ CacheSound' /\ UpInv' /\ HeightInv' /\ NoAliasing'
    BY <1>1, <2>3, <2>4
    DEF IInv, TypeOK, CacheSound, Seeded, UpInv, HeightInv, NoAliasing
  <2>6. QED BY <1>3, <2>3, <2>4, <2>5 DEF IInv
<1>6. QED BY <1>4, <1>5

\* A step that changes nothing preserves the invariant.
LEMMA StutterIInv == IInv /\ UNCHANGED vars => IInv'
<1> SUFFICES ASSUME IInv, UNCHANGED vars PROVE IInv'
  OBVIOUS
<1> USE DEF IInv, vars
<1>1. TypeOK' /\ MapOK' /\ CountInv'
  BY DEF TypeOK, MapOK, CountInv
<1>2. PushInv' /\ UpInv' /\ HeightInv' /\ NoAliasing'
  <2>1. idx' = idx /\ OnStack' = OnStack /\ Pushed' = Pushed
    BY DEF OnStack, idx, Pushed
  <2>2. PushInv' /\ UpInv'
    BY <2>1 DEF PushInv, UpInv
  <2>3. HeightInv' /\ NoAliasing'
    BY <2>1 DEF HeightInv, NoAliasing
  <2>4. QED BY <2>2, <2>3
<1>3. RoomInv' /\ CacheSound'
  BY DEF RoomInv, CacheSound, Seeded
<1>4. QED BY <1>1, <1>2, <1>3

\* Every step preserves the invariant.
LEMMA NextIInv == IInv /\ [Next]_vars => IInv'
BY CountEntryIInv, CarveIInv, PushFrameIInv, NextEntryIInv, InitDoneIInv,
   RequestIInv, ReleaseIInv, StutterIInv
DEF Next, Boot

\* The invariant holds in every reachable state.
LEMMA Inductive == Spec => []IInv
BY InitIInv, NextIInv, PTL DEF Spec

-----------------------------------------------------------------------------
(* The theorems.                                                           *)

\* The type invariant of pmm.c's stack, cache and loop variables.
THEOREM PmmTypeCorrect == Spec => []TypeOK
BY Inductive, PTL DEF IInv

\* pmm_init and pmm_release_page stay inside the array carved for the stack.
THEOREM PmmArrayNeverOverrun == Spec => []ArrayNeverOverrun
<1>1. IInv => ArrayNeverOverrun
  <2> SUFFICES ASSUME IInv, phase # "count" PROVE idx <= capacity
    BY DEF ArrayNeverOverrun
  <2>1. OnStack \subseteq Usable(entries)
    <3>1. CASE phase = "up"
      BY <3>1 DEF IInv, UpInv
    <3>2. CASE phase = "push"
      <4>1. entries \in Seq(Entry) /\ i \in 1 .. Len(entries) + 1 /\ j \in Nat
        BY DEF IInv, TypeOK
      <4>2. Len(entries) \in Nat /\ DOMAIN entries = 1 .. Len(entries)
        BY <4>1, LenProperties
      <4>3. UsableAmong(entries, 1 .. i - 1) \subseteq Usable(entries)
        BY <4>1, <4>2 DEF UsableAmong, Usable
      <4>4. Pushed \subseteq Usable(entries)
        <5> SUFFICES ASSUME i <= Len(entries), entries[i].type = "usable"
                     PROVE  entries[i].base .. entries[i].base + j - 1
                              \subseteq Usable(entries)
          BY DEF Pushed
        <5>1. entries[i] \in Entry
          BY <4>1, <4>2, ElementOfSeq
        <5>2. entries[i].base .. entries[i].base + j - 1 \subseteq Frames(entries[i])
          BY SMTT(60), <3>2, <4>1, <5>1 DEF IInv, PushInv, Frames, Entry
        <5>3. QED BY <4>1, <4>2, <5>2 DEF IInv, MapOK, Usable, UsableAmong
      <4>5. QED BY <3>2, <4>3, <4>4 DEF IInv, PushInv
    <3>3. QED BY <3>1, <3>2 DEF IInv, TypeOK
  <2>2. Usable(entries) \subseteq Page
    BY DEF Usable, UsableAmong
  <2>3. /\ Cardinality(OnStack) <= Cardinality(Usable(entries))
        /\ Cardinality(OnStack) \in Nat /\ Cardinality(Usable(entries)) \in Nat
    BY <2>1, <2>2, PagesFinite, FS_Subset
  <2>4. QED BY <2>3 DEF IInv, HeightInv, RoomInv, TypeOK
<1>2. QED BY <1>1, Inductive, PTL

\* pmm_request_page never hands out a frame somebody holds.
THEOREM PmmNoAliasing == Spec => []NoAliasing
BY Inductive, PTL DEF IInv

\* No request or release loses a frame or invents one.
THEOREM PmmConservation == Spec => []Conservation
<1>1. IInv => Conservation
  BY DEF IInv, UpInv, Conservation
<1>2. QED BY <1>1, Inductive, PTL

\* A hit in valid_page_cache is a usable frame, or one that pmm_init seeded past
\* the end of the entry it carved.
THEOREM PmmCacheSound == Spec => []CacheSound
BY Inductive, PTL DEF IInv

\* pmm.c implements the pool of frames.
THEOREM PmmRefinesPool == Spec => PoolRefinement
<1>1. Init => Pool!PoolInit
  <2> SUFFICES ASSUME Init PROVE Pool!PoolInit
    OBVIOUS
  <2>1. OnStack = {}
    BY EmptySeq DEF Init, OnStack, idx
  <2>2. QED BY <2>1 DEF Init, Pool!PoolInit
<1>2. IInv /\ [Next]_vars => [Pool!PoolNext]_(Pool!poolVars)
  <2> SUFFICES ASSUME IInv, [Next]_vars
               PROVE  Pool!PoolNext \/ UNCHANGED Pool!poolVars
    OBVIOUS
  <2> USE DEF Pool!poolVars
  <2>1. CASE CountEntry \/ NextEntry \/ UNCHANGED vars
    BY <2>1 DEF CountEntry, NextEntry, vars, OnStack, idx
  <2>2. CASE Carve
    BY <2>2 DEF Carve, OnStack, idx
  <2>3. CASE PushFrame
    <3>1. PICK p \in Page : p \notin OnStack /\ OnStack' = OnStack \cup {p}
      BY <2>3, PushFrameIInv
    <3>2. phase = "push" /\ held = {} /\ UNCHANGED <<phase, held>>
      BY <2>3 DEF PushFrame, IInv, PushInv
    <3>3. Pool!Donate(p)
      BY <3>1, <3>2 DEF Pool!Donate
    <3>4. QED BY <3>3 DEF Pool!PoolNext
  <2>4. CASE InitDone
    <3>1. Pool!Open
      BY <2>4 DEF InitDone, Pool!Open, OnStack, idx
    <3>2. QED BY <3>1 DEF Pool!PoolNext
  <2>5. CASE pmm_request_page
    <3>1. PICK p \in OnStack : OnStack' = OnStack \ {p} /\ held' = held \cup {p}
      BY <2>5, RequestIInv
    <3>2. p \in Page
      BY <3>1, ElementOfSeq DEF IInv, TypeOK, OnStack, idx
    <3>3. Pool!Take(p)
      BY <2>5, <3>1 DEF pmm_request_page, Pool!Take
    <3>4. QED BY <3>2, <3>3 DEF Pool!PoolNext
  <2>6. CASE ReleaseAny
    <3>1. phase = "up" /\ phase' = "up"
      BY <2>6 DEF ReleaseAny, pmm_release_page
    <3>2. CASE \E p \in held : OnStack' = OnStack \cup {p} /\ held' = held \ {p}
      <4>1. PICK p \in held : OnStack' = OnStack \cup {p} /\ held' = held \ {p}
        BY <3>2
      <4>2. p \in Page
        BY DEF IInv, TypeOK
      <4>3. Pool!Return(p)
        BY <3>1, <4>1 DEF Pool!Return
      <4>4. QED BY <4>2, <4>3 DEF Pool!PoolNext
    <3>3. CASE OnStack' = OnStack /\ held' = held
      BY <3>1, <3>3
    <3>4. QED BY <2>6, <3>2, <3>3, ReleaseIInv
  <2>7. QED
    BY <2>1, <2>2, <2>3, <2>4, <2>5, <2>6 DEF Next, Boot
<1>3. QED
  BY <1>1, <1>2, Inductive, PTL DEF Spec, PoolRefinement, Pool!PoolSpec
=============================================================================
