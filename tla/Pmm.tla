-------------------------------- MODULE Pmm --------------------------------
(***************************************************************************)
(* The physical memory manager, mm/pmm.c: a stack of free page frames      *)
(* built from the bootloader's memory map, and a cache of frames known to  *)
(* be valid that is probed before the map is searched.                     *)
(*                                                                         *)
(* Addresses are counted in frames (the map the bootloader passes is page  *)
(* aligned), so a frame is a natural number and frame 0 is NULL.  The      *)
(* loops of pmm_init are steps of their own: each reads what an earlier    *)
(* one accumulated.  Left out, because nothing reads them: access_count,   *)
(* cache_head, and secondary_cache, which is never filled; a lookup in it  *)
(* at an index past its end can only make update_cache_access search the   *)
(* 64 zeroed entries for a non-NULL frame, which finds none.               *)
(*                                                                         *)
(* No interrupt handler calls the manager, and the first timer tick comes  *)
(* after the last call of the boot thread: an operation is one step.       *)
(***************************************************************************)
EXTENDS Integers, Sequences, FiniteSets

CONSTANTS MemMaps,      \* memory maps the bootloader may pass: sequences of
                        \* [type, base, length] records, in frames
          SlotsPerPage, \* stack slots in one frame: PAGE_SIZE / 8
          CacheSize,    \* CACHE_SIZE
          Hash,         \* hash_page: frame -> cache index
          MaxFrame      \* no usable entry, and no seed of the cache, reaches
                        \* beyond this frame

NULL == 0
Page == 0 .. MaxFrame

EntryType == {"usable", "reclaimable", "reserved"}
Entry == [type : EntryType, base : Nat, length : Nat]

Frames(e) == e.base .. e.base + e.length - 1

\* The frames of the usable entries among those in I.
UsableAmong(entries, I) ==
    {p \in Page : \E i \in I : entries[i].type = "usable" /\ p \in Frames(entries[i])}

Usable(entries) == UsableAmong(entries, DOMAIN entries)

ArraySizeFloor(free_pages) == free_pages \div SlotsPerPage

\* array_size, in frames: ALIGN_UP(free_pages * 8, PAGE_SIZE).
ArraySize(free_pages) == (free_pages + SlotsPerPage - 1) \div SlotsPerPage

\* The first entry the stack's array fits in.
FitsArray(entries, i, free_pages) ==
    /\ entries[i].type = "usable"
    /\ entries[i].length >= ArraySize(free_pages)

\* min(CACHE_SIZE, free_pages): the number of cache slots pmm_init fills.
SeedCount(free_pages) == IF free_pages < CacheSize THEN free_pages ELSE CacheSize

-----------------------------------------------------------------------------
(* What the code takes for granted of the bootloader and of the machine.   *)

ASSUME SizeAssumption ==
    /\ SlotsPerPage \in Nat \ {0}
    /\ CacheSize \in Nat \ {0}
    /\ MaxFrame \in Nat
    /\ Hash \in [Page -> 0 .. CacheSize - 1]

\* Entries do not overlap, NULL is not RAM, and frame numbers go far enough
\* beyond the RAM for the cache to be seeded past the end of an entry.
ASSUME MapAssumption ==
    \A m \in MemMaps :
        /\ m \in Seq(Entry)
        /\ \A i \in DOMAIN m :
              m[i].type = "usable" =>
                  /\ Frames(m[i]) \subseteq Page \ {NULL}
                  /\ m[i].base + m[i].length + CacheSize <= MaxFrame
        /\ \A i, j \in DOMAIN m :
              i # j => Frames(m[i]) \cap Frames(m[j]) = {}

\* Some usable entry holds the stack's array; without one the array is at
\* NULL.
ASSUME FitAssumption ==
    \A m \in MemMaps : \E i \in DOMAIN m : FitsArray(m, i, Cardinality(Usable(m)))

-----------------------------------------------------------------------------
VARIABLES entries,      \* memmap->entries; pmm_init shrinks one of them
          phase,        \* the loop of pmm_init that runs, then "up"
          i,            \* its outer index
          j,            \* its inner index
          free_pages,   \* the local of that name
          pages,        \* stack.pages: the first frame of the stack's array
          capacity,     \* stack slots that the array has room for
          stack,        \* stack.pages[0 .. idx - 1]
          max,          \* stack.max
          cache,        \* valid_page_cache: frame, or NULL when not is_valid
          held          \* frames requested and not yet released

vars == <<entries, phase, i, j, free_pages, pages, capacity, stack, max, cache, held>>

idx == Len(stack)
OnStack == {stack[k] : k \in 1 .. idx}

Init ==
    /\ entries \in MemMaps
    /\ phase = "count"
    /\ i = 1 /\ j = 0
    /\ free_pages = 0 /\ pages = NULL /\ capacity = 0 /\ max = 0
    /\ stack = <<>>
    /\ cache = [c \in 0 .. CacheSize - 1 |-> NULL]
    /\ held = {}

-----------------------------------------------------------------------------
(* pmm_init                                                                *)

\* The first loop: one usable entry's frames are added to free_pages.
CountEntry ==
    /\ phase = "count" /\ i <= Len(entries)
    /\ free_pages' = IF entries[i].type = "usable"
                     THEN free_pages + entries[i].length ELSE free_pages
    /\ i' = i + 1
    /\ UNCHANGED <<entries, phase, j, pages, capacity, stack, max, cache, held>>

\* The second loop: the first entry with enough room gives up the frames of
\* the stack's array, and the cache is filled with the frames that follow,
\* whether or not the entry has that many left.
Carve ==
    /\ phase = "count" /\ i > Len(entries)
    /\ \E f \in DOMAIN entries :
        /\ FitsArray(entries, f, free_pages)
        /\ \A k \in 1 .. f - 1 : ~FitsArray(entries, k, free_pages)
        /\ LET size == ArraySize(free_pages)
               base == entries[f].base + size IN
           /\ pages' = entries[f].base
           /\ entries' = [entries EXCEPT ![f].base = base, ![f].length = @ - size]
           /\ capacity' = size * SlotsPerPage
           /\ cache' = [c \in 0 .. CacheSize - 1 |->
                           IF c < SeedCount(free_pages) THEN base + c ELSE cache[c]]
    /\ phase' = "push" /\ i' = 1 /\ j' = 0
    /\ UNCHANGED <<free_pages, stack, max, held>>

\* There is another frame of entry i to push.
MoreFrames == entries[i].type = "usable" /\ j < entries[i].length

\* The third loop: every frame of every usable entry is pushed.
PushFrame ==
    /\ phase = "push" /\ i <= Len(entries)
    /\ MoreFrames
    /\ stack' = Append(stack, entries[i].base + j)
    /\ j' = j + 1
    /\ UNCHANGED <<entries, phase, i, free_pages, pages, capacity, max, cache, held>>

NextEntry ==
    /\ phase = "push" /\ i <= Len(entries)
    /\ ~MoreFrames
    /\ i' = i + 1 /\ j' = 0
    /\ UNCHANGED <<entries, phase, free_pages, pages, capacity, stack, max, cache, held>>

InitDone ==
    /\ phase = "push" /\ i > Len(entries)
    /\ max' = idx
    /\ phase' = "up"
    /\ UNCHANGED <<entries, i, j, free_pages, pages, capacity, stack, cache, held>>

-----------------------------------------------------------------------------
(* The operations the rest of the kernel calls.                            *)

\* `reclaimed` stays FALSE: the one call of pmm_vmm_cleanup is commented out.
is_page_valid(p) ==
    \/ p # NULL /\ cache[Hash[p]] = p
    \/ \E e \in DOMAIN entries : entries[e].type = "usable" /\ p \in Frames(entries[e])

\* --stack.idx
NotPopped == stack
Popped == SubSeq(stack, 1, idx - 1)

\* A frame that is on the stack and not valid would be lost: popped, refused.
pmm_request_page ==
    /\ phase = "up" /\ idx > 0
    /\ stack' = Popped
    /\ held' = IF is_page_valid(stack[idx]) THEN held \cup {stack[idx]} ELSE held
    /\ UNCHANGED <<entries, phase, i, j, free_pages, pages, capacity, max, cache>>

HasRoomOffByOne == idx + 1 < max
HasRoom == idx < max

CachedFirst(p) ==
    /\ phase = "up"
    /\ held' = held \ {p}
    /\ cache' = IF p # NULL THEN [cache EXCEPT ![Hash[p]] = p] ELSE cache
    /\ stack' = IF p # NULL /\ is_page_valid(p) /\ HasRoom THEN Append(stack, p) ELSE stack
    /\ UNCHANGED <<entries, phase, i, j, free_pages, pages, capacity, max>>

\* A release of NULL, of a frame that is not valid, or one that would push
\* beyond stack.max, returns early; the caller has given the frame up anyway.
pmm_release_page(p) ==
    /\ phase = "up"
    /\ held' = held \ {p}
    /\ IF p # NULL /\ is_page_valid(p) /\ HasRoom
       THEN /\ cache' = [cache EXCEPT ![Hash[p]] = p]
            /\ stack' = Append(stack, p)
       ELSE UNCHANGED <<cache, stack>>
    /\ UNCHANGED <<entries, phase, i, j, free_pages, pages, capacity, max>>

\* Every caller (vma.c, vmm.c) releases what pmm_request_page gave it; what
\* the manager refuses may be released too, NULL for one.  Nobody releases a
\* free frame, or one that only the cache takes for RAM.
ReleaseAny == \E p \in Page : (p \in held \/ ~is_page_valid(p)) /\ pmm_release_page(p)

Boot == CountEntry \/ Carve \/ PushFrame \/ NextEntry \/ InitDone

Next == Boot \/ pmm_request_page \/ ReleaseAny

Spec == Init /\ [][Next]_vars

-----------------------------------------------------------------------------
TypeOK ==
    /\ entries \in Seq(Entry)
    /\ phase \in {"count", "push", "up"}
    /\ i \in 1 .. Len(entries) + 1
    /\ j \in Nat
    /\ {free_pages, pages, capacity, max} \subseteq Nat
    /\ stack \in Seq(Page)
    /\ cache \in [0 .. CacheSize - 1 -> Page]
    /\ held \subseteq Page

\* pmm_init never pushes beyond the array it carved (the carved frames have
\* a slot for every frame counted before the carving), and no later release
\* does.
ArrayNeverOverrun == phase # "count" => idx <= capacity

\* A frame is on the stack at most once, and never while a client holds it:
\* pmm_request_page cannot hand one frame to two clients.
NoAliasing ==
    /\ \A k, l \in 1 .. idx : stack[k] = stack[l] => k = l
    /\ OnStack \cap held = {}

\* No frame is lost and none is gained: the validity check never rejects a
\* popped frame, and a client's release is never refused by the stack.max
\* test.
Conservation == phase = "up" => OnStack \cup held = Usable(entries)

\* The frames that pmm_init put into the cache unseen.
Seeded == {pages + ArraySize(free_pages) + c : c \in 0 .. SeedCount(free_pages) - 1}

\* The cache vouches for a frame that the memory map would reject, reserved
\* memory say, only if pmm_init seeded it past the end of the entry it carved:
\* it never does so for a frame of the stack's own array, and no release makes
\* it vouch for more.
CacheSound ==
    phase # "count" =>
        \A c \in 0 .. CacheSize - 1 :
            (cache[c] # NULL /\ Hash[cache[c]] = c) =>
                /\ cache[c] \in Usable(entries) \cup Seeded
                /\ cache[c] \notin pages .. pages + ArraySize(free_pages) - 1

\* The manager implements the pool of frames its clients count on.
Pool == INSTANCE PagePool WITH free <- OnStack, held <- held, up <- (phase = "up")
PoolRefinement == Pool!PoolSpec
=============================================================================
