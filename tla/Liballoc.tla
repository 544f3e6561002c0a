------------------------------ MODULE Liballoc ------------------------------
(***************************************************************************)
(* The kernel heap, mm/liballoc/liballoc.c: a list of major blocks of      *)
(* whole pages, each with a list of minor blocks, first fit from the major *)
(* block l_bestBet remembers as the roomiest.                              *)
(*                                                                         *)
(* Sizes and offsets are in arbitrary units, offsets relative to their     *)
(* major block.  That the ranges of two major blocks are apart is assumed: *)
(* liballoc_alloc is vma_alloc, which does not give it, since it adds a    *)
(* number of pages to an address (the run vma_overlap); so what is shown   *)
(* is what this code does with ranges as it expects them.  Callers free    *)
(* what they allocated and free it once, so the magic number of a block    *)
(* that is freed is right.  Left out, because nothing reads them: l_inuse, *)
(* l_allocated, the counters of warnings.  The lock is never contended:    *)
(* the boot thread uses the heap with interrupts on, but only before the   *)
(* first process runs, and no handler uses it then; after that only system *)
(* calls and faults of processes use it, with interrupts off.              *)
(***************************************************************************)
EXTENDS Integers, Sequences, FiniteSetsExt

CONSTANTS MajorSize, MinorSize,     \* sizes of the two headers
          ALIGNMENT, ALIGN_INFO,
          PageSize,                 \* l_pageSize
          PageCount,                \* l_pageCount
          UINT_MAX,                 \* of unsigned int, which sizes are kept in
          MaxPages,                 \* pages liballoc_alloc has to give
          Requests                  \* sizes callers ask for

ASSUME LiballocAssumption ==
    /\ {MajorSize, MinorSize, PageSize, PageCount, MaxPages} \subseteq Nat \ {0}
    /\ ALIGNMENT \in Nat \ {0} /\ ALIGN_INFO \in Nat
    /\ Requests \subseteq Nat \ {0}

\* No size wraps: below 4 GiB with the headers, rounded up to pages.
ASSUME SizesAssumption ==
    /\ UINT_MAX \in Nat /\ PageCount * PageSize <= UINT_MAX
    /\ \A size \in Requests \cup {0} :
          size + ALIGNMENT + ALIGN_INFO + MajorSize + MinorSize + PageSize <= UINT_MAX

VARIABLES
    heap,       \* the list from l_memRoot: [id, pages, usage, minors], minors
                \* the list of its [off, size, req_size]
    best,       \* l_bestBet: the id of a major block, or NULL
    faulted     \* TRUE after a write through a NULL pointer

vars == <<heap, best, faulted>>

NULL == 0
Need(size) == size + MinorSize
Bytes(maj) == maj.pages * PageSize
Room(maj) == Bytes(maj) - maj.usage
EndOf(min) == min.off + MinorSize + min.size

Position(h, id) == CHOOSE i \in DOMAIN h : h[i].id = id

-----------------------------------------------------------------------------
(* ALIGN and UNALIGN: the pointer a caller gets, for a minor block at off. *)

Diff(data) == (ALIGNMENT - ((data + ALIGN_INFO) % ALIGNMENT)) % ALIGNMENT
Pointer(min) == LET data == min.off + MinorSize IN data + ALIGN_INFO + Diff(data)
UNALIGN(p, diff) == IF diff < ALIGNMENT + ALIGN_INFO THEN p - diff ELSE p

-----------------------------------------------------------------------------
(* The lists, updated functionally: s = [heap, best].                      *)

\* allocate_new_page, without the limit of liballoc_alloc.
PagesFor(size) == LET st == (size + MajorSize + MinorSize) % (UINT_MAX + 1)
                      pages == (st + PageSize - 1) \div PageSize IN
                  IF pages < PageCount THEN PageCount ELSE pages

Total(h) == MapThenSumSet(LAMBDA i : h[i].pages, DOMAIN h)
Available(h, size) == Total(h) + PagesFor(size) <= MaxPages

\* The new block has an id, and so a range, of its own (see above).
NewMajor(h, size) ==
    [id |-> Min((1 .. Len(h) + 1) \ {h[i].id : i \in DOMAIN h}),
     pages |-> PagesFor(size), usage |-> MajorSize, minors |-> <<>>]

\* Cases 2 to 4: how many minor blocks precede the first gap that is large
\* enough, or -1.
GapStart(maj, k) == IF k = 0 THEN MajorSize ELSE EndOf(maj.minors[k])
GapToEnd(maj, k) == Bytes(maj)
GapEnd(maj, k) == IF k = Len(maj.minors) THEN Bytes(maj) ELSE maj.minors[k + 1].off
Gaps(maj, size) == {k \in 0 .. Len(maj.minors) : GapEnd(maj, k) - GapStart(maj, k) >= Need(size)}
Slot(maj, size) == IF Gaps(maj, size) = {} THEN -1 ELSE Min(Gaps(maj, size))

\* Case 1 passes over a block without room, case 5 over a fragmented one.
Takes(maj, size) == Room(maj) >= Need(size) /\ Slot(maj, size) >= 0

\* The order of the search: from the best bet to the end, then from the root.
Order(s, size) ==
    LET n == Len(s.heap)
        All == [i \in 1 .. n |-> i] IN
    IF s.best = NULL THEN All
    ELSE LET b == Position(s.heap, s.best) IN
         IF Room(s.heap[b]) > Need(size) THEN SubSeq(All, b, n) \o All ELSE All

\* The best bet after the blocks of h at the given positions were looked at: the
\* first of the roomiest of them, if it has more room than the bet so far.
Bet(s, h, visited) ==
    LET known == IF s.best = NULL THEN 0 ELSE Room(h[Position(h, s.best)])
        roomiest == {j \in DOMAIN visited :
                        /\ Room(h[visited[j]]) > known
                        /\ \A l \in DOMAIN visited : Room(h[visited[l]]) <= Room(h[visited[j]])} IN
    IF roomiest = {} THEN s.best ELSE h[visited[Min(roomiest)]].id

\* The links of a list when a block gets position i, and when it leaves it.
Linked(list, i, b) == SubSeq(list, 1, i - 1) \o <<b>> \o SubSeq(list, i, Len(list))
Unlinked(list, i) == SubSeq(list, 1, i - 1) \o SubSeq(list, i + 1, Len(list))

UsageWithoutHeader(maj, size) == maj.usage + size
UsageWith(maj, size) == maj.usage + Need(size)

\* The block at position i of h takes a minor block of this size.
Placed(h, i, size, req_size) ==
    LET maj == h[i]
        k == Slot(maj, size) IN
    [h EXCEPT ![i] =
        [maj EXCEPT !.minors = Linked(@, k + 1, [off |-> GapStart(maj, k), size |-> size, req_size |-> req_size]),
                    !.usage = UsageWith(maj, size)]]

PaddedShort(req_size) == req_size + ALIGN_INFO
Padded(req_size) == req_size + ALIGNMENT + ALIGN_INFO

\* malloc: the resulting lists, and where the new block is; at = <<>> is NULL.
malloc(s, req_size) ==
    LET size == Padded(req_size)
        Fail == [heap |-> s.heap, best |-> s.best, at |-> <<>>]
        \* an empty heap gets its first major block
        h == IF s.heap = <<>> THEN <<NewMajor(<<>>, size)>> ELSE s.heap
        order == Order([s EXCEPT !.heap = h], size)
        fits == {j \in DOMAIN order : Takes(h[order[j]], size)}
        bet == Bet(s, h, order)
        grown == Append(h, NewMajor(h, size))
        \* after case 5 the new block is looked at from the top of the loop
        case5 == Room(h[Len(h)]) >= Need(size)
        Result(g, i, b) == [heap |-> Placed(g, i, size, req_size), best |-> b,
                            at |-> <<g[i].id, GapStart(g[i], Slot(g[i], size))>>] IN
    IF s.heap = <<>> /\ ~Available(<<>>, size) THEN Fail
    ELSE IF fits # {}
    THEN Result(h, order[Min(fits)], Bet(s, h, SubSeq(order, 1, Min(fits))))
    ELSE IF ~Available(h, size) THEN [Fail EXCEPT !.best = bet]
    ELSE Result(grown, Len(grown),
                IF case5 THEN Bet([s EXCEPT !.best = bet], grown, <<Len(grown)>>) ELSE bet)

BestKept(b, id) == b
BestCleared(b, id) == IF b = id THEN NULL ELSE b

Emptied(maj) == maj.minors = <<>>

\* free, of the minor block with header at offset off of major block id.
free(s, id, off) ==
    LET i == Position(s.heap, id)
        maj == s.heap[i]
        k == CHOOSE j \in DOMAIN maj.minors : maj.minors[j].off = off
        left == [maj EXCEPT !.minors = Unlinked(@, k), !.usage = @ - Need(maj.minors[k].size)]
        BestRoom == IF s.best = id THEN Room(left) ELSE Room(s.heap[Position(s.heap, s.best)]) IN
    IF Emptied(left)
    THEN [heap |-> Unlinked(s.heap, i), best |-> BestCleared(s.best, id)]
    ELSE [heap |-> [s.heap EXCEPT ![i] = left],
          best |-> IF s.best # NULL /\ Room(left) > BestRoom THEN id ELSE s.best]

-----------------------------------------------------------------------------
State == [heap |-> heap, best |-> best]
Becomes(s) == heap' = s.heap /\ best' = s.best

\* The blocks callers hold.
Held == UNION {{<<heap[i].id, heap[i].minors[k].off>> : k \in DOMAIN heap[i].minors} : i \in DOMAIN heap}

Init == heap = <<>> /\ best = NULL /\ faulted = FALSE

kmalloc(size) == Becomes(malloc(State, size)) /\ UNCHANGED faulted

kfree(id, off) == Becomes(free(State, id, off)) /\ UNCHANGED faulted

\* calloc clears what malloc returned, NULL included.
kcalloc(size) ==
    LET r == malloc(State, size) IN
    /\ Becomes(r)
    /\ faulted' = (r.at = <<>>)

MinorAt(id, off) ==
    LET minors == heap[Position(heap, id)].minors IN
    minors[CHOOSE k \in DOMAIN minors : minors[k].off = off]

Resized(h, i, off, size) ==
    LET minors == h[i].minors IN
    [h EXCEPT ![i] = [h[i] EXCEPT !.minors =
        [k \in DOMAIN minors |->
            IF minors[k].off = off THEN [minors[k] EXCEPT !.req_size = size] ELSE minors[k]]]]

\* realloc: shrinking changes only req_size; growing moves the block, copying
\* to what malloc returned, NULL included.
krealloc(id, off, size) ==
    LET min == MinorAt(id, off)
        r == malloc(State, size) IN
    IF size = 0 THEN kfree(id, off)
    ELSE IF min.req_size >= size
    THEN /\ heap' = Resized(heap, Position(heap, id), off, size)
         /\ UNCHANGED <<best, faulted>>
    ELSE IF r.at = <<>>
    THEN heap' = heap /\ best' = r.best /\ faulted' = TRUE
    ELSE Becomes(free([heap |-> r.heap, best |-> r.best], id, off)) /\ UNCHANGED faulted

Next ==
    /\ ~faulted
    /\ \/ \E size \in Requests : kmalloc(size) \/ kcalloc(size)
       \/ \E b \in Held : kfree(b[1], b[2])
       \/ \E b \in Held, size \in Requests \cup {0} : krealloc(b[1], b[2], size)

Spec == Init /\ [][Next]_vars

-----------------------------------------------------------------------------
\* The minor blocks of a major block lie in it, in the order of the list, and
\* do not overlap, whatever is allocated, resized and freed in whatever order.
BlocksDisjoint ==
    \A i \in DOMAIN heap :
        LET maj == heap[i] IN
        \A k \in DOMAIN maj.minors :
            /\ maj.minors[k].off >= MajorSize
            /\ EndOf(maj.minors[k]) <= Bytes(maj)
            /\ \A l \in 1 .. k - 1 : EndOf(maj.minors[l]) <= maj.minors[k].off

\* What minor blocks take together, summed up along the list
Taken(minors) ==
    LET upto[k \in 0 .. Len(minors)] ==
            IF k = 0 THEN 0 ELSE upto[k - 1] + Need(minors[k].size) IN
    upto[Len(minors)]

\* usage is what the headers and the blocks take: case 1 passes over a major
\* block only if no gap could be large enough, and Room never underflows.
UsageExact == \A i \in DOMAIN heap : heap[i].usage = MajorSize + Taken(heap[i].minors)

\* l_bestBet is a block of the list: it is dropped when the block is freed.
BestLive == best # NULL => \E i \in DOMAIN heap : heap[i].id = best

\* What a caller gets is aligned and lies, with all it asked for, in its block,
\* behind the byte that records the shift; and free finds the block from it.
PointerInside ==
    \A i \in DOMAIN heap : \A k \in DOMAIN heap[i].minors :
        LET min == heap[i].minors[k]
            p == Pointer(min) IN
        /\ p % ALIGNMENT = 0
        /\ p - ALIGN_INFO >= min.off + MinorSize
        /\ p + min.req_size <= EndOf(min)
        /\ UNALIGN(p, p - (min.off + MinorSize)) = min.off + MinorSize

=============================================================================
