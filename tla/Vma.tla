-------------------------------- MODULE Vma --------------------------------
(***************************************************************************)
(* Virtual memory areas, mm/vma.c, as the kernel heap uses them: a list of *)
(* regions of one page map.  A region's size is a number of pages and its  *)
(* start an address; PAGE_SIZE is a parameter, so that the two are told    *)
(* apart.  Frames come from the physical memory manager's stack; each      *)
(* region keeps its list node in a frame of its own.  The page tables'     *)
(* frames are left to Vmm.  A failed request for a list node, which the    *)
(* code cannot notice (see Vmm), is excluded; one for a page of the region *)
(* is not.                                                                 *)
(***************************************************************************)
EXTENDS Integers, Sequences, SequencesExt

CONSTANTS PAGE_SIZE, VMA_START,
          Frames,       \* frames the manager has to give, 1 .. Frames
          Sizes,        \* region sizes callers ask for, in pages
          MaxPage       \* bound on the page numbers regions get

ASSUME VmaAssumption ==
    /\ PAGE_SIZE \in Nat \ {0} /\ VMA_START \in Nat
    /\ Frames \in Nat /\ MaxPage \in Nat /\ Sizes \subseteq Nat \ {0}

NULL == 0
PageOf(addr) == addr \div PAGE_SIZE

VARIABLES
    root,       \* the list from ctx->root: [start, size, node]
    page,       \* the page map: page number -> frame, for the mapped pages
    free,       \* the manager's stack, its top at the front
    live        \* FALSE once the context is destroyed

vars == <<root, page, free, live>>

PageNumber == 0 .. MaxPage
Mapped == {v \in PageNumber : page[v] # NULL}

\* The pages of a region: vma_alloc maps start + i * PAGE_SIZE for i < size, and
\* the page of that address is the i-th after the page of start.
PageAt(r, i) == PageOf(r.start) + i
PagesOf(r) == PageAt(r, 0) .. PageAt(r, r.size - 1)

-----------------------------------------------------------------------------
\* vma_create_context takes a frame for the context and one for the root, a
\* region without pages that marks where regions start.
Init ==
    /\ root = <<[start |-> VMA_START, size |-> 0, node |-> 2]>>
    /\ page = [v \in PageNumber |-> NULL]
    /\ free = [k \in 1 .. Frames - 2 |-> k + 2]
    /\ live = TRUE

\* The loop stops at the first region behind which there is a hole, at the
\* latest at the last region.
Hole(k) == k < Len(root) => root[k].start + root[k].size < root[k + 1].start
FirstHole(k) == Hole(k) /\ \A j \in 1 .. k - 1 : ~Hole(j)

\* The pages are mapped one by one while frames last; the region stays in the
\* list, partly mapped, when they do not.
vma_alloc(size) ==
    \E k \in DOMAIN root :
        LET new == [start |-> root[k].start + root[k].size, size |-> size, node |-> Head(free)]
            given == IF size < Len(free) THEN size ELSE Len(free) - 1
            filled == PageAt(new, 0) .. PageAt(new, given - 1) IN
        /\ live /\ FirstHole(k)
        /\ free # <<>> /\ PageAt(new, size) <= MaxPage
        /\ root' = InsertAt(root, k + 1, new)
        /\ page' = [v \in PageNumber |->
                       IF v \in filled THEN free[2 + v - PageAt(new, 0)] ELSE page[v]]
        /\ free' = SubSeq(free, 2 + given, Len(free))
        /\ UNCHANGED live

\* vma_free releases the frames of the pages that are mapped, lowest page
\* first, unmaps them and releases the list node.
Descending(S) ==
    {f \in [1 .. Cardinality(S) -> S] : \A i, j \in DOMAIN f : i < j => f[i] > f[j]}

UnmapsNone(r) == {}
Unmaps(r) == PagesOf(r)
vma_free(ptr) ==
    \E k \in DOMAIN root :
        LET r == root[k] IN
        /\ live /\ r.start = ptr /\ \A j \in 1 .. k - 1 : root[j].start # ptr
        /\ page' = [v \in PageNumber |-> IF v \in Unmaps(r) THEN NULL ELSE page[v]]
        /\ \E order \in Descending(PagesOf(r) \cap Mapped) :
              free' = <<r.node>> \o [j \in DOMAIN order |-> page[order[j]]] \o free
        /\ root' = RemoveAt(root, k)
        /\ UNCHANGED live

\* vma_destroy_context releases the list nodes and the context, not the pages.
vma_destroy_context ==
    /\ live /\ root # <<>>
    /\ live' = FALSE
    /\ free' = <<1>> \o Reverse([k \in DOMAIN root |-> root[k].node]) \o free
    /\ root' = <<>>
    /\ UNCHANGED page

Next ==
    \/ \E size \in Sizes : vma_alloc(size)
    \/ \E k \in DOMAIN root : root[k].size > 0 /\ vma_free(root[k].start)
    \/ vma_destroy_context

Spec == Init /\ [][Next]_vars

-----------------------------------------------------------------------------
\* A frame is free, mapped at one page, or a list node, never two of these,
\* however regions were allocated and freed: none is released twice.
FramesOnce ==
    /\ IsInjective(free)
    /\ \A v \in Mapped : page[v] \notin Range(free)
    /\ \A v, w \in Mapped : page[v] = page[w] => v = w
    /\ \A k \in DOMAIN root : /\ root[k].node \notin Range(free)
                              /\ \A v \in Mapped : page[v] # root[k].node
                              /\ \A j \in DOMAIN root : root[j].node = root[k].node => j = k

\* (mm/vma.c, vma_dump_context) "size=%llu pages" with an end of start + size *
\* PAGE_SIZE: the pages of different regions are different pages.
RegionsDisjoint ==
    \A j, k \in DOMAIN root : j # k => PagesOf(root[j]) \cap PagesOf(root[k]) = {}

=============================================================================
