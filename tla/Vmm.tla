-------------------------------- MODULE Vmm --------------------------------
(***************************************************************************)
(* The virtual memory manager, mm/vmm.c: four levels of page tables in     *)
(* frames of the physical memory manager, the kernel's half of them shared *)
(* by all page maps, and the translations the CPU has cached.              *)
(*                                                                         *)
(* A virtual page is the tuple of its four indices.  An entry is the frame *)
(* it points to, or Absent; every caller sets VMM_PRESENT, and the other   *)
(* flags play no part in a walk.  The clients are vma.c, elf.c and         *)
(* scheduler.c: they request a frame and map it, unmap and release one, or *)
(* lend a process pages of the kernel's heap.                              *)
(*                                                                         *)
(* The heap is in the lower half of the kernel's page map, and programs    *)
(* are assumed to be linked in the lower half too: nothing checks that.    *)
(* What is written to a mapped page is left out.                           *)
(***************************************************************************)
EXTENDS Naturals, Sequences, Functions

CONSTANTS Index,        \* indices of a table, 0 .. 511
          KernelIndex,  \* those of the kernel's half of a PML4, 256 .. 511
          Virt,         \* virtual pages in use: tuples of four indices
          Pages,        \* the frames of the pool, topmost first
          Image,        \* a frame outside the pool: what vmm_init maps
          Shared,       \* the pages of the kernel's heap that every process gets
          Identity,     \* the frame whose number is that of the virtual page
          NULL,         \* frame 0, which is what a failed request returns
          Absent,
          MaxCreated    \* bound on the page maps created besides the kernel's

Page == Range(Pages)
Frame == Page \cup {NULL, Image}
KernelVirt == {v \in Virt : v[1] \in KernelIndex}
UserVirt == Virt \ KernelVirt

ASSUME VmmAssumption ==
    /\ KernelIndex \subseteq Index
    /\ KernelVirt # {}
    /\ Virt \subseteq Index \X Index \X Index \X Index
    /\ Pages \in Seq(Page) /\ Pages # <<>> /\ IsInjective(Pages)
    /\ Shared \subseteq UserVirt /\ Identity \in [UserVirt -> Page \cup {Image}]
    /\ NULL \notin Page /\ Image \notin Page \cup {NULL} /\ Absent \notin Frame

VARIABLES
    mem,        \* mem[f][i]: entry i of frame f, read as a table
    pages,      \* the free frames, a stack with its top at the front
    kernel_pagemap,
    maps,       \* the page maps created and not destroyed, the kernel's among them
    cr3,
    tlb,        \* translations the CPU has cached: pairs <<virtual page, frame>>
    created,    \* how many page maps were created
    up,         \* TRUE once vmm_init has loaded cr3
    lent,       \* pairs <<page map, page>> that scheduler_spawn has mapped
    sharing     \* the pairs that it has yet to go through

vars == <<mem, pages, kernel_pagemap, maps, cr3, tlb, created, up, lent, sharing>>

Zeroed == [i \in Index |-> Absent]

-----------------------------------------------------------------------------
(* pmm_request_page, on a state s = [mem, pages, at]: at becomes the frame, *)
(* zeroed, or NULL.                                                         *)
Requested(s) ==
    IF s.pages = <<>> THEN [s EXCEPT !.at = NULL]
    ELSE [mem |-> [s.mem EXCEPT ![Head(s.pages)] = Zeroed],
          pages |-> Tail(s.pages), at |-> Head(s.pages)]

\* Entry i of the table t is set.
Entered(m, t, i, entry) == [m EXCEPT ![t] = [m[t] EXCEPT ![i] = entry]]

\* One level of vmm_map: to the next table, requesting it if it is absent.
Descend(s, i) ==
    IF s.mem[s.at][i] # Absent THEN [s EXCEPT !.at = s.mem[s.at][i]]
    ELSE LET r == Requested(s) IN
         [mem |-> Entered(r.mem, s.at, i, r.at), pages |-> r.pages, at |-> r.at]

vmm_map(s, root, virt, phys) ==
    LET pml3 == Descend([s EXCEPT !.at = root], virt[1])
        pml2 == Descend(pml3, virt[2])
        pml1 == Descend(pml2, virt[3]) IN
    [pml1 EXCEPT !.mem = Entered(pml1.mem, pml1.at, virt[4], phys)]

\* The table of the last level, Absent if a level above it is missing.
Pml1(root, virt) ==
    LET pml3 == mem[root][virt[1]]
        pml2 == IF pml3 = Absent THEN Absent ELSE mem[pml3][virt[2]]
        pml1 == IF pml2 = Absent THEN Absent ELSE mem[pml2][virt[3]] IN
    pml1

virt_to_phys(root, virt) ==
    LET pml1 == Pml1(root, virt) IN
    IF pml1 = Absent \/ mem[pml1][virt[4]] = Absent THEN NULL ELSE mem[pml1][virt[4]]

Memory == [mem |-> mem, pages |-> pages, at |-> NULL]

\* The pool lasts: when it does not, the code goes on with frame 0 as a table,
\* and what happens then is not modelled.
Lasts(s) == s.mem[NULL] = Zeroed
Becomes(s) == Lasts(s) /\ mem' = s.mem /\ pages' = s.pages

-----------------------------------------------------------------------------
Init ==
    LET r == Requested([mem |-> [f \in Frame |-> Zeroed], pages |-> Pages, at |-> NULL]) IN
    /\ mem = r.mem /\ pages = r.pages
    /\ kernel_pagemap = r.at /\ maps = {r.at}
    /\ cr3 = NULL           \* the bootloader's
    /\ tlb = {} /\ created = 0 /\ up = FALSE
    /\ lent = {} /\ sharing = {}

\* The loops of vmm_init map the kernel and the HHDM, page by page.
vmm_init(virt) ==
    /\ ~up /\ virt \in KernelVirt
    /\ Becomes(vmm_map(Memory, kernel_pagemap, virt, Image))
    /\ UNCHANGED <<kernel_pagemap, maps, cr3, tlb, created, up, lent, sharing>>

\* A process whose scheduler_spawn has begun
Spawned(root) == \E v \in Virt : <<root, v>> \in lent

\* vmm_switch_pagemap, called by vmm_init and, to run a process, by the tick:
\* writing cr3 drops the cached translations.
vmm_switch_pagemap(root) ==
    /\ root \in maps /\ sharing = {}
    /\ \/ up /\ Spawned(root)
       \/ ~up /\ \A v \in KernelVirt : virt_to_phys(kernel_pagemap, v) = Image
    /\ cr3' = root /\ tlb' = {} /\ up' = TRUE
    /\ UNCHANGED <<mem, pages, kernel_pagemap, maps, created, lent, sharing>>

\* The CPU translates a page on an access and may keep the translation.  One
\* that was kept is enough to follow: it stands for any of them.
Access(virt) ==
    /\ up /\ virt_to_phys(cr3, virt) # NULL
    /\ tlb = {}
    /\ tlb' = {<<virt, virt_to_phys(cr3, virt)>>}
    /\ UNCHANGED <<mem, pages, kernel_pagemap, maps, cr3, created, up, lent, sharing>>

\* The kernel is at work, and not in the loops of scheduler_spawn.  A program
\* that exited keeps running on its page map until the next tick; it is assumed
\* to make no call that requests a frame.
ClientRuns == up /\ cr3 \in maps /\ sharing = {}

\* vmm_new_pagemap: a failed request is not noticed, because the check is made
\* on HIGHER_HALF(NULL), which is not NULL; frame 0 is cleared and used.
InheritsAll(i) == TRUE
InheritsNone(i) == FALSE
Inherited(i) == i \in KernelIndex
vmm_new_pagemap ==
    LET r == Requested(Memory) IN
    /\ ClientRuns /\ created < MaxCreated
    /\ Becomes([r EXCEPT !.mem = [r.mem EXCEPT ![r.at] =
                   [i \in Index |-> IF Inherited(i) THEN mem[kernel_pagemap][i] ELSE Absent]]])
    /\ maps' = maps \cup {r.at} /\ created' = created + 1
    /\ UNCHANGED <<kernel_pagemap, cr3, tlb, up, lent, sharing>>

\* vma_alloc and elf_load_binary: a frame is requested, zeroed and mapped, for
\* the kernel's heap at any time, for a process before it is spawned.  The page
\* may be mapped already: segments of a program may overlap, and so may regions
\* of the heap (Vma!RegionsDisjoint).  The frame it had is then lost, and
\* vmm_map flushes nothing.
MapNew(root, virt) ==
    LET r == Requested(Memory) IN
    /\ ClientRuns /\ root \in maps /\ virt \in UserVirt
    /\ root = kernel_pagemap \/ ~Spawned(root)
    /\ IF r.at = NULL THEN Becomes(r) ELSE Becomes(vmm_map(r, root, virt, r.at))
    /\ UNCHANGED <<kernel_pagemap, maps, cr3, tlb, created, up, lent, sharing>>

\* scheduler_spawn, from its vmm_map on: the page of the new process's proc, a
\* block of the heap, is mapped to the frame of that number, whatever that is.
\* Then the pages of Shared are gone through.
scheduler_spawn(root, proc) ==
    /\ ClientRuns /\ root \in maps \ {kernel_pagemap, cr3} /\ ~Spawned(root)
    /\ proc \in UserVirt /\ virt_to_phys(kernel_pagemap, proc) # NULL
    /\ Becomes(vmm_map(Memory, root, proc, Identity[proc]))
    /\ lent' = lent \cup {<<root, proc>>}
    /\ sharing' = {root} \X Shared
    /\ UNCHANGED <<kernel_pagemap, maps, cr3, tlb, created, up>>

\* One page of map_range_to_pagemap: the process gets the kernel's frame, if
\* there is one, in place of what it had there.
map_range_to_pagemap(root, virt) ==
    LET phys == virt_to_phys(kernel_pagemap, virt) IN
    /\ <<root, virt>> \in sharing
    /\ sharing' = sharing \ {<<root, virt>>}
    /\ \/ phys = NULL /\ UNCHANGED <<mem, pages, lent>>
       \/ /\ phys # NULL
          /\ Becomes(vmm_map(Memory, root, virt, phys))
          /\ lent' = lent \cup {<<root, virt>>}
    /\ UNCHANGED <<kernel_pagemap, maps, cr3, tlb, created, up>>

\* vma_free, whose context is the kernel's: the frame is released, and
\* vmm_unmap clears the entry and flushes the page.  Processes that were lent
\* the page keep it.
NotInvalidated(virt) == tlb
Invalidated(virt) == {e \in tlb : e[1] # virt}
NotUnlinked(virt) == mem
Unlinked(virt) == Entered(mem, Pml1(kernel_pagemap, virt), virt[4], Absent)
vmm_unmap(virt) ==
    LET phys == virt_to_phys(kernel_pagemap, virt) IN
    /\ ClientRuns /\ virt \in UserVirt /\ phys # NULL
    /\ pages' = <<phys>> \o pages
    /\ mem' = Unlinked(virt)
    /\ tlb' = Invalidated(virt)
    /\ UNCHANGED <<kernel_pagemap, maps, cr3, created, up, lent, sharing>>

\* vmm_destroy_pagemap, called by scheduler_exit on the page map in use: the
\* PML4 is released, the tables below it are not.
ReleasedPml3(root) ==
    <<root>> \o LET pml3 == {mem[root][i] : i \in Index} \ {Absent} IN
                IF pml3 = {} THEN <<>> ELSE <<CHOOSE t \in pml3 : TRUE>>
Released(root) == <<root>>
vmm_destroy_pagemap ==
    /\ ClientRuns /\ cr3 # kernel_pagemap
    /\ pages' = Released(cr3) \o pages
    /\ maps' = maps \ {cr3}
    /\ lent' = {e \in lent : e[1] # cr3}
    /\ UNCHANGED <<mem, kernel_pagemap, cr3, tlb, created, up, sharing>>

Next ==
    \/ \E v \in Virt : vmm_init(v) \/ Access(v) \/ vmm_unmap(v)
    \/ \E root \in maps : vmm_switch_pagemap(root)
    \/ \E root \in maps, v \in Virt :
          MapNew(root, v) \/ scheduler_spawn(root, v) \/ map_range_to_pagemap(root, v)
    \/ vmm_new_pagemap
    \/ vmm_destroy_pagemap

Spec == Init /\ [][Next]_vars

-----------------------------------------------------------------------------
\* The tables a page map is made of, by the indices that lead to them.
Tables(root) ==
    LET Below(T) == {mem[t][i] : t \in T, i \in Index} \ {Absent}
        pml3 == Below({root})
        pml2 == Below(pml3) IN
    {root} \cup pml3 \cup pml2 \cup Below(pml2)

\* The tables of a page map in use are never handed out again, whatever is
\* created, mapped, unmapped and destroyed around it.
TablesHeld == up => \A root \in maps : Tables(root) \cap Range(pages) = {}

\* No frame that a client reaches through a page map is part of a table, so that
\* writing to mapped memory changes no translation; but for pages lent to a
\* process at which the kernel does not have that frame, or no longer has it:
\* vma_free releases it under the process, and a frame mapped by its number
\* may be anything.
DataNotTables ==
    \A root, other \in maps, v \in UserVirt :
        LET phys == virt_to_phys(root, v) IN
        phys # NULL /\ (<<root, v>> \in lent => phys = virt_to_phys(kernel_pagemap, v)) =>
            phys \notin Tables(other)

\* All page maps have the same kernel half, for good.
KernelHalfShared ==
    \A root \in maps, v \in KernelVirt :
        up => virt_to_phys(root, v) = virt_to_phys(kernel_pagemap, v)

\* A translation that the CPU has cached is the one of the page map in use; or,
\* since vmm_map flushes nothing, its page was mapped anew, and then its frame
\* is one that was lost: never handed out again, no table, and in no page map
\* except where it is lent.  A write through it reaches nothing else.
TlbCoherent ==
    \A e \in tlb :
        \/ virt_to_phys(cr3, e[1]) = e[2]
        \/ /\ e[2] \notin Range(pages)
           /\ \A root \in maps :
                 /\ e[2] \notin Tables(root)
                 /\ \A v \in UserVirt : virt_to_phys(root, v) = e[2] => <<root, v>> \in lent

\* The page tables implement address spaces.
Spaces == INSTANCE AddrSpace
    WITH Space <- Page, live <- maps,
         translate <- [s \in Page |-> [v \in Virt |->
                          IF s \in maps THEN virt_to_phys(s, v) ELSE NULL]]
SpaceRefinement == Spaces!SpaceSpec
=============================================================================
