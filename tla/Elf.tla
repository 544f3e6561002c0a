-------------------------------- MODULE Elf --------------------------------
(***************************************************************************)
(* Loading a program, elf_load_binary in proc/data/elf.c.  A byte of the   *)
(* file is its offset in the file, Zero is a byte that was cleared.  The   *)
(* address space maps page numbers to frames, and a frame holds PageSize   *)
(* bytes.  One step is one turn of the inner loop: a frame is requested,   *)
(* mapped in place of what the page had before, cleared and filled.        *)
(***************************************************************************)
EXTENDS Integers, Sequences

CONSTANTS PageSize,
          Segment,      \* program headers: [load, write, exec, vaddr, offset,
                        \* filesz, memsz]
          MaxSegments,  \* bound on their number
          Zero

ElfAssumption ==
    /\ PageSize \in Nat \ {0} /\ MaxSegments \in Nat /\ Zero \notin Nat
    /\ \A s \in Segment :
          /\ s.vaddr \in Nat /\ s.offset \in Nat /\ s.filesz \in Nat /\ s.memsz \in Nat
          /\ s.filesz <= s.memsz

VARIABLES ph,       \* the program headers
          i,        \* the header the outer loop is at
          page,     \* pages of it that are done
          space,    \* the address space: pages to [write, exec, bytes]
          status    \* "none" before the call, "loading", "loaded" (the entry is
                    \* returned) or "failed" (0 is)

elfVars == <<ph, i, page, space, status>>

AlignDown(a) == a \div PageSize
AlignUp(a) == (a + PageSize - 1) \div PageSize

\* Page numbers: vaddr_start up to, not including, vaddr_end
Start(s) == AlignDown(s.vaddr)
End(s) == AlignUp(s.vaddr + s.memsz)

ElfInit ==
    /\ ph = <<>> /\ i = 1 /\ page = 0
    /\ space = [p \in {} |-> Zero]
    /\ status = "none"

\* A header with another magic, class or type is refused at once.
elf_load_binary ==
    /\ status = "none"
    /\ ph' \in UNION {[1 .. n -> Segment] : n \in 1 .. MaxSegments}
    /\ status' \in {"loading", "failed"}
    /\ UNCHANGED <<i, page, space>>

\* Where in the page the file's bytes go, which of them, and how many
NoOffset(s, k) == 0
PageDataOffset(s, k) == IF k = 0 THEN s.vaddr % PageSize ELSE 0
CopyOffset(s, k) == s.offset + k * PageSize
WholePage(s, k) == PageSize - PageDataOffset(s, k)
CopySize(s, k) ==
    LET rest == (s.offset + s.filesz) - CopyOffset(s, k)
        room == PageSize - PageDataOffset(s, k) IN
    IF rest < room THEN rest ELSE room

HasData(s, k) == CopyOffset(s, k) < s.offset + s.filesz

Filled(s, k) ==
    [b \in 0 .. PageSize - 1 |->
        LET from == b - PageDataOffset(s, k) IN
        IF /\ HasData(s, k)
           /\ b >= PageDataOffset(s, k)
           /\ from < CopySize(s, k)
        THEN CopyOffset(s, k) + from ELSE Zero]

Mapped(s, k) ==
    LET p == Start(s) + k IN
    [q \in DOMAIN space \cup {p} |->
        IF q = p THEN [write |-> s.write, exec |-> s.exec, bytes |-> Filled(s, k)] ELSE space[q]]

LoadPage ==
    /\ status = "loading" /\ i <= Len(ph)
    /\ ph[i].load /\ Start(ph[i]) + page < End(ph[i])
    /\ space' = Mapped(ph[i], page)
    /\ page' = page + 1
    /\ UNCHANGED <<ph, i, status>>

\* No frame is left: 0 is returned, and what was mapped stays.
OutOfMemory ==
    /\ status = "loading" /\ i <= Len(ph)
    /\ ph[i].load /\ Start(ph[i]) + page < End(ph[i])
    /\ status' = "failed"
    /\ UNCHANGED <<ph, i, page, space>>

NextSegment ==
    /\ status = "loading" /\ i <= Len(ph)
    /\ ph[i].load => Start(ph[i]) + page >= End(ph[i])
    /\ i' = i + 1 /\ page' = 0
    /\ UNCHANGED <<ph, space, status>>

Loaded ==
    /\ status = "loading" /\ i > Len(ph)
    /\ status' = "loaded"
    /\ UNCHANGED <<ph, i, page, space>>

ElfNext == elf_load_binary \/ LoadPage \/ OutOfMemory \/ NextSegment \/ Loaded

ElfSpec == ElfInit /\ [][ElfNext]_elfVars

-----------------------------------------------------------------------------
Segments == {ph[k] : k \in {j \in DOMAIN ph : ph[j].load}}
PagesOf(s) == Start(s) .. End(s) - 1

\* Whatever the program headers and whenever memory runs out, a page holds
\* nothing but zeros and bytes of the file part of a segment on that page.
OnlyFileData ==
    \A p \in DOMAIN space, b \in 0 .. PageSize - 1 :
        space[p].bytes[b] # Zero =>
            \E s \in Segments : /\ p \in PagesOf(s)
                                /\ space[p].bytes[b] \in s.offset .. s.offset + s.filesz - 1

\* Programs whose segments share no page and whose file parts start on a page
\* or end on the page they start on
Regular ==
    /\ \A j, k \in DOMAIN ph :
          j # k /\ ph[j].load /\ ph[k].load => PagesOf(ph[j]) \cap PagesOf(ph[k]) = {}
    /\ \A s \in Segments :
          s.vaddr % PageSize = 0 \/ (s.vaddr % PageSize) + s.filesz <= PageSize

\* Such a program is loaded exactly: every byte of every segment is at its
\* address, what the file does not provide is zero, and the pages of a segment
\* are writable and executable just if it is.
LoadedExactly ==
    Regular /\ status = "loaded" =>
        /\ DOMAIN space = UNION {PagesOf(s) : s \in Segments}
        /\ \A s \in Segments :
              /\ \A p \in PagesOf(s) : space[p].write = s.write /\ space[p].exec = s.exec
              /\ \A n \in 0 .. s.memsz - 1 :
                    space[(s.vaddr + n) \div PageSize].bytes[(s.vaddr + n) % PageSize]
                        = IF n < s.filesz THEN s.offset + n ELSE Zero
=============================================================================
