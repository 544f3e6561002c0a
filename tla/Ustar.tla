------------------------------- MODULE Ustar -------------------------------
(***************************************************************************)
(* Unpacking the initial archive, ramfs_init_ustar in fs/ramfs.c.  The     *)
(* archive is a sequence of blocks: a header with the path, the type and   *)
(* the size of an entry, the data of the entry rounded up to blocks, and   *)
(* at the end a block whose name is empty, or just the end.  The tree maps *)
(* the paths that exist to directories or to files with their data.  One   *)
(* step is one turn of the loop; the boot thread runs alone.               *)
(***************************************************************************)
EXTENDS Naturals, Sequences

CONSTANTS BlockSize,    \* USTAR_HEADER_SIZE
          Entry,        \* entries: [path, dir, size]
          MaxEntries    \* bound on the number of entries of an archive

UstarAssumption ==
    /\ BlockSize \in Nat \ {0} /\ MaxEntries \in Nat
    /\ \A e \in Entry :
          /\ e.path \in Seq(STRING) /\ e.dir \in BOOLEAN /\ e.size \in Nat
          /\ e.path = <<>> => e.dir

VARIABLES entries,  \* what was packed
          blocks,   \* the archive
          pos,      \* the block the loop is at
          tree,     \* what exists
          status    \* packing, before the boot loader passes the archive on; then
                    \* of the loop: running, done, given up, or in a fault

vars == <<entries, blocks, pos, tree, status>>

Directory == [dir |-> TRUE, data |-> <<>>]
File(data) == [dir |-> FALSE, data |-> data]
Root == [p \in {<<>>} |-> Directory]

Init ==
    /\ entries = <<>> /\ blocks = <<>>
    /\ pos = 1
    /\ tree = Root
    /\ status = "packing"

\* The archive as the archiver lays it out, entry by entry.
DataBlocks(size) == (size + BlockSize - 1) \div BlockSize
DataOf(e) == [k \in 1 .. DataBlocks(e.size) |-> [header |-> FALSE, of |-> e, part |-> k]]
Laid(e) == <<[header |-> TRUE, of |-> e, part |-> 0]>> \o DataOf(e)
Pack(e) ==
    /\ status = "packing" /\ Len(entries) < MaxEntries
    /\ entries' = Append(entries, e) /\ blocks' = blocks \o Laid(e)
    /\ UNCHANGED <<pos, tree, status>>

\* The boot loader passes on what it has: at least a header, as is asserted.
Pass ==
    /\ status = "packing" /\ blocks # <<>>
    /\ status' = "running"
    /\ UNCHANGED <<entries, blocks, pos, tree>>

Prefix(path, k) == [j \in 1 .. k |-> path[j]]
Parent(path) == Prefix(path, Len(path) - 1)
Added(path, what) == [p \in DOMAIN tree \cup {path} |-> IF p = path THEN what ELSE tree[p]]

\* The loop over the components ends at the k-th, the first that does not exist.
Missing(path, k) ==
    /\ Prefix(path, k) \notin DOMAIN tree
    /\ \A j \in 1 .. k - 1 : Prefix(path, j) \in DOMAIN tree

Same(size) == pos
Skip(size) == pos + 1 + (size + BlockSize - 1) \div BlockSize

\* vfs_create_vnode, under a vnode that may not be a directory; memory may be
\* missing.
MakesAnywhere(path, what, memory) == tree' = IF memory THEN Added(path, what) ELSE tree
Makes(path, what, memory) ==
    tree' = IF memory /\ tree[Parent(path)].dir THEN Added(path, what) ELSE tree

Fails(path, memory) == ~memory \/ ~tree[Parent(path)].dir

\* Everything on the path exists: nothing is made, a second file is skipped.
Known(e) ==
    /\ \A k \in DOMAIN e.path : Prefix(e.path, k) \in DOMAIN tree
    /\ pos' = Skip(e.size)
    /\ UNCHANGED <<tree, status>>

\* A directory is made, but is not what the next component is looked up in:
\* after the last component that is harmless, before it a fault.
NewDirectory(e, k, memory) ==
    LET made == Prefix(e.path, k) IN
    /\ e.dir /\ Missing(e.path, k)
    /\ Makes(made, Directory, memory)
    /\ status' = IF Fails(made, memory) THEN "given up"
                 ELSE IF k < Len(e.path) THEN "fault" ELSE status
    /\ pos' = IF status' = "running" THEN Skip(e.size) ELSE pos

\* A file is made by the name of the first component that does not exist.
\* Without memory for its data it stays empty and unpacking ends.
Contents(n) == [k \in 1 .. n |-> blocks[pos + k]]
WithHeader(n) == [k \in 1 .. n |-> blocks[pos + k - 1]]
Data(n) == Contents(n)
NewFile(e, k, memory, room) ==
    LET made == Prefix(e.path, k) IN
    /\ ~e.dir /\ Missing(e.path, k)
    /\ Makes(made, File(IF room THEN Data(DataBlocks(e.size)) ELSE <<>>), memory)
    /\ status' = IF Fails(made, memory) \/ ~room THEN "given up" ELSE status
    /\ pos' = IF status' = "running" THEN Skip(e.size) ELSE pos

AtEnd ==
    /\ pos > Len(blocks)
    /\ status' = "done"
    /\ UNCHANGED <<pos, tree>>

ramfs_init_ustar ==
    /\ status = "running"
    /\ \/ AtEnd
       \/ /\ pos <= Len(blocks)
          /\ LET e == blocks[pos].of IN
             \/ Known(e)
             \/ \E k \in DOMAIN e.path, memory \in BOOLEAN : NewDirectory(e, k, memory)
             \/ \E k \in DOMAIN e.path, memory, room \in BOOLEAN : NewFile(e, k, memory, room)
    /\ UNCHANGED <<entries, blocks>>

Next == (\E e \in Entry : Pack(e)) \/ Pass \/ ramfs_init_ustar

Spec == Init /\ [][Next]_vars /\ WF_vars(ramfs_init_ustar)

-----------------------------------------------------------------------------
\* Whatever the archive, what exists is a tree: all but the root is in a
\* directory.
InDirectories == \A p \in DOMAIN tree : p # <<>> => tree[Parent(p)].dir

\* An archive that names each path once and directories before what they hold,
\* as archivers write them
ParentsFirst ==
    \A i \in DOMAIN entries :
        LET path == entries[i].path IN
        /\ \A j \in 1 .. i - 1 : entries[j].path # path
        /\ Len(path) > 1 =>
              \E j \in 1 .. i - 1 : entries[j].path = Parent(path) /\ entries[j].dir

\* Such an archive never faults, and when it was unpacked to the end everything
\* in it exists, with its own data, and nothing else.
Unpacked ==
    ParentsFirst =>
        /\ status # "fault"
        /\ status = "done" =>
              /\ DOMAIN tree = {<<>>} \cup {entries[i].path : i \in DOMAIN entries}
              /\ \A i \in DOMAIN entries :
                    tree[entries[i].path] =
                        IF entries[i].dir THEN Directory ELSE File(DataOf(entries[i]))

\* Unpacking ends, whatever the archive.
Ends == status = "running" ~> status # "running"
=============================================================================
