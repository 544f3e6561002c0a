------------------------------- MODULE Ramfs -------------------------------
(***************************************************************************)
(* The contents of a file of the memory file system, fs/ramfs.c, as        *)
(* vfs_read and vfs_write of dev/vfs.c reach it: from the archive, from    *)
(* read and write (always at offset 0), from fwrite and fprintf (the       *)
(* same), and from the appended end of the boot log.                       *)
(*                                                                         *)
(* The data is the heap block data->data points to, Len(mem) bytes long;   *)
(* what lies past its end belongs to others and reads as anything, here    *)
(* Foreign.  data->size and the size of the vnode are kept apart, as the   *)
(* code keeps them: one bounds the reads, the other is what the kernel     *)
(* allocates buffers by.                                                   *)
(***************************************************************************)
EXTENDS Naturals, Sequences

CONSTANTS Byte,     \* bytes
          Buffer,   \* what is written
          Foreign,  \* a byte past the end of the block
          MaxSize   \* bound on the size of the file

RamfsAssumption ==
    /\ Buffer \subseteq Seq(Byte) /\ Foreign \notin Byte
    /\ MaxSize \in Nat

VARIABLES mem,      \* data->data
          size,     \* data->size
          vsize,    \* vnode->size
          past,     \* whether a byte was written past the end of the block
          buffer    \* what the last read put into its buffer

ramfsVars == <<mem, size, vsize, past, buffer>>

Largest(a, b) == IF a > b THEN a ELSE b
Smallest(a, b) == IF a < b THEN a ELSE b

\* n bytes of the memory at data->data, from the given offset on
Memory(block, offset, n) ==
    [i \in 1 .. n |-> IF offset + i <= Len(block) THEN block[offset + i] ELSE Foreign]

\* A write past the block changes what others own; the model ends there.
Sound == ~past

RamfsInit ==
    /\ mem = <<>> /\ size = 0 /\ vsize = 0
    /\ past = FALSE /\ buffer = <<>>

\* ramfs_init_ustar gives a new file its contents.
ramfs_init_ustar(buf) ==
    /\ Sound /\ mem = <<>>
    /\ mem' = buf /\ size' = Len(buf) /\ vsize' = Len(buf)
    /\ UNCHANGED <<past, buffer>>

Expands(offset, n) == offset >= size /\ offset + n > size
Fresh(new) == [i \in 1 .. new |-> Foreign]
Expanded(new) == Memory(mem, 0, size) \o Memory(<<>>, 0, new - size)
NewSize(offset, n) == Largest(vsize, offset + n)
LastEnd(offset, n) == offset + n
EndOf(offset, n) == NewSize(offset, n)

\* ramfs_write: the block is replaced by a larger one only when the write
\* starts at or after the end of the file.
ramfs_write(buf, offset, memory) ==
    LET n == Len(buf)
        block == IF Expands(offset, n) THEN Expanded(offset + n) ELSE mem IN
    /\ Sound /\ offset + n <= MaxSize
    /\ IF Expands(offset, n) /\ ~memory THEN UNCHANGED ramfsVars
       ELSE /\ mem' = [i \in DOMAIN block |->
                          IF i \in offset + 1 .. offset + n THEN buf[i - offset] ELSE block[i]]
            /\ past' = (past \/ offset + n > Len(block))
            /\ vsize' = EndOf(offset, n)
            /\ size' = vsize'
            /\ UNCHANGED buffer

\* sys_write and fwrite, from the start
WriteStart(buf, memory) == ramfs_write(buf, 0, memory)

\* the byte that ends the boot log, at the size the vnode has
WriteEnd(buf, memory) == ramfs_write(buf, vsize, memory)

ToRead(n) == Smallest(n, size)

\* ramfs_read from the start; nothing is copied from an empty file.
ramfs_read(n) ==
    /\ Sound
    /\ buffer' = IF size = 0 THEN <<>> ELSE Memory(mem, 0, ToRead(n))
    /\ UNCHANGED <<mem, size, vsize, past>>

RamfsNext ==
    \/ \E buf \in Buffer : ramfs_init_ustar(buf)
    \/ \E buf \in Buffer, memory \in BOOLEAN : WriteStart(buf, memory) \/ WriteEnd(buf, memory)
    \/ \E n \in 1 .. MaxSize + 1 : ramfs_read(n)

RamfsSpec == RamfsInit /\ [][RamfsNext]_ramfsVars

-----------------------------------------------------------------------------
\* The two sizes agree, and are that of the block until a write has run past
\* it: reads stay in the block, and buffers that are allocated by vnode->size
\* fit what is read.
SizesAgree == size = vsize /\ (~past => size = Len(mem))

\* Until then a file holds what was last written to each of its bytes, reads
\* return it, and a write that fails leaves it as it was.
Contents == INSTANCE FileBytes WITH bytes <- Memory(mem, 0, size), got <- buffer
FileRefinement ==
    /\ Contents!Init
    /\ [][~past' => [Contents!Next]_<<Memory(mem, 0, size), buffer>>]_ramfsVars
=============================================================================
