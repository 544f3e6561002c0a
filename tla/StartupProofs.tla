--------------------------- MODULE StartupProofs ---------------------------
(***************************************************************************)
(* The start of the system, for archives, files and programs of any size.  *)
(*                                                                         *)
(* Files: the two sizes of a file agree, and as long as no write has run   *)
(* past its block the file is what FileBytes promises.  What carries both  *)
(* is that the block is as long as the file, which needs that writes start *)
(* at 0 or at the end and not anywhere else.                               *)
(*                                                                         *)
(* Programs: no page holds what is not of a segment on it, and a program   *)
(* whose segments share no page is loaded exactly.  The invariant says     *)
(* which pages the loops have filled, and that a page of one segment is    *)
(* not mapped again by another.                                            *)
(*                                                                         *)
(* The archive: what is unpacked is a tree, and of an archive with parents *)
(* first it is all of it.  The invariant says where in the blocks each     *)
(* entry starts, that the loop is at the start of one, and what it has     *)
(* made of the entries before.                                             *)
(***************************************************************************)
EXTENDS Startup, TLAPS

-----------------------------------------------------------------------------
(* Files.                                                                  *)

Any == Byte \cup {Foreign}

FileTypeOK ==
    /\ mem \in Seq(Any) /\ size \in Nat /\ vsize \in Nat
    /\ past \in BOOLEAN /\ buffer \in Seq(Any)

FileInv == FileTypeOK /\ SizesAgree

\* A function on 1 .. n is a sequence, and sequences with the same elements are
\* the same.
LEMMA FunctionIsSeq ==
    ASSUME NEW S, NEW n \in Nat, NEW f \in [1 .. n -> S]
    PROVE  f \in Seq(S) /\ Len(f) = n
OBVIOUS

LEMMA SameElements ==
    ASSUME NEW S, NEW f \in Seq(S), NEW g \in Seq(S), Len(f) = Len(g),
           \A k \in 1 .. Len(f) : f[k] = g[k]
    PROVE  f = g
OBVIOUS

\* The elements of a concatenation
LEMMA ConcatElements ==
    ASSUME NEW S, NEW f \in Seq(S), NEW g \in Seq(S)
    PROVE  /\ f \o g \in Seq(S) /\ Len(f \o g) = Len(f) + Len(g)
           /\ \A k \in 1 .. Len(f) : (f \o g)[k] = f[k]
           /\ \A k \in Len(f) + 1 .. Len(f) + Len(g) : (f \o g)[k] = g[k - Len(f)]
OBVIOUS

\* What Memory reads is a sequence of the length that was asked for.
LEMMA MemoryReads ==
    ASSUME NEW block \in Seq(Any), NEW offset \in Nat, NEW n \in Nat
    PROVE  /\ Memory(block, offset, n) \in Seq(Any)
           /\ Len(Memory(block, offset, n)) = n
           /\ \A k \in 1 .. n : Memory(block, offset, n)[k] =
                 IF offset + k <= Len(block) THEN block[offset + k] ELSE Foreign
BY DEF Memory, Any

\* A file whose block is as long as the file reads as its block.
LEMMA WholeFile ==
    ASSUME NEW block \in Seq(Any), NEW n \in Nat, n = Len(block)
    PROVE  Memory(block, 0, n) = block
<1> DEFINE all == Memory(block, 0, n)
<1>1. /\ all \in Seq(Any) /\ Len(all) = n
      /\ \A k \in 1 .. n : all[k] = IF 0 + k <= Len(block) THEN block[0 + k] ELSE Foreign
  <2>1. 0 \in Nat
    OBVIOUS
  <2>2. QED
    BY <2>1, MemoryReads, Zenon
<1> HIDE DEF all
<1>2. \A k \in 1 .. n : all[k] = block[k]
  BY <1>1
<1>3. all = block
  BY <1>1, <1>2, SameElements
<1>4. QED
  BY <1>3 DEF all

\* The block that takes the place of the old one is just long enough.
LEMMA ExpandedFits ==
    ASSUME FileTypeOK, NEW new \in Nat, new >= size
    PROVE  /\ Expanded(new) \in Seq(Any) /\ Len(Expanded(new)) = new
           /\ \A k \in 1 .. size : Expanded(new)[k] = Memory(mem, 0, size)[k]
<1>1. new - size \in Nat
  BY DEF FileTypeOK
<1>2. /\ Memory(mem, 0, size) \in Seq(Any) /\ Len(Memory(mem, 0, size)) = size
      /\ Memory(<<>>, 0, new - size) \in Seq(Any) /\ Len(Memory(<<>>, 0, new - size)) = new - size
  <2>1. <<>> \in Seq(Any)
    OBVIOUS
  <2>2. QED
    BY ZenonT(40), <1>1, <2>1, MemoryReads DEF FileTypeOK
<1>3. QED
  BY <1>1, <1>2, SMTT(40) DEF Expanded, FileTypeOK

\* What ramfs_write does at the start or at the end of a file, when it does
\* something: the sizes it leaves, and the bytes
LEMMA WriteEffect ==
    ASSUME RamfsAssumption, FileInv, NEW buf \in Buffer, NEW offset \in {0, vsize},
           NEW memory \in BOOLEAN,
           ramfs_write(buf, offset, memory), ~(Expands(offset, Len(buf)) /\ ~memory)
    PROVE  /\ FileInv'
           /\ ~past' => /\ Len(mem') = Largest(Len(mem), offset + Len(buf))
                        /\ offset <= Len(mem)
                        /\ \A k \in 1 .. Len(mem') :
                              mem'[k] = IF k \in offset + 1 .. offset + Len(buf)
                                        THEN buf[k - offset] ELSE mem[k]
<1> DEFINE n == Len(buf)
           block == IF Expands(offset, n) THEN Expanded(offset + n) ELSE mem
<1>1. buf \in Seq(Byte) /\ n \in Nat /\ offset \in Nat /\ offset + n \in Nat
  BY DEF RamfsAssumption, FileInv, FileTypeOK
<1>2. ~past /\ size = vsize /\ size = Len(mem)
  BY DEF ramfs_write, Sound, FileInv, SizesAgree
<1>3. /\ block \in Seq(Any)
      /\ Len(block) = IF Expands(offset, n) THEN offset + n ELSE size
      /\ \A k \in 1 .. size : block[k] = mem[k]
  <2>1. CASE Expands(offset, n)
    <3>1. offset + n >= size
      BY <1>1, <2>1 DEF Expands, FileInv, FileTypeOK
    <3>2. Memory(mem, 0, size) = mem
      BY <1>2, WholeFile DEF FileInv, FileTypeOK
    <3>3. QED
      BY <1>1, <2>1, <3>1, <3>2, ExpandedFits DEF FileInv
  <2>2. CASE ~Expands(offset, n)
    BY <1>2, <2>2 DEF FileInv, FileTypeOK
  <2>3. QED
    BY <2>1, <2>2
<1>4. /\ mem' = [k \in DOMAIN block |->
                    IF k \in offset + 1 .. offset + n THEN buf[k - offset] ELSE block[k]]
      /\ past' = (past \/ offset + n > Len(block))
      /\ vsize' = NewSize(offset, n) /\ size' = vsize' /\ buffer' = buffer
  BY DEF ramfs_write, EndOf
<1> HIDE DEF n, block
<1>5. mem' \in Seq(Any) /\ Len(mem') = Len(block)
  <2>1. \A k \in 1 .. Len(block) : mem'[k] \in Any
    <3> SUFFICES ASSUME NEW k \in 1 .. Len(block) PROVE mem'[k] \in Any
      OBVIOUS
    <3>1. mem'[k] = IF k \in offset + 1 .. offset + n THEN buf[k - offset] ELSE block[k]
      BY <1>3, <1>4
    <3>2. k \in offset + 1 .. offset + n => buf[k - offset] \in Byte
      BY <1>1 DEF n
    <3>3. block[k] \in Any
      BY <1>3
    <3>4. QED
      BY <3>1, <3>2, <3>3 DEF Any
  <2>2. DOMAIN block = 1 .. Len(block) /\ Len(block) \in Nat
    BY <1>3
  <2>3. mem' \in [1 .. Len(block) -> Any]
    BY <1>4, <2>1, <2>2
  <2>4. QED
    BY <2>2, <2>3, FunctionIsSeq
<1>6. ~past' => Len(block) = Largest(size, offset + n)
  <2>1. ~past' => ~(offset + n > Len(block))
    BY <1>4, Zenon
  <2>2. QED
    BY <1>1, <1>3, <2>1 DEF Expands, Largest, FileInv, FileTypeOK
<1>7. vsize' = Largest(size, offset + n) /\ vsize' \in Nat /\ past' \in BOOLEAN
  BY ZenonT(40), <1>1, <1>2, <1>4 DEF NewSize, Largest, FileInv, FileTypeOK
<1>8. FileInv'
  BY <1>4, <1>5, <1>6, <1>7 DEF FileInv, FileTypeOK, SizesAgree
<1>9. ASSUME ~past', NEW k \in 1 .. Len(mem')
      PROVE  mem'[k] = IF k \in offset + 1 .. offset + n THEN buf[k - offset] ELSE mem[k]
  <2>1. mem'[k] = IF k \in offset + 1 .. offset + n THEN buf[k - offset] ELSE block[k]
    BY <1>3, <1>4, <1>5, <1>9
  <2>2. k \notin offset + 1 .. offset + n => k \in 1 .. size
    BY <1>1, <1>2, <1>5, <1>6, <1>9 DEF Largest, FileInv, FileTypeOK
  <2>3. QED
    BY <2>1, <2>2, <1>3
<1>10. offset <= Len(mem)
  BY <1>2 DEF FileInv, FileTypeOK
<1>11. QED
  BY <1>2, <1>5, <1>6, <1>8, <1>9, <1>10 DEF n

\* The invariant holds at the start and every step keeps it.
LEMMA FileInit == ASSUME RamfsInit PROVE FileInv
<1>1. <<>> \in Seq(Any) /\ Len(<<>>) = 0
  OBVIOUS
<1>2. QED
  BY ZenonT(40), <1>1 DEF RamfsInit, FileInv, FileTypeOK, SizesAgree

LEMMA FileStepKeeps ==
    ASSUME RamfsAssumption, FileInv, [RamfsNext]_ramfsVars
    PROVE  FileInv'
<1>1. CASE UNCHANGED ramfsVars
  BY <1>1 DEF ramfsVars, FileInv, FileTypeOK, SizesAgree
<1>2. ASSUME NEW buf \in Buffer, ramfs_init_ustar(buf)
      PROVE  FileInv'
  <2>1. buf \in Seq(Any) /\ Len(buf) \in Nat
    BY DEF RamfsAssumption, Any
  <2>2. QED
    BY <1>2, <2>1 DEF ramfs_init_ustar, FileInv, FileTypeOK, SizesAgree
<1>3. ASSUME NEW buf \in Buffer, NEW memory \in BOOLEAN, NEW offset \in {0, vsize},
             ramfs_write(buf, offset, memory)
      PROVE  FileInv'
  <2>1. CASE Expands(offset, Len(buf)) /\ ~memory
    BY <1>3, <2>1 DEF ramfs_write, ramfsVars, FileInv, FileTypeOK, SizesAgree
  <2>2. CASE ~(Expands(offset, Len(buf)) /\ ~memory)
    BY <1>3, <2>2, WriteEffect
  <2>3. QED
    BY <2>1, <2>2
<1>4. ASSUME NEW n \in 1 .. MaxSize + 1, ramfs_read(n)
      PROVE  FileInv'
  <2>1. ToRead(n) \in Nat
    BY <1>4 DEF ToRead, Smallest, FileInv, FileTypeOK
  <2>2. buffer' \in Seq(Any)
    BY <1>4, <2>1, MemoryReads DEF ramfs_read, FileInv, FileTypeOK
  <2>3. QED
    BY <1>4, <2>2 DEF ramfs_read, FileInv, FileTypeOK, SizesAgree
<1>5. QED
  BY <1>1, <1>2, <1>3, <1>4 DEF RamfsNext, WriteStart, WriteEnd

\* Whatever is unpacked, written and read, and whenever memory runs out,
\* data->size and vnode->size agree and, until a write has run past the block,
\* are its size.
THEOREM SizesAlwaysAgree == ASSUME RamfsAssumption PROVE RamfsSpec => []SizesAgree
<1>1. FileInv => SizesAgree
  BY DEF FileInv
<1>2. QED
  BY <1>1, FileInit, FileStepKeeps, PTL DEF RamfsSpec

-----------------------------------------------------------------------------
(* The refinement.                                                         *)

\* A write, when it does not run past the block, puts the buffer where
\* FileBytes puts it.
LEMMA WriteImplements ==
    ASSUME RamfsAssumption, FileInv, NEW buf \in Buffer, NEW offset \in {0, vsize},
           NEW memory \in BOOLEAN, ramfs_write(buf, offset, memory), ~past'
    PROVE  [Contents!Next]_<<Memory(mem, 0, size), buffer>>
<1>1. CASE Expands(offset, Len(buf)) /\ ~memory
  BY <1>1 DEF ramfs_write, ramfsVars
<1>2. CASE ~(Expands(offset, Len(buf)) /\ ~memory)
  <2> DEFINE n == Len(buf)
  <2>1. /\ FileInv' /\ offset <= Len(mem) /\ Len(mem') = Largest(Len(mem), offset + n)
        /\ \A k \in 1 .. Len(mem') :
              mem'[k] = IF k \in offset + 1 .. offset + n THEN buf[k - offset] ELSE mem[k]
    BY <1>2, WriteEffect
  <2>2. /\ Memory(mem, 0, size) = mem
        /\ Memory(mem', 0, size') = mem'
    <3>1. ~past /\ size = Len(mem) /\ size' = Len(mem')
      BY <2>1 DEF ramfs_write, Sound, FileInv, SizesAgree
    <3>2. mem \in Seq(Any) /\ size \in Nat /\ mem' \in Seq(Any) /\ size' \in Nat
      BY <2>1 DEF FileInv, FileTypeOK
    <3>3. QED
      BY <3>1, <3>2, WholeFile
  <2>3. mem' = Contents!Written(mem, buf, offset)
    <3> DEFINE w == Contents!Written(mem, buf, offset)
               head == SubSeq(mem, 1, offset)
               tail == SubSeq(mem, offset + n + 1, Len(mem))
    <3>1. /\ mem \in Seq(Any) /\ mem' \in Seq(Any) /\ buf \in Seq(Any)
          /\ n \in Nat /\ offset \in Nat /\ Len(mem) \in Nat
      BY <2>1 DEF FileInv, FileTypeOK, RamfsAssumption, Any
    <3>2. /\ head \in Seq(Any) /\ Len(head) = offset
          /\ \A k \in 1 .. offset : head[k] = mem[k]
      BY <2>1, <3>1
    <3>3. /\ tail \in Seq(Any)
          /\ Len(tail) = IF offset + n <= Len(mem) THEN Len(mem) - (offset + n) ELSE 0
          /\ \A k \in 1 .. Len(tail) : tail[k] = mem[offset + n + k]
      BY <3>1, SMTT(40)
    <3> HIDE DEF head, tail, n
    <3> DEFINE front == head \o buf
    <3>4. /\ front \in Seq(Any) /\ Len(front) = offset + n
          /\ \A k \in 1 .. offset : front[k] = head[k]
          /\ \A k \in offset + 1 .. offset + n : front[k] = buf[k - offset]
      BY <3>1, <3>2, ConcatElements, ZenonT(40) DEF n
    <3> HIDE DEF front
    <3>5. /\ w \in Seq(Any) /\ Len(w) = offset + n + Len(tail)
          /\ \A k \in 1 .. offset + n : w[k] = front[k]
          /\ \A k \in offset + n + 1 .. offset + n + Len(tail) : w[k] = tail[k - (offset + n)]
      <4>1. w = front \o tail
        BY DEF Contents!Written, front, head, tail, n
      <4> HIDE DEF w
      <4>2. /\ w \in Seq(Any) /\ Len(w) = Len(front) + Len(tail)
            /\ \A k \in 1 .. Len(front) : w[k] = front[k]
            /\ \A k \in Len(front) + 1 .. Len(front) + Len(tail) : w[k] = tail[k - Len(front)]
        BY <4>1, <3>3, <3>4, ConcatElements, ZenonT(40)
      <4>3. QED
        BY <4>2, <3>4, Zenon
    <3> HIDE DEF w
    <3>6. Len(w) = Len(mem') /\ Len(tail) \in Nat
      <4>1. Len(mem') = Largest(Len(mem), offset + n)
        BY <2>1 DEF n
      <4>2. \A a, b \in Nat : Largest(a, b) = b + (IF b <= a THEN a - b ELSE 0)
        BY DEF Largest
      <4>3. offset + n \in Nat /\ Len(tail) \in Nat
        BY <3>1, <3>3
      <4>4. Largest(Len(mem), offset + n) = offset + n + Len(tail)
        BY ZenonT(40), <4>2, <4>3, <3>1, <3>3
      <4>5. QED
        BY <4>1, <4>3, <4>4, <3>5
    <3>7. \A k \in 1 .. Len(mem') : mem'[k] = w[k]
      <4> SUFFICES ASSUME NEW k \in 1 .. Len(mem') PROVE mem'[k] = w[k]
        OBVIOUS
      <4>1. k \in Nat /\ mem'[k] = IF k \in offset + 1 .. offset + n THEN buf[k - offset] ELSE mem[k]
        BY <2>1 DEF n
      <4>2. CASE k \in 1 .. offset
        BY SMTT(40), <4>1, <4>2, <3>1, <3>2, <3>4, <3>5
      <4>3. CASE k \in offset + 1 .. offset + n
        BY <4>1, <4>3, <3>1, <3>4, <3>5, SMTT(40)
      <4>4. CASE k \in offset + n + 1 .. offset + n + Len(tail)
        <5>1. k - (offset + n) \in 1 .. Len(tail) /\ offset + n + (k - (offset + n)) = k
          BY <4>1, <4>4, <3>1, <3>6
        <5>2. tail[k - (offset + n)] = mem[k]
          BY <5>1, <3>3
        <5>3. mem'[k] = mem[k]
          BY <4>1, <4>4, <3>1, <3>6
        <5>4. QED
          BY <4>4, <5>2, <5>3, <3>5
      <4>5. k \in 1 .. offset + n + Len(tail)
        BY <3>5, <3>6
      <4>6. QED
        BY <4>1, <4>2, <4>3, <4>4, <4>5, <3>1, <3>6
    <3>8. QED
      BY <3>1, <3>5, <3>6, <3>7, SameElements DEF w
  <2>4. buffer' = buffer
    BY <1>2 DEF ramfs_write
  <2>5. offset \in 0 .. Len(mem)
    BY <2>1 DEF FileInv, FileTypeOK
  <2>6. Contents!Write(buf, offset)
    BY <2>2, <2>3, <2>4, <2>5 DEF Contents!Write
  <2>7. QED
    BY <2>2, <2>5, <2>6 DEF Contents!Next
<1>3. QED
  BY <1>1, <1>2

\* A read returns the first bytes of the file, no more than were asked for.
LEMMA ReadImplements ==
    ASSUME FileInv, NEW n \in 1 .. MaxSize + 1, MaxSize \in Nat, ramfs_read(n)
    PROVE  [Contents!Next]_<<Memory(mem, 0, size), buffer>>
<1>1. /\ ~past /\ size = Len(mem) /\ mem \in Seq(Any) /\ size \in Nat
      /\ mem' = mem /\ size' = size
  BY DEF ramfs_read, Sound, FileInv, FileTypeOK, SizesAgree
<1>2. Memory(mem, 0, size) = mem
  BY <1>1, WholeFile
<1>3. ToRead(n) \in 0 .. Len(mem)
  BY <1>1 DEF ToRead, Smallest
<1>4. buffer' = SubSeq(mem, 1, ToRead(n))
  <2>1. CASE size = 0
    <3>1. buffer' = <<>> /\ ToRead(n) = 0
      BY <2>1, <1>1 DEF ramfs_read, ToRead, Smallest
    <3>2. QED
      BY <3>1, <1>1
  <2>2. CASE size # 0
    <3> DEFINE b == Memory(mem, 0, ToRead(n))
               f == SubSeq(mem, 1, ToRead(n))
    <3>1. ToRead(n) \in Nat /\ 0 \in Nat
      BY <1>3
    <3>2. /\ b \in Seq(Any) /\ Len(b) = ToRead(n)
          /\ \A k \in 1 .. ToRead(n) :
                b[k] = IF 0 + k <= Len(mem) THEN mem[0 + k] ELSE Foreign
      BY <1>1, <3>1, MemoryReads, Zenon
    <3>3. /\ f \in Seq(Any) /\ Len(f) = ToRead(n)
          /\ \A k \in 1 .. ToRead(n) : f[k] = mem[k]
      BY <1>1, <1>3
    <3> HIDE DEF b, f
    <3>4. \A k \in 1 .. Len(b) : b[k] = f[k]
      BY <1>1, <1>3, <3>2, <3>3
    <3>5. b = f
      BY <3>2, <3>3, <3>4, SameElements
    <3>6. QED
      BY <2>2, <3>5 DEF ramfs_read, b, f
  <2>3. QED
    BY <2>1, <2>2
<1>5. QED
  BY <1>1, <1>2, <1>3, <1>4 DEF Contents!Next, Contents!Read

\* Each step that does not run past the block is a step of FileBytes, or
\* changes nothing a reader could see.
LEMMA FileStepImplements ==
    ASSUME RamfsAssumption, FileInv, [RamfsNext]_ramfsVars, ~past'
    PROVE  [Contents!Next]_<<Memory(mem, 0, size), buffer>>
<1>1. CASE UNCHANGED ramfsVars
  BY <1>1 DEF ramfsVars
<1>2. ASSUME NEW buf \in Buffer, ramfs_init_ustar(buf)
      PROVE  [Contents!Next]_<<Memory(mem, 0, size), buffer>>
  <2>1. /\ mem = <<>> /\ size = 0 /\ mem' = buf /\ size' = Len(buf)
        /\ buf \in Seq(Any) /\ mem \in Seq(Any) /\ size = Len(mem)
        /\ size \in Nat /\ Len(buf) \in Nat /\ buffer' = buffer
    BY <1>2 DEF ramfs_init_ustar, Sound, FileInv, FileTypeOK, SizesAgree, RamfsAssumption, Any
  <2>2. Memory(mem, 0, size) = <<>> /\ Memory(mem', 0, size') = buf
    BY ZenonT(40), <2>1, WholeFile
  <2>3. QED
    BY <2>1, <2>2 DEF Contents!Next, Contents!Unpack
<1>3. QED
  BY <1>1, <1>2, WriteImplements, ReadImplements
  DEF RamfsNext, WriteStart, WriteEnd, RamfsAssumption

\* As long as no write has run past the block, whatever its size, a file of the
\* memory file system is a file as FileBytes promises it.
THEOREM FilesKeepTheirBytes == ASSUME RamfsAssumption PROVE RamfsSpec => FileRefinement
<1>1. RamfsInit => Contents!Init
  BY DEF RamfsInit, Contents!Init, Memory
<1>2. ASSUME RamfsAssumption, FileInv, [RamfsNext]_ramfsVars
      PROVE  [~past' => [Contents!Next]_<<Memory(mem, 0, size), buffer>>]_ramfsVars
  BY <1>2, FileStepImplements
<1>3. QED
  BY <1>1, <1>2, FileInit, FileStepKeeps, PTL DEF RamfsSpec, FileRefinement

-----------------------------------------------------------------------------
(* Programs.                                                               *)

Page(s, k) == [write |-> s.write, exec |-> s.exec, bytes |-> Filled(s, k)]

LoadTypeOK ==
    /\ ph \in Seq(Segment) /\ i \in Nat \ {0} /\ page \in Nat
    /\ status = "none" => DOMAIN space = {} /\ i = 1 /\ page = 0
    /\ status = "loaded" => i > Len(ph)

\* What is mapped was put there for a segment.
FromSegments ==
    \A p \in DOMAIN space : \E j \in DOMAIN ph :
        /\ ph[j].load /\ p \in PagesOf(ph[j])
        /\ \E k \in Nat : p = Start(ph[j]) + k /\ space[p] = Page(ph[j], k)

\* The pages 0 to n - 1 of a segment are as they should be.
Has(s, n) == \A k \in 0 .. n - 1 : Start(s) + k \in DOMAIN space /\ space[Start(s) + k] = Page(s, k)

Apart ==
    \A j, k \in DOMAIN ph :
        j # k /\ ph[j].load /\ ph[k].load => PagesOf(ph[j]) \cap PagesOf(ph[k]) = {}

\* What the loops have done
DoneSoFar ==
    Apart => \A j \in DOMAIN ph : ph[j].load =>
                /\ j < i => Has(ph[j], End(ph[j]) - Start(ph[j]))
                /\ j = i => Has(ph[j], page)

LoadInv == LoadTypeOK /\ FromSegments /\ DoneSoFar

\* Division with a remainder
LEMMA DivMod ==
    ASSUME NEW m \in Nat \ {0}, NEW a \in Nat
    PROVE  /\ a \div m \in Nat /\ a % m \in 0 .. m - 1
           /\ a = (a \div m) * m + (a % m)
OBVIOUS

LEMMA Product ==
    ASSUME NEW m \in Nat \ {0}, NEW k \in Nat
    PROVE  k * m \in Nat /\ (k >= 1 => k * m >= m)
OBVIOUS

LEMMA Quotients ==
    ASSUME NEW m \in Nat \ {0}, NEW q \in Nat, NEW r \in Nat,
           NEW b \in 0 .. m - 1, NEW c \in 0 .. m - 1, q * m + b <= r * m + c
    PROVE  q <= r
OBVIOUS

\* The pages of a segment are numbers.
LEMMA PageNumbers ==
    ASSUME ElfAssumption, NEW s \in Segment
    PROVE  /\ Start(s) \in Nat /\ End(s) \in Nat
           /\ s.vaddr % PageSize \in 0 .. PageSize - 1
           /\ s.vaddr = Start(s) * PageSize + (s.vaddr % PageSize)
<1>1. PageSize \in Nat \ {0} /\ s.vaddr \in Nat /\ s.vaddr + s.memsz + PageSize - 1 \in Nat
  BY DEF ElfAssumption
<1>2. QED
  BY ZenonT(40), <1>1, DivMod DEF Start, End, AlignDown, AlignUp, ElfAssumption

\* A byte that a page gets from the file is one of the segment's.
LEMMA FilledFromFile ==
    ASSUME ElfAssumption, NEW s \in Segment, NEW k \in Nat, NEW b \in 0 .. PageSize - 1,
           Filled(s, k)[b] # Zero
    PROVE  Filled(s, k)[b] \in s.offset .. s.offset + s.filesz - 1
<1>1. /\ PageSize \in Nat \ {0} /\ k * PageSize \in Nat
      /\ s.offset \in Nat /\ s.filesz \in Nat
  BY Product DEF ElfAssumption
<1>2. PageDataOffset(s, k) \in Nat
  BY PageNumbers DEF PageDataOffset
<1> DEFINE from == b - PageDataOffset(s, k)
<1>3. Filled(s, k)[b] = IF HasData(s, k) /\ b >= PageDataOffset(s, k) /\ from < CopySize(s, k)
                        THEN CopyOffset(s, k) + from ELSE Zero
  BY DEF Filled
<1>4. HasData(s, k) /\ b >= PageDataOffset(s, k) /\ from < CopySize(s, k)
  BY <1>3
<1>5. CopySize(s, k) <= (s.offset + s.filesz) - CopyOffset(s, k)
  BY <1>1, <1>2 DEF CopySize, CopyOffset
<1>6. QED
  BY <1>1, <1>2, <1>3, <1>4, <1>5 DEF CopyOffset, CopySize

\* A page that is mapped leaves the others as they were.
LEMMA MappedPages ==
    ASSUME NEW s, NEW k
    PROVE  /\ DOMAIN Mapped(s, k) = DOMAIN space \cup {Start(s) + k}
           /\ Mapped(s, k)[Start(s) + k] = Page(s, k)
           /\ \A p \in DOMAIN space : p # Start(s) + k => Mapped(s, k)[p] = space[p]
BY DEF Mapped, Page

\* The turn of the inner loop that maps a page
LEMMA LoadPageKeeps ==
    ASSUME ElfAssumption, LoadInv, LoadPage
    PROVE  LoadInv'
<1> DEFINE s == ph[i]
           p == Start(s) + page
<1>1. /\ i \in DOMAIN ph /\ s \in Segment /\ s.load /\ p < End(s)
      /\ space' = Mapped(s, page) /\ page' = page + 1 /\ ph' = ph /\ i' = i /\ status' = status
      /\ status = "loading"
  BY DEF LoadPage, LoadInv, LoadTypeOK
<1>2. Start(s) \in Nat /\ End(s) \in Nat /\ page \in Nat /\ p \in Nat
  BY <1>1, PageNumbers, SMTT(40) DEF LoadInv, LoadTypeOK
<1>3. p \in PagesOf(s)
  BY <1>1, <1>2 DEF PagesOf
<1>4. /\ DOMAIN space' = DOMAIN space \cup {p} /\ space'[p] = Page(s, page)
      /\ \A q \in DOMAIN space : q # p => space'[q] = space[q]
  BY ZenonT(40), <1>1, MappedPages
<1>5. LoadTypeOK'
  BY <1>1, <1>2 DEF LoadInv, LoadTypeOK
<1>6. FromSegments'
  <2> SUFFICES ASSUME NEW q \in DOMAIN space'
               PROVE  \E j \in DOMAIN ph :
                         /\ ph[j].load /\ q \in PagesOf(ph[j])
                         /\ \E k \in Nat : q = Start(ph[j]) + k /\ space'[q] = Page(ph[j], k)
    BY <1>1 DEF FromSegments
  <2>1. CASE q = p
    BY <2>1, <1>1, <1>2, <1>3, <1>4
  <2>2. CASE q # p
    BY <2>2, <1>4 DEF LoadInv, FromSegments
  <2>3. QED
    BY <2>1, <2>2
<1>7. DoneSoFar'
  <2> SUFFICES ASSUME Apart, NEW j \in DOMAIN ph, ph[j].load
               PROVE  /\ j < i => Has(ph[j], End(ph[j]) - Start(ph[j]))'
                      /\ j = i => Has(ph[j], page)'
    BY <1>1 DEF DoneSoFar, Apart, Has
  <2>1. ASSUME j < i PROVE Has(ph[j], End(ph[j]) - Start(ph[j]))'
    <3>1. Has(ph[j], End(ph[j]) - Start(ph[j])) /\ ph[j] \in Segment
      BY <2>1 DEF LoadInv, DoneSoFar, LoadTypeOK
    <3>2. p \notin PagesOf(ph[j])
      <4>1. j # i
        BY <2>1 DEF LoadInv, LoadTypeOK
      <4>2. QED
        BY <4>1, <1>1, <1>3 DEF Apart
    <3>3. ASSUME NEW k \in 0 .. (End(ph[j]) - Start(ph[j])) - 1
          PROVE  Start(ph[j]) + k \in DOMAIN space' /\ space'[Start(ph[j]) + k] = Page(ph[j], k)
      <4>1. Start(ph[j]) + k \in PagesOf(ph[j])
        BY <3>1, PageNumbers DEF PagesOf
      <4>2. Start(ph[j]) + k # p
        BY <4>1, <3>2
      <4>3. Start(ph[j]) + k \in DOMAIN space /\ space[Start(ph[j]) + k] = Page(ph[j], k)
        BY <3>1 DEF Has
      <4>4. QED
        BY <4>2, <4>3, <1>4
    <3>4. QED
      BY <3>3, <1>1 DEF Has
  <2>2. ASSUME j = i PROVE Has(ph[j], page)'
    <3>1. Has(s, page)
      BY <2>2 DEF LoadInv, DoneSoFar
    <3>2. ASSUME NEW k \in 0 .. (page + 1) - 1
          PROVE  Start(s) + k \in DOMAIN space' /\ space'[Start(s) + k] = Page(s, k)
      <4>1. CASE k = page
        BY <4>1, <1>4
      <4>2. CASE k # page
        <5>1. k \in 0 .. page - 1 /\ Start(s) + k # p
          BY <4>2, <1>2
        <5>2. Start(s) + k \in DOMAIN space /\ space[Start(s) + k] = Page(s, k)
          BY <3>1, <5>1 DEF Has
        <5>3. QED
          BY <5>1, <5>2, <1>4
      <4>3. QED
        BY <4>1, <4>2
    <3>3. QED
      BY <2>2, <3>2, <1>1 DEF Has
  <2>3. QED
    BY <2>1, <2>2
<1>8. QED
  BY <1>5, <1>6, <1>7 DEF LoadInv

\* The end of a segment: all its pages are done.
LEMMA NextSegmentKeeps ==
    ASSUME ElfAssumption, LoadInv, NextSegment
    PROVE  LoadInv'
<1>1. /\ ph' = ph /\ space' = space /\ i' = i + 1 /\ page' = 0 /\ status' = status
      /\ i \in DOMAIN ph /\ i \in Nat /\ page \in Nat /\ status = "loading"
      /\ ph[i].load => Start(ph[i]) + page >= End(ph[i])
  BY DEF NextSegment, LoadInv, LoadTypeOK
<1>2. LoadTypeOK' /\ FromSegments'
  BY <1>1 DEF LoadInv, LoadTypeOK, FromSegments
<1>3. DoneSoFar'
  <2> SUFFICES ASSUME Apart, NEW j \in DOMAIN ph, ph[j].load
               PROVE  /\ j < i + 1 => Has(ph[j], End(ph[j]) - Start(ph[j]))
                      /\ j = i + 1 => Has(ph[j], 0)
    BY <1>1 DEF DoneSoFar, Apart, Has
  <2>1. j = i => Has(ph[j], End(ph[j]) - Start(ph[j]))
    <3> SUFFICES ASSUME j = i, NEW k \in 0 .. (End(ph[i]) - Start(ph[i])) - 1
                 PROVE  Start(ph[i]) + k \in DOMAIN space /\ space[Start(ph[i]) + k] = Page(ph[i], k)
      BY DEF Has
    <3>1. Start(ph[i]) \in Nat /\ End(ph[i]) \in Nat
      BY <1>1, PageNumbers DEF LoadInv, LoadTypeOK
    <3>2. k \in 0 .. page - 1
      BY <1>1, <3>1
    <3>3. QED
      BY <3>2 DEF LoadInv, DoneSoFar, Has
  <2>2. j < i => Has(ph[j], End(ph[j]) - Start(ph[j]))
    BY DEF LoadInv, DoneSoFar
  <2>3. Has(ph[j], 0)
    BY DEF Has
  <2>4. j \in Nat
    BY DEF LoadInv, LoadTypeOK
  <2>5. QED
    BY <1>1, <2>1, <2>2, <2>3, <2>4
<1>4. QED
  BY <1>2, <1>3 DEF LoadInv

\* The call, with any program headers
LEMMA CallKeeps ==
    ASSUME ElfAssumption, LoadInv, elf_load_binary
    PROVE  LoadInv'
<1>1. /\ DOMAIN space = {} /\ i = 1 /\ page = 0
      /\ space' = space /\ i' = i /\ page' = page /\ status' \in {"loading", "failed"}
  BY DEF elf_load_binary, LoadInv, LoadTypeOK
<1>2. ph' \in Seq(Segment)
  BY DEF elf_load_binary, ElfAssumption
<1>3. LoadTypeOK' /\ FromSegments'
  BY <1>1, <1>2 DEF LoadTypeOK, FromSegments
<1>4. \A j \in DOMAIN ph' : ~(j < 1)
  BY <1>2
<1>5. DoneSoFar'
  BY <1>1, <1>4 DEF DoneSoFar, Has
<1>6. QED
  BY <1>3, <1>5 DEF LoadInv

\* The invariant holds at the start and is kept by every step.
LEMMA LoadInit == ASSUME ElfInit PROVE LoadInv
<1>1. <<>> \in Seq(Segment) /\ DOMAIN <<>> = {}
  OBVIOUS
<1>2. QED
  BY <1>1 DEF ElfInit, LoadInv, LoadTypeOK, FromSegments, DoneSoFar

LEMMA LoadStepKeeps ==
    ASSUME ElfAssumption, LoadInv, [ElfNext]_elfVars
    PROVE  LoadInv'
<1>1. CASE UNCHANGED elfVars
  BY <1>1 DEF elfVars, LoadInv, LoadTypeOK, FromSegments, DoneSoFar, Apart, Has
<1>2. CASE OutOfMemory
  BY <1>2 DEF OutOfMemory, LoadInv, LoadTypeOK, FromSegments, DoneSoFar, Apart, Has
<1>3. CASE Loaded
  BY <1>3 DEF Loaded, LoadInv, LoadTypeOK, FromSegments, DoneSoFar, Apart, Has
<1>4. QED
  BY Zenon, <1>1, <1>2, <1>3, LoadPageKeeps, NextSegmentKeeps, CallKeeps DEF ElfNext

\* For any page size, any program headers and memory that may run out at any
\* page: a page holds zeros and bytes of segments on that page, nothing else.
THEOREM PagesHoldOnlyFileData == ASSUME ElfAssumption PROVE ElfSpec => []OnlyFileData
<1>1. ASSUME ElfAssumption, LoadInv PROVE OnlyFileData
  <2> SUFFICES ASSUME NEW p \in DOMAIN space, NEW b \in 0 .. PageSize - 1,
                      space[p].bytes[b] # Zero
               PROVE  \E s \in Segments :
                         /\ p \in PagesOf(s)
                         /\ space[p].bytes[b] \in s.offset .. s.offset + s.filesz - 1
    BY DEF OnlyFileData
  <2>1. PICK j \in DOMAIN ph, k \in Nat :
            ph[j].load /\ p \in PagesOf(ph[j]) /\ space[p] = Page(ph[j], k)
    BY <1>1 DEF LoadInv, FromSegments
  <2>2. ph[j] \in Segment /\ ph[j] \in Segments
    BY <1>1, <2>1 DEF LoadInv, LoadTypeOK, Segments
  <2>3. space[p].bytes[b] = Filled(ph[j], k)[b]
    BY <2>1 DEF Page
  <2>4. QED
    BY <1>1, <2>1, <2>2, <2>3, FilledFromFile
<1>2. QED
  BY <1>1, LoadInit, LoadStepKeeps, PTL DEF ElfSpec

-----------------------------------------------------------------------------
\* Where the n-th byte of a segment goes, and that it is the right one, when the
\* file part starts on a page or ends on the page it starts on
LEMMA ByteInPlace ==
    ASSUME ElfAssumption, NEW s \in Segment, NEW n \in 0 .. s.memsz - 1,
           s.vaddr % PageSize = 0 \/ (s.vaddr % PageSize) + s.filesz <= PageSize
    PROVE  LET p == (s.vaddr + n) \div PageSize
               b == (s.vaddr + n) % PageSize IN
           /\ p \in PagesOf(s)
           /\ Filled(s, p - Start(s))[b] = IF n < s.filesz THEN s.offset + n ELSE Zero
<1> DEFINE m == PageSize
           p == (s.vaddr + n) \div m
           b == (s.vaddr + n) % m
           q == Start(s)
           r == s.vaddr % m
           k == p - q
<1>1. /\ m \in Nat \ {0} /\ s.vaddr \in Nat /\ s.offset \in Nat /\ s.filesz \in Nat
      /\ s.memsz \in Nat /\ n \in Nat /\ n < s.memsz
  BY DEF ElfAssumption
<1>2. p \in Nat /\ b \in 0 .. m - 1 /\ s.vaddr + n = p * m + b
  <2>1. s.vaddr + n \in Nat
    BY <1>1
  <2>2. QED
    BY <1>1, <2>1, DivMod, Zenon
<1>3. q \in Nat /\ r \in 0 .. m - 1 /\ s.vaddr = q * m + r /\ End(s) \in Nat
  BY PageNumbers
<1> HIDE DEF m, p, b, q, r
<1>4. k \in Nat
  <2>1. q * m + r <= p * m + b
    BY <1>1, <1>2, <1>3
  <2>2. QED
    BY <2>1, <1>1, <1>2, <1>3, Quotients
<1>5. p < End(s)
  <2> DEFINE e == s.vaddr + s.memsz + m - 1
             c == e % m
  <2>1. e \in Nat /\ End(s) = e \div m
    BY <1>1 DEF End, AlignUp, m
  <2> HIDE DEF e
  <2>2. e \div m \in Nat /\ c \in 0 .. m - 1 /\ e = (e \div m) * m + c
    BY ZenonT(40), <1>1, <2>1, DivMod
  <2>3. (p + 1) * m + b <= e
    <3>1. (p + 1) * m = p * m + m
      BY <1>1, <1>2
    <3>2. QED
      BY <1>1, <1>2, <3>1 DEF e
  <2> HIDE DEF c
  <2>4. p + 1 <= e \div m
    <3>1. p + 1 \in Nat /\ (p + 1) * m + b <= (e \div m) * m + c
      BY <1>2, <2>2, <2>3
    <3>2. QED
      BY <3>1, <1>1, <1>2, <2>2, Quotients
  <2>5. QED
    BY <2>1, <2>4, <1>2, <2>2
<1>6. p \in PagesOf(s)
  BY <1>2, <1>3, <1>4, <1>5 DEF PagesOf, q
<1>7. n + r = k * m + b /\ k * m \in Nat /\ (k >= 1 => k * m >= m)
  <2>1. k * m = p * m - q * m
    BY <1>1, <1>2, <1>3
  <2>2. QED
    BY <2>1, <1>1, <1>2, <1>3, <1>4, Product
<1> HIDE DEF k
<1> DEFINE o == PageDataOffset(s, k)
<1>8. o = IF k = 0 THEN r ELSE 0
  BY DEF PageDataOffset, r, m
<1>9. Filled(s, k)[b] = IF HasData(s, k) /\ b >= o /\ b - o < CopySize(s, k)
                        THEN CopyOffset(s, k) + (b - o) ELSE Zero
  BY <1>2 DEF Filled, m
<1>10. /\ CopyOffset(s, k) = s.offset + k * m
       /\ HasData(s, k) <=> k * m < s.filesz
       /\ CopySize(s, k) = IF s.filesz - k * m < m - o THEN s.filesz - k * m ELSE m - o
  BY <1>1, <1>3, <1>7, <1>8 DEF CopyOffset, HasData, CopySize, m
<1> HIDE DEF o
<1>11. r = 0 \/ r + s.filesz <= m
  BY DEF r, m
<1>12. CASE k = 0
  <2>1. k * m = 0
    BY <1>12, <1>1
  <2>2. b = n + r /\ o = r
    BY <2>1, <1>2, <1>3, <1>7, <1>8, <1>12
  <2>3. Filled(s, k)[b] = IF n < s.filesz THEN s.offset + n ELSE Zero
    BY <2>1, <2>2, <1>1, <1>2, <1>3, <1>9, <1>10
  <2>4. QED
    BY <2>3, <1>6 DEF p, b, k, q, m
<1>13. CASE k # 0
  <2>1. k * m >= m /\ o = 0
    BY <1>4, <1>7, <1>8, <1>13
  <2>2. CASE r = 0
    <3>1. n = k * m + b
      BY <2>2, <1>1, <1>2, <1>7
    <3>2. Filled(s, k)[b] = IF n < s.filesz THEN s.offset + n ELSE Zero
      BY <2>1, <3>1, <1>1, <1>2, <1>7, <1>9, <1>10
    <3>3. QED
      BY <3>2, <1>6 DEF p, b, k, q, m
  <2>3. CASE r + s.filesz <= m
    <3>1. ~(k * m < s.filesz) /\ ~(n < s.filesz)
      BY <2>1, <2>3, <1>1, <1>2, <1>3, <1>7
    <3>2. Filled(s, k)[b] = Zero
      BY ZenonT(40), <3>1, <1>9, <1>10
    <3>3. QED
      BY <3>1, <3>2, <1>6 DEF p, b, k, q, m
  <2>4. QED
    BY <2>2, <2>3, <1>11
<1>14. QED
  BY <1>12, <1>13

\* For any page size and any number of segments: a program whose segments share
\* no page, and whose file parts start on a page or end on the page they start
\* on, is loaded byte for byte, with the rights of its segments.
THEOREM ProgramsLoadedExactly == ASSUME ElfAssumption PROVE ElfSpec => []LoadedExactly
<1>1. ASSUME ElfAssumption, LoadInv PROVE LoadedExactly
  <2> SUFFICES ASSUME Regular, status = "loaded"
               PROVE  /\ DOMAIN space = UNION {PagesOf(s) : s \in Segments}
                      /\ \A s \in Segments :
                            /\ \A p \in PagesOf(s) : space[p].write = s.write /\ space[p].exec = s.exec
                            /\ \A n \in 0 .. s.memsz - 1 :
                                  space[(s.vaddr + n) \div PageSize].bytes[(s.vaddr + n) % PageSize]
                                      = IF n < s.filesz THEN s.offset + n ELSE Zero
    BY DEF LoadedExactly
  <2>1. ASSUME NEW s \in Segments
        PROVE  /\ s \in Segment
               /\ \A p \in PagesOf(s) : p \in DOMAIN space /\ space[p] = Page(s, p - Start(s))
    <3>1. PICK j \in DOMAIN ph : ph[j].load /\ s = ph[j]
      BY <2>1 DEF Segments
    <3>2. s \in Segment /\ j < i
      BY <1>1, <3>1 DEF LoadInv, LoadTypeOK
    <3>3. Has(s, End(s) - Start(s))
      BY <1>1, <3>1, <3>2 DEF LoadInv, DoneSoFar, Apart, Regular
    <3>4. ASSUME NEW p \in PagesOf(s)
          PROVE  p \in DOMAIN space /\ space[p] = Page(s, p - Start(s))
      <4>1. p - Start(s) \in 0 .. (End(s) - Start(s)) - 1 /\ Start(s) + (p - Start(s)) = p
        BY <1>1, <3>2, PageNumbers DEF PagesOf
      <4>2. QED
        BY <3>3, <4>1 DEF Has
    <3>5. QED
      BY <3>2, <3>4
  <2>2. DOMAIN space = UNION {PagesOf(s) : s \in Segments}
    <3>1. ASSUME NEW p \in DOMAIN space PROVE p \in UNION {PagesOf(s) : s \in Segments}
      BY <1>1 DEF LoadInv, FromSegments, Segments
    <3>2. QED
      BY <2>1, <3>1
  <2>3. ASSUME NEW s \in Segments, NEW p \in PagesOf(s)
        PROVE  space[p].write = s.write /\ space[p].exec = s.exec
    <3>1. space[p] = Page(s, p - Start(s))
      BY Zenon, <2>1, <2>3
    <3>2. QED
      BY <3>1 DEF Page
  <2>4. ASSUME NEW s \in Segments, NEW n \in 0 .. s.memsz - 1
        PROVE  space[(s.vaddr + n) \div PageSize].bytes[(s.vaddr + n) % PageSize]
                   = IF n < s.filesz THEN s.offset + n ELSE Zero
    <3> DEFINE p == (s.vaddr + n) \div PageSize
               b == (s.vaddr + n) % PageSize
    <3>1. s \in Segment /\ (s.vaddr % PageSize = 0 \/ (s.vaddr % PageSize) + s.filesz <= PageSize)
      BY <2>1 DEF Regular
    <3>2. p \in PagesOf(s) /\ Filled(s, p - Start(s))[b] = IF n < s.filesz THEN s.offset + n ELSE Zero
      BY <1>1, <3>1, ByteInPlace
    <3> HIDE DEF p, b
    <3>3. space[p].bytes = Filled(s, p - Start(s))
      <4>1. space[p] = Page(s, p - Start(s))
        BY <2>1, <3>2
      <4>2. QED
        BY <4>1 DEF Page
    <3>4. space[p].bytes[b] = IF n < s.filesz THEN s.offset + n ELSE Zero
      BY <3>2, <3>3
    <3>5. QED
      BY <3>4 DEF p, b
  <2>5. QED
    BY SMTT(40), <2>2, <2>3, <2>4
<1>2. QED
  BY <1>1, LoadInit, LoadStepKeeps, PTL DEF ElfSpec

-----------------------------------------------------------------------------
(* The archive.                                                            *)

Cut(path, k) == Archive!Prefix(path, k)

\* What ramfs_init_ustar makes is a tree with the root directory at its root:
\* with a path every shorter one exists, and is a directory.
Rooted(t) ==
    /\ <<>> \in DOMAIN t /\ t[<<>>].dir
    /\ DOMAIN t \subseteq Seq(STRING)
    /\ \A p \in DOMAIN t : \A k \in 0 .. Len(p) - 1 : Cut(p, k) \in DOMAIN t /\ t[Cut(p, k)].dir

\* The beginnings of a path
LEMMA CutPath ==
    ASSUME NEW p \in Seq(STRING), NEW k \in 0 .. Len(p)
    PROVE  /\ Cut(p, k) \in Seq(STRING) /\ Len(Cut(p, k)) = k
           /\ \A j \in 1 .. k : Cut(p, k)[j] = p[j]
<1>1. k \in Nat /\ Cut(p, k) \in [1 .. k -> STRING] /\ \A j \in 1 .. k : Cut(p, k)[j] = p[j]
  BY DEF Cut, Archive!Prefix
<1> HIDE DEF Cut
<1> QED BY <1>1

\* The beginning of a beginning of a path
LEMMA CutTwice ==
    ASSUME NEW p \in Seq(STRING), NEW k \in 0 .. Len(p), NEW j \in 0 .. k
    PROVE  Cut(Cut(p, k), j) = Cut(p, j)
<1>1. \A h \in 1 .. j : h \in 1 .. k
  OBVIOUS
<1>2. \A h \in 1 .. j : Cut(p, k)[h] = p[h]
  BY <1>1, CutPath
<1> QED BY <1>2 DEF Cut, Archive!Prefix

\* The longest beginning is the path, the shortest the root.
LEMMA CutWhole ==
    ASSUME NEW p \in Seq(STRING)
    PROVE  Cut(p, Len(p)) = p /\ Cut(p, 0) = <<>> /\ (p # <<>> => Len(p) > 0)
<1>1. Len(p) \in 0 .. Len(p) /\ 0 \in 0 .. Len(p)
  OBVIOUS
<1>2. Cut(p, Len(p)) \in Seq(STRING) /\ Len(Cut(p, Len(p))) = Len(p)
      /\ \A j \in 1 .. Len(p) : Cut(p, Len(p))[j] = p[j]
  BY <1>1, CutPath
<1>3. Cut(p, 0) \in Seq(STRING) /\ Len(Cut(p, 0)) = 0
  BY <1>1, CutPath
<1> QED BY <1>2, <1>3

\* The loop over the components of a path stops at the first that is not there.
LEMMA FirstMissing ==
    ASSUME NEW p \in Seq(STRING), Rooted(tree), NEW k \in 1 .. Len(p), Archive!Missing(p, k)
    PROVE  /\ Cut(p, k) \notin DOMAIN tree
           /\ \A j \in 0 .. k - 1 : Cut(p, j) \in DOMAIN tree
<1>1. Cut(p, k) \notin DOMAIN tree /\ \A j \in 1 .. k - 1 : Cut(p, j) \in DOMAIN tree
  BY DEF Archive!Missing, Cut
<1>2. Cut(p, 0) \in DOMAIN tree
  BY CutWhole DEF Rooted
<1>3. ASSUME NEW j \in 0 .. k - 1 PROVE j = 0 \/ j \in 1 .. k - 1
  OBVIOUS
<1> QED BY <1>1, <1>2, <1>3

\* It goes over all components of a path that is there.
LEMMA NoneMissing ==
    ASSUME NEW p \in Seq(STRING), Rooted(tree), \A k \in DOMAIN p : Cut(p, k) \in DOMAIN tree
    PROVE  p \in DOMAIN tree
<1>1. CASE p = <<>>
  BY <1>1 DEF Rooted
<1>2. CASE p # <<>>
  <2>1. Len(p) \in DOMAIN p
    BY SMTT(40), <1>2
  <2> QED BY <2>1, CutWhole
<1> QED BY <1>1, <1>2

\* A vnode that is made in a directory
LEMMA AddedRooted ==
    ASSUME NEW p \in Seq(STRING), Rooted(tree), NEW k \in 1 .. Len(p), Archive!Missing(p, k),
           NEW made, made = Cut(p, k), tree[Archive!Parent(made)].dir, NEW what
    PROVE  Rooted(Archive!Added(made, what))
<1> DEFINE t == Archive!Added(made, what)
<1>1. k \in 1 .. Len(p) /\ made \notin DOMAIN tree /\ \A j \in 0 .. k - 1 : Cut(p, j) \in DOMAIN tree
  BY FirstMissing
<1>2. made = Cut(p, k) /\ made \in Seq(STRING) /\ Len(made) = k
  BY <1>1, CutPath
<1>3. \A j \in 0 .. k - 1 : Cut(made, j) = Cut(p, j) /\ Cut(made, j) \in DOMAIN tree
  BY <1>1, <1>2, CutTwice
<1>4. DOMAIN t = DOMAIN tree \cup {made} /\ \A q \in DOMAIN tree : t[q] = tree[q]
  BY <1>1 DEF Archive!Added
<1> HIDE DEF t
<1>5. Archive!Parent(made) = Cut(made, k - 1)
  BY <1>2 DEF Archive!Parent, Cut
<1>6. ASSUME NEW j \in 0 .. k - 1 PROVE tree[Cut(made, j)].dir
  <2>1. CASE j = k - 1
    BY <2>1, <1>5
  <2>2. CASE j # k - 1
    <3> DEFINE up == Cut(made, k - 1)
    <3>1. k - 1 \in 0 .. Len(made) /\ k - 1 \in 0 .. k - 1 /\ j \in 0 .. k - 1 - 1
      BY <1>1, <1>2, <2>2
    <3>2. up \in Seq(STRING) /\ Len(up) = k - 1 /\ up \in DOMAIN tree
      BY <3>1, <1>2, <1>3, CutPath
    <3>3. Cut(up, j) = Cut(made, j)
      BY <3>1, <1>2, CutTwice
    <3>4. j \in 0 .. Len(up) - 1
      BY Zenon, <3>1, <3>2
    <3> HIDE DEF up
    <3>5. tree[Cut(up, j)].dir
      BY Zenon, <3>2, <3>4 DEF Rooted
    <3> QED BY <3>3, <3>5
  <2> QED BY <2>1, <2>2
<1>7. \A q \in DOMAIN t : \A j \in 0 .. Len(q) - 1 : Cut(q, j) \in DOMAIN t /\ t[Cut(q, j)].dir
  <2>1. \A q \in DOMAIN tree : \A j \in 0 .. Len(q) - 1 : Cut(q, j) \in DOMAIN t /\ t[Cut(q, j)].dir
    BY <1>4 DEF Rooted
  <2>2. \A j \in 0 .. Len(made) - 1 : Cut(made, j) \in DOMAIN t /\ t[Cut(made, j)].dir
    BY <1>2, <1>3, <1>4, <1>6
  <2> QED BY Zenon, <2>1, <2>2, <1>4
<1> QED BY <1>2, <1>4, <1>7 DEF Rooted, t

-----------------------------------------------------------------------------
(* The archive: where its entries start.                                   *)
Block == [header : BOOLEAN, of : Entry, part : Nat]
Blocks(e) == Archive!DataBlocks(e.size)
EntryAt(bs, at, e) ==
    /\ bs[at].of = e
    /\ \A j \in 1 .. Blocks(e) : bs[at + j] = [header |-> FALSE, of |-> e, part |-> j]
Layout(es, bs, start) ==
    /\ start \in [1 .. Len(es) + 1 -> 1 .. Len(bs) + 1]
    /\ start[1] = 1 /\ start[Len(es) + 1] = Len(bs) + 1
    /\ \A k \in 1 .. Len(es) :
          start[k + 1] = start[k] + 1 + Blocks(es[k]) /\ EntryAt(bs, start[k], es[k])

\* The loop is at the n-th entry, and has made the ones before it.
Node(e) == IF e.dir THEN Archive!Directory ELSE Archive!File(Archive!DataOf(e))
Made(t, es, n) ==
    /\ DOMAIN t = {<<>>} \cup {es[k].path : k \in 1 .. n - 1}
    /\ t[<<>>] = Archive!Directory
    /\ \A k \in 1 .. n - 1 : t[es[k].path] = Node(es[k])
Reached(start, n) ==
    /\ n \in 1 .. Len(entries) + 1 /\ pos = start[n]
    /\ unpack = "packing" => n = 1 /\ tree = Archive!Root
    /\ unpack = "done" => n = Len(entries) + 1
    /\ Archive!ParentsFirst =>
          /\ unpack # "fault"
          /\ unpack # "given up" => Made(tree, entries, n)

ArchiveInv ==
    /\ entries \in Seq(Entry) /\ blocks \in Seq(Block) /\ Rooted(tree)
    /\ \E start : Layout(entries, blocks, start) /\ \E n : Reached(start, n)

\* What is known of the entries of an archive
LEMMA EntryFacts ==
    ASSUME NEW e \in Entry
    PROVE  /\ e.path \in Seq(STRING) /\ e.dir \in BOOLEAN /\ e.size \in Nat
           /\ e.path = <<>> => e.dir
           /\ Blocks(e) \in Nat
<1>1. BlockSize \in Nat \ {0} /\ e.size \in Nat
  BY StartupAssumption DEF Archive!UstarAssumption
<1>2. \A a \in Nat, m \in Nat \ {0} : a \div m \in Nat
  OBVIOUS
<1>3. e.size + BlockSize - 1 \in Nat
  BY <1>1
<1>4. Blocks(e) \in Nat
  BY <1>1, <1>2, <1>3 DEF Blocks, Archive!DataBlocks
<1> QED BY <1>4, StartupAssumption DEF Archive!UstarAssumption

\* The blocks of an entry
LEMMA LaidBlocks ==
    ASSUME NEW e \in Entry, NEW bs \in Seq(Block), NEW cs, cs = bs \o Archive!Laid(e)
    PROVE  /\ cs \in Seq(Block) /\ Len(cs) = Len(bs) + 1 + Blocks(e) /\ Len(bs) \in Nat
           /\ \A k \in 1 .. Len(bs) : cs[k] = bs[k]
           /\ EntryAt(cs, Len(bs) + 1, e)
<1> DEFINE head == [header |-> TRUE, of |-> e, part |-> 0]
           data == Archive!DataOf(e)
           laid == <<head>> \o data
<1>1. Blocks(e) \in Nat
  BY EntryFacts
<1>2. /\ data \in [1 .. Blocks(e) -> Block]
      /\ \A j \in 1 .. Blocks(e) : data[j] = [header |-> FALSE, of |-> e, part |-> j]
  BY <1>1 DEF Archive!DataOf, Blocks, Block
<1>3. head \in Block /\ head.of = e
  BY DEF Block
<1> HIDE DEF data, head
<1>4. data \in Seq(Block) /\ Len(data) = Blocks(e)
  BY <1>1, <1>2
<1>5. /\ laid \in Seq(Block) /\ Len(laid) = 1 + Blocks(e) /\ laid[1] = head
      /\ \A j \in 1 .. Blocks(e) : laid[1 + j] = data[j]
  BY <1>1, <1>3, <1>4
<1>6. cs = bs \o laid
  BY Zenon DEF Archive!Laid, head, data
<1> HIDE DEF laid
<1>7. /\ cs \in Seq(Block) /\ Len(cs) = Len(bs) + 1 + Blocks(e) /\ Len(bs) \in Nat
      /\ \A k \in 1 .. Len(bs) : cs[k] = bs[k]
      /\ \A j \in 1 .. 1 + Blocks(e) : cs[Len(bs) + j] = laid[j]
  BY <1>1, <1>5, <1>6
<1>8. cs[Len(bs) + 1].of = e
  BY <1>1, <1>3, <1>5, <1>7
<1>9. ASSUME NEW j \in 1 .. Blocks(e)
      PROVE  cs[Len(bs) + 1 + j] = [header |-> FALSE, of |-> e, part |-> j]
  <2>1. 1 + j \in 1 .. 1 + Blocks(e) /\ Len(bs) + (1 + j) = Len(bs) + 1 + j
    BY <1>1, <1>7
  <2>2. cs[Len(bs) + (1 + j)] = laid[1 + j]
    BY ZenonT(40), <2>1, <1>7
  <2> QED BY ZenonT(40), <2>1, <2>2, <1>2, <1>5
<1> QED BY ZenonT(40), <1>7, <1>8, <1>9 DEF EntryAt

\* Packing more leaves what was packed in its place.
LEMMA EntryKept ==
    ASSUME NEW bs \in Seq(Block), NEW cs, \A k \in 1 .. Len(bs) : cs[k] = bs[k],
           NEW e \in Entry, NEW at \in Nat, at >= 1, at + Blocks(e) <= Len(bs), EntryAt(bs, at, e)
    PROVE  EntryAt(cs, at, e)
<1>1. Blocks(e) \in Nat /\ Len(bs) \in Nat
  BY EntryFacts
<1>2. at \in 1 .. Len(bs) /\ \A j \in 1 .. Blocks(e) : at + j \in 1 .. Len(bs)
  BY <1>1
<1> QED BY <1>2 DEF EntryAt

\* One more entry is packed.
LEMMA PackedLayout ==
    ASSUME NEW es \in Seq(Entry), NEW bs \in Seq(Block), NEW start, Layout(es, bs, start), NEW e \in Entry
    PROVE  \E new : Layout(Append(es, e), bs \o Archive!Laid(e), new)
<1> DEFINE n == Len(es)
           fs == Append(es, e)
           cs == bs \o Archive!Laid(e)
           new == [k \in 1 .. n + 2 |-> IF k <= n + 1 THEN start[k] ELSE start[n + 1] + 1 + Blocks(e)]
<1>1. n \in Nat /\ Blocks(e) \in Nat
  BY EntryFacts
<1>2. /\ cs \in Seq(Block) /\ Len(cs) = Len(bs) + 1 + Blocks(e) /\ Len(bs) \in Nat
      /\ \A k \in 1 .. Len(bs) : cs[k] = bs[k]
      /\ EntryAt(cs, Len(bs) + 1, e)
  BY ZenonT(40), LaidBlocks
<1>3. /\ fs \in Seq(Entry) /\ Len(fs) = n + 1 /\ fs[n + 1] = e
      /\ \A k \in 1 .. n : fs[k] = es[k] /\ es[k] \in Entry
  OBVIOUS
<1> HIDE DEF cs, fs, n
<1>4. /\ start \in [1 .. n + 1 -> 1 .. Len(bs) + 1] /\ start[1] = 1 /\ start[n + 1] = Len(bs) + 1
      /\ \A k \in 1 .. n :
            start[k + 1] = start[k] + 1 + Blocks(es[k]) /\ EntryAt(bs, start[k], es[k])
  BY DEF Layout, n
<1>5. \A k \in 1 .. n + 1 : start[k] \in Nat /\ start[k] >= 1 /\ start[k] <= Len(bs) + 1
  BY <1>2, <1>4
<1>6. /\ new \in [1 .. n + 2 -> 1 .. Len(cs) + 1] /\ new[n + 2] = start[n + 1] + 1 + Blocks(e)
      /\ \A k \in 1 .. n + 1 : new[k] = start[k]
  BY SMTT(40), <1>1, <1>2, <1>4, <1>5
<1> HIDE DEF new
<1>7. new[1] = 1 /\ new[Len(fs) + 1] = Len(cs) + 1
  BY SMTT(60), <1>1, <1>2, <1>3, <1>4, <1>6
<1>8. ASSUME NEW k \in 1 .. n
      PROVE  new[k + 1] = new[k] + 1 + Blocks(fs[k]) /\ EntryAt(cs, new[k], fs[k])
  <2>1. k \in 1 .. n + 1 /\ k + 1 \in 1 .. n + 1
    BY <1>1
  <2>2. new[k] = start[k] /\ new[k + 1] = start[k + 1] /\ fs[k] = es[k] /\ es[k] \in Entry
    BY <2>1, <1>3, <1>6
  <2>3. Blocks(es[k]) \in Nat
    BY <2>2, EntryFacts
  <2>4. start[k] \in Nat /\ start[k] >= 1 /\ start[k + 1] <= Len(bs) + 1
    BY <2>1, <1>5
  <2>5. start[k + 1] = start[k] + 1 + Blocks(es[k]) /\ EntryAt(bs, start[k], es[k])
    BY <1>4
  <2>6. start[k] + Blocks(es[k]) <= Len(bs)
    BY SMTT(40), <2>3, <2>4, <2>5, <1>2
  <2>7. EntryAt(cs, start[k], es[k])
    BY SMTT(40), <2>2, <2>4, <2>5, <2>6, <1>2, EntryKept
  <2> QED BY <2>2, <2>5, <2>7
<1>9. new[(n + 1) + 1] = new[n + 1] + 1 + Blocks(fs[n + 1]) /\ EntryAt(cs, new[n + 1], fs[n + 1])
  <2>1. n + 1 \in 1 .. n + 1 /\ (n + 1) + 1 = n + 2
    BY <1>1
  <2> QED BY <2>1, <1>2, <1>3, <1>4, <1>6
<1>10. \A k \in 1 .. Len(fs) : k \in 1 .. n \/ k = n + 1
  BY <1>1, <1>3
<1>11. Len(fs) + 1 = n + 2
  BY <1>1, <1>3
<1>12. \A k \in 1 .. Len(fs) : new[k + 1] = new[k] + 1 + Blocks(fs[k]) /\ EntryAt(cs, new[k], fs[k])
  BY Zenon, <1>8, <1>9, <1>10
<1>13. Layout(fs, cs, new)
  BY Zenon, <1>6, <1>7, <1>11, <1>12 DEF Layout
<1> QED BY <1>13 DEF cs, fs

\* With parents first, only the last component of a path can be missing.
LEMMA ParentsThere ==
    ASSUME entries \in Seq(Entry), Rooted(tree), Archive!ParentsFirst,
           NEW n \in 1 .. Len(entries), Made(tree, entries, n),
           NEW p, p = entries[n].path, NEW k \in 1 .. Len(p), Archive!Missing(p, k)
    PROVE  k = Len(p)
<1>1. p \in Seq(STRING)
  BY EntryFacts
<1>2. k \in 1 .. Len(p) /\ Cut(p, k) \notin DOMAIN tree
  BY <1>1, FirstMissing
<1> SUFFICES ASSUME k # Len(p) PROVE FALSE
  OBVIOUS
<1>3. Len(p) \in Nat /\ Len(p) > 1 /\ k \in 0 .. Len(p) - 1 /\ Len(p) - 1 \in 0 .. Len(p)
  BY <1>1, <1>2
<1> DEFINE up == Cut(p, Len(p) - 1)
<1>4. PICK j \in 1 .. n - 1 : entries[j].path = up
  <2>1. DOMAIN entries = 1 .. Len(entries)
    OBVIOUS
  <2> QED BY <2>1, <1>3 DEF Archive!ParentsFirst, Archive!Parent, Cut
<1>5. up \in DOMAIN tree
  BY SMTT(60), <1>4 DEF Made
<1>6. up \in Seq(STRING) /\ Len(up) = Len(p) - 1 /\ Cut(up, k) = Cut(p, k)
  BY ZenonT(40), <1>1, <1>3, CutPath, CutTwice
<1> HIDE DEF up
<1>7. CASE k = Len(p) - 1
  BY <1>7, <1>2, <1>5 DEF up
<1>8. CASE k # Len(p) - 1
  <2>1. k \in 0 .. Len(up) - 1
    BY <1>3, <1>6, <1>8
  <2>2. Cut(up, k) \in DOMAIN tree
    BY <2>1, <1>5 DEF Rooted
  <2> QED BY Zenon, <2>2, <1>2, <1>6
<1> QED BY Zenon, <1>7, <1>8

\* Of the paths that are there, the next entry can only be the root.
LEMMA MadeKnown ==
    ASSUME entries \in Seq(Entry), Archive!ParentsFirst,
           NEW n \in 1 .. Len(entries), Made(tree, entries, n), entries[n].path \in DOMAIN tree
    PROVE  Made(tree, entries, n + 1)
<1>1. entries[n] \in Entry /\ DOMAIN entries = 1 .. Len(entries) /\ n \in Nat
  OBVIOUS
<1>2. \A j \in 1 .. n - 1 : entries[j].path # entries[n].path
  BY Zenon, <1>1 DEF Archive!ParentsFirst
<1>3. entries[n].path = <<>>
  BY Zenon, <1>2 DEF Made
<1>4. Node(entries[n]) = Archive!Directory
  BY Zenon, <1>1, <1>3, EntryFacts DEF Node
<1>5. \A j \in 1 .. (n + 1) - 1 : j \in 1 .. n - 1 \/ j = n
  BY <1>1
<1>6. \A j \in 1 .. n - 1 : j \in 1 .. (n + 1) - 1
  BY <1>1
<1>7. DOMAIN tree = {<<>>} \cup {entries[j].path : j \in 1 .. (n + 1) - 1}
  BY Zenon, <1>3, <1>5, <1>6 DEF Made
<1> QED BY <1>3, <1>4, <1>5, <1>7 DEF Made

\* A path that is not there is made, with what belongs to its entry.
LEMMA MadeAdded ==
    ASSUME entries \in Seq(Entry), NEW n \in 1 .. Len(entries), Made(tree, entries, n),
           NEW p, p = entries[n].path, p \notin DOMAIN tree,
           NEW t, t = Archive!Added(p, Node(entries[n]))
    PROVE  Made(t, entries, n + 1)
<1>1. DOMAIN t = DOMAIN tree \cup {p} /\ t[p] = Node(entries[n])
      /\ \A q \in DOMAIN tree : t[q] = tree[q]
  BY Zenon DEF Archive!Added
<1>2. n \in Nat
  OBVIOUS
<1>3. /\ \A j \in 1 .. (n + 1) - 1 : j \in 1 .. n - 1 \/ j = n
      /\ \A j \in 1 .. n - 1 : j \in 1 .. (n + 1) - 1
      /\ n \in 1 .. (n + 1) - 1
  BY SMTT(40), <1>2
<1>4. DOMAIN t = {<<>>} \cup {entries[j].path : j \in 1 .. (n + 1) - 1}
  BY <1>1, <1>3 DEF Made
<1>5. t[<<>>] = Archive!Directory
  BY Zenon, <1>1 DEF Made
<1>6. \A j \in 1 .. n - 1 : t[entries[j].path] = Node(entries[j])
  BY ZenonT(40), <1>1 DEF Made
<1> QED BY Zenon, <1>1, <1>3, <1>4, <1>5, <1>6 DEF Made

\* Where the loop is: at an entry, or past the last one.
LEMMA AtEntry ==
    ASSUME entries \in Seq(Entry), blocks \in Seq(Block),
           NEW start, Layout(entries, blocks, start), NEW n, Reached(start, n)
    PROVE  /\ pos > Len(blocks) => n = Len(entries) + 1
           /\ pos <= Len(blocks) =>
                 /\ n \in 1 .. Len(entries) /\ n + 1 \in 1 .. Len(entries) + 1
                 /\ blocks[pos].of = entries[n] /\ entries[n] \in Entry
                 /\ start[n + 1] = Archive!Skip(entries[n].size)
                 /\ Archive!Data(Blocks(entries[n])) = Archive!DataOf(entries[n])
<1>1. Len(entries) \in Nat /\ Len(blocks) \in Nat /\ n \in 1 .. Len(entries) + 1 /\ pos = start[n]
  <2>1. Len(entries) \in Nat /\ Len(blocks) \in Nat
    OBVIOUS
  <2> QED BY Zenon, <2>1 DEF Reached
<1>2. /\ start \in [1 .. Len(entries) + 1 -> 1 .. Len(blocks) + 1]
      /\ start[Len(entries) + 1] = Len(blocks) + 1
      /\ \A k \in 1 .. Len(entries) :
            start[k + 1] = start[k] + 1 + Blocks(entries[k]) /\ EntryAt(blocks, start[k], entries[k])
  BY ZenonT(40) DEF Layout
<1>3. CASE n = Len(entries) + 1
  <2>1. pos = Len(blocks) + 1
    BY ZenonT(40), <1>1, <1>2, <1>3
  <2> QED BY <2>1, <1>1, <1>3
<1>4. CASE n # Len(entries) + 1
  <2>1. n \in 1 .. Len(entries) /\ n + 1 \in 1 .. Len(entries) + 1 /\ entries[n] \in Entry
    BY SMTT(40), <1>1, <1>4
  <2>2. Blocks(entries[n]) \in Nat
    BY <2>1, EntryFacts
  <2>3. start[n] \in Nat /\ start[n + 1] \in Nat /\ start[n + 1] <= Len(blocks) + 1
    <3>1. start[n] \in 1 .. Len(blocks) + 1 /\ start[n + 1] \in 1 .. Len(blocks) + 1
      BY Zenon, <2>1, <1>1, <1>2
    <3> QED BY <3>1, <1>1
  <2>4. start[n + 1] = start[n] + 1 + Blocks(entries[n]) /\ EntryAt(blocks, start[n], entries[n])
    BY <2>1, <1>2
  <2>5. pos <= Len(blocks)
    BY <2>2, <2>3, <2>4, <1>1
  <2>6. start[n + 1] = Archive!Skip(entries[n].size)
    <3>1. Archive!Skip(entries[n].size) = pos + 1 + Blocks(entries[n])
      BY Zenon DEF Archive!Skip, Blocks, Archive!DataBlocks
    <3> QED BY <3>1, <2>4, <1>1
  <2>7. Archive!Data(Blocks(entries[n])) = Archive!DataOf(entries[n])
    BY ZenonT(40), <2>4, <1>1 DEF Archive!Data, Archive!Contents, Archive!DataOf, EntryAt, Blocks
  <2>8. blocks[pos].of = entries[n]
    BY <2>4, <1>1 DEF EntryAt
  <2> QED BY <2>1, <2>3, <2>5, <2>6, <2>7, <2>8, <1>1
<1> QED BY <1>3, <1>4

\* A turn of the loop keeps the invariant if it is then at an entry, or where it was.
LEMMA TurnKeeps ==
    ASSUME ArchiveInv, entries' = entries, blocks' = blocks, Rooted(tree'),
           NEW start, Layout(entries, blocks, start), NEW n \in 1 .. Len(entries) + 1,
           pos' = start[n], unpack' # "packing", unpack' = "done" => n = Len(entries) + 1,
           Archive!ParentsFirst =>
               unpack' # "fault" /\ (unpack' # "given up" => Made(tree', entries, n))
    PROVE  ArchiveInv'
<1>1. Archive!ParentsFirst' => Archive!ParentsFirst
  BY DEF Archive!ParentsFirst
<1>2. Reached(start, n)'
  BY <1>1 DEF Reached
<1>3. Layout(entries', blocks', start)
  OBVIOUS
<1> QED BY <1>2, <1>3 DEF ArchiveInv

\* Each way a turn of the loop in ramfs_init_ustar can go keeps the invariant.
LEMMA UnpackKeeps ==
    ASSUME ArchiveInv, Archive!ramfs_init_ustar
    PROVE  ArchiveInv'
<1>1. PICK start : Layout(entries, blocks, start) /\ \E n : Reached(start, n)
  BY DEF ArchiveInv
<1>2. PICK n : Reached(start, n)
  BY <1>1
<1>3. /\ entries' = entries /\ blocks' = blocks /\ unpack = "running"
      /\ entries \in Seq(Entry) /\ blocks \in Seq(Block) /\ Rooted(tree)
  BY DEF ArchiveInv, Archive!ramfs_init_ustar
<1>4. /\ n \in 1 .. Len(entries) + 1 /\ pos = start[n]
      /\ Archive!ParentsFirst => Made(tree, entries, n)
  BY Zenon, <1>2, <1>3 DEF Reached
<1>5. CASE Archive!AtEnd
  <2>1. n = Len(entries) + 1 /\ pos' = start[n] /\ unpack' = "done" /\ tree' = tree
    BY <1>1, <1>2, <1>3, <1>4, <1>5, AtEntry DEF Archive!AtEnd
  <2> QED BY ZenonT(40), <2>1, <1>1, <1>3, <1>4, TurnKeeps
<1> DEFINE e == entries[n]
           p == e.path
<1>6. ASSUME pos <= Len(blocks)
      PROVE  /\ n \in 1 .. Len(entries) /\ n + 1 \in 1 .. Len(entries) + 1
             /\ blocks[pos].of = e /\ e \in Entry /\ p \in Seq(STRING) /\ e.dir \in BOOLEAN
             /\ start[n + 1] = Archive!Skip(e.size)
             /\ Archive!Data(Archive!DataBlocks(e.size)) = Archive!DataOf(e)
  BY Zenon, <1>1, <1>2, <1>3, <1>6, AtEntry, EntryFacts DEF Blocks
<1>7. CASE pos <= Len(blocks) /\ Archive!Known(e)
  <2>1. p \in DOMAIN tree
    BY Zenon, <1>3, <1>6, <1>7, NoneMissing DEF Archive!Known, Cut
  <2>2. pos' = start[n + 1] /\ tree' = tree /\ unpack' = "running"
    BY Zenon, <1>3, <1>6, <1>7 DEF Archive!Known
  <2>3. Archive!ParentsFirst => Made(tree', entries, n + 1)
    BY Zenon, <2>1, <2>2, <1>3, <1>4, <1>6, <1>7, MadeKnown
  <2> QED BY Zenon, <2>2, <2>3, <1>1, <1>3, <1>6, <1>7, TurnKeeps
<1>8. ASSUME pos <= Len(blocks), NEW k \in 1 .. Len(p), Archive!Missing(p, k),
             tree[Archive!Parent(Cut(p, k))].dir, NEW what
      PROVE  Rooted(Archive!Added(Cut(p, k), what))
  BY ZenonT(40), <1>3, <1>6, <1>8, AddedRooted
<1>9. ASSUME pos <= Len(blocks), NEW k \in 1 .. Len(p), Archive!Missing(p, k), Archive!ParentsFirst
      PROVE  /\ k = Len(p) /\ Cut(p, k) = p
             /\ Made(Archive!Added(p, Node(e)), entries, n + 1)
  <2>1. k = Len(p)
    BY ZenonT(40), <1>3, <1>4, <1>6, <1>9, ParentsThere
  <2>2. Cut(p, k) = p
    BY ZenonT(40), <2>1, <1>6, <1>9, CutWhole
  <2>3. p \notin DOMAIN tree
    BY <2>2, <1>3, <1>6, <1>9, FirstMissing
  <2> QED BY SMTT(60), <2>1, <2>2, <2>3, <1>3, <1>4, <1>6, <1>9, MadeAdded
<1>10. ASSUME pos <= Len(blocks), NEW k \in 1 .. Len(p), NEW memory \in BOOLEAN,
              Archive!NewDirectory(e, k, memory)
       PROVE  ArchiveInv'
  <2> DEFINE made == Cut(p, k)
  <2>1. /\ e.dir /\ Archive!Missing(p, k)
        /\ tree' = IF memory /\ tree[Archive!Parent(made)].dir
                   THEN Archive!Added(made, Archive!Directory) ELSE tree
        /\ unpack' = IF ~memory \/ ~tree[Archive!Parent(made)].dir THEN "given up"
                     ELSE IF k < Len(p) THEN "fault" ELSE "running"
        /\ pos' = IF unpack' = "running" THEN start[n + 1] ELSE pos
    BY <1>3, <1>6, <1>10 DEF Archive!NewDirectory, Archive!Makes, Archive!Fails, Cut
  <2>2. Node(e) = Archive!Directory
    BY <2>1 DEF Node
  <2>3. Rooted(tree')
    BY <2>1, <1>3, <1>8, <1>10
  <2>4. CASE unpack' = "running"
    <3>1. Archive!ParentsFirst => Made(tree', entries, n + 1)
      BY <2>1, <2>2, <2>4, <1>9, <1>10
    <3> QED BY ZenonT(40), <3>1, <2>1, <2>3, <2>4, <1>1, <1>3, <1>6, <1>10, TurnKeeps
  <2>5. CASE unpack' # "running"
    <3>1. Archive!ParentsFirst => unpack' = "given up"
      <4>1. Len(p) \in Nat
        BY <1>6, <1>10
      <4>2. ASSUME Archive!ParentsFirst PROVE ~(k < Len(p))
        <5>1. k = Len(p)
          BY ZenonT(40), <4>2, <2>1, <1>9, <1>10
        <5> QED BY <5>1, <4>1
      <4> QED BY <4>2, <2>1, <2>5
    <3>2. unpack' \in {"given up", "fault"} /\ pos' = start[n]
      BY <2>1, <2>5, <1>4
    <3> QED BY <3>1, <3>2, <2>3, <1>1, <1>3, <1>4, TurnKeeps
  <2> QED BY SMTT(60), <2>4, <2>5
<1>11. ASSUME pos <= Len(blocks), NEW k \in 1 .. Len(p), NEW memory \in BOOLEAN,
              NEW room \in BOOLEAN, Archive!NewFile(e, k, memory, room)
       PROVE  ArchiveInv'
  <2> DEFINE made == Cut(p, k)
             data == IF room THEN Archive!DataOf(e) ELSE <<>>
  <2>1. /\ ~e.dir /\ Archive!Missing(p, k)
        /\ tree' = IF memory /\ tree[Archive!Parent(made)].dir
                   THEN Archive!Added(made, Archive!File(data)) ELSE tree
        /\ unpack' = IF (~memory \/ ~tree[Archive!Parent(made)].dir) \/ ~room THEN "given up"
                     ELSE "running"
        /\ pos' = IF unpack' = "running" THEN start[n + 1] ELSE pos
    BY ZenonT(40), <1>3, <1>6, <1>11 DEF Archive!NewFile, Archive!Makes, Archive!Fails, Cut
  <2>2. Node(e) = Archive!File(Archive!DataOf(e))
    BY <2>1 DEF Node
  <2>3. Rooted(tree')
    BY <2>1, <1>3, <1>8, <1>11
  <2>4. CASE unpack' = "running"
    <3>1. Archive!ParentsFirst => Made(tree', entries, n + 1)
      BY <2>1, <2>2, <2>4, <1>9, <1>11
    <3> QED BY ZenonT(40), <3>1, <2>1, <2>3, <2>4, <1>1, <1>3, <1>6, <1>11, TurnKeeps
  <2>5. CASE unpack' # "running"
    <3>1. unpack' = "given up" /\ pos' = start[n]
      BY <2>1, <2>5, <1>4
    <3> QED BY <3>1, <2>3, <1>1, <1>3, <1>4, TurnKeeps
  <2> QED BY SMTT(60), <2>4, <2>5
<1>12. \/ Archive!AtEnd
       \/ /\ pos <= Len(blocks)
          /\ \/ Archive!Known(e)
             \/ \E k \in DOMAIN p, memory \in BOOLEAN : Archive!NewDirectory(e, k, memory)
             \/ \E k \in DOMAIN p, memory, room \in BOOLEAN : Archive!NewFile(e, k, memory, room)
  BY SMTT(40), <1>6 DEF Archive!ramfs_init_ustar
<1>13. pos <= Len(blocks) => DOMAIN p = 1 .. Len(p)
  BY <1>6
<1> QED BY ZenonT(40), <1>5, <1>7, <1>10, <1>11, <1>12, <1>13

\* Before the first entry is packed, and when the archive is forgotten.
LEMMA EmptyArchive ==
    ASSUME NEW es, NEW bs, es = <<>>, bs = <<>>
    PROVE  /\ es \in Seq(Entry) /\ bs \in Seq(Block) /\ Len(es) + 1 = 1
           /\ Layout(es, bs, [k \in {1} |-> 1])
           /\ Rooted(Archive!Root) /\ Made(Archive!Root, es, 1)
<1>1. es \in Seq(Entry) /\ bs \in Seq(Block) /\ Len(es) = 0 /\ Len(bs) = 0
  OBVIOUS
<1>2. 1 .. Len(es) + 1 = {1} /\ 1 .. Len(bs) + 1 = {1} /\ 1 .. Len(es) = {} /\ Len(es) + 1 = 1
      /\ 1 .. 1 - 1 = {}
  BY <1>1
<1>3. Layout(es, bs, [k \in {1} |-> 1])
  BY <1>1, <1>2 DEF Layout
<1>4. /\ DOMAIN Archive!Root = {<<>>} /\ Archive!Root[<<>>] = Archive!Directory
      /\ Archive!Directory.dir
  BY DEF Archive!Root, Archive!Directory
<1>5. Rooted(Archive!Root)
  BY <1>4 DEF Rooted
<1>6. Made(Archive!Root, es, 1)
  BY <1>2, <1>4 DEF Made
<1> QED BY <1>1, <1>2, <1>3, <1>5, <1>6

\* The invariant holds at first, and every step of the start keeps it.
LEMMA ArchiveInit == Init => ArchiveInv
<1> SUFFICES ASSUME Init PROVE ArchiveInv
  OBVIOUS
<1>1. entries = <<>> /\ blocks = <<>> /\ pos = 1 /\ tree = Archive!Root /\ unpack = "packing"
  BY DEF Init, Archive!Init
<1> DEFINE start == [k \in {1} |-> 1]
<1>2. /\ entries \in Seq(Entry) /\ blocks \in Seq(Block) /\ Len(entries) + 1 = 1
      /\ Layout(entries, blocks, start) /\ Rooted(tree) /\ Made(tree, entries, 1)
  BY <1>1, EmptyArchive
<1>3. Reached(start, 1)
  BY <1>1, <1>2 DEF Reached
<1> QED BY <1>2, <1>3 DEF ArchiveInv

\* The archiver and the boot loader
LEMMA PrepareKeeps ==
    ASSUME ArchiveInv, Prepare
    PROVE  ArchiveInv'
<1>1. PICK start : Layout(entries, blocks, start) /\ \E n : Reached(start, n)
  BY DEF ArchiveInv
<1>2. PICK n : Reached(start, n)
  BY <1>1
<1>3. /\ unpack = "packing" /\ entries \in Seq(Entry) /\ blocks \in Seq(Block) /\ Rooted(tree)
      /\ pos' = pos /\ tree' = tree
  BY DEF ArchiveInv, Prepare, Archive!Pass, Archive!Pack
<1>4. n = 1 /\ pos = start[1] /\ tree = Archive!Root
  BY Zenon, <1>2, <1>3 DEF Reached
<1>5. 1 \in 1 .. Len(entries) + 1
  BY <1>3
<1>6. CASE Archive!Pass
  <2>1. entries' = entries /\ blocks' = blocks /\ unpack' = "running"
    BY <1>6 DEF Archive!Pass
  <2>2. Archive!ParentsFirst => Made(tree, entries, 1)
    BY Zenon, <1>2, <1>3, <1>4 DEF Reached
  <2> QED BY <2>1, <2>2, <1>1, <1>3, <1>4, <1>5, TurnKeeps
<1>7. ASSUME NEW e \in Entry, Archive!Pack(e) PROVE ArchiveInv'
  <2>1. entries' = Append(entries, e) /\ blocks' = blocks \o Archive!Laid(e) /\ unpack' = "packing"
    BY Zenon, <1>3, <1>7 DEF Archive!Pack
  <2>2. PICK new : Layout(entries', blocks', new)
    BY <2>1, <1>1, <1>3, PackedLayout
  <2>3. entries' \in Seq(Entry) /\ 1 \in 1 .. Len(entries') + 1 /\ 1 .. 1 - 1 = {}
    BY <2>1, <1>3
  <2>4. blocks' \in Seq(Block)
    BY ZenonT(40), <2>1, <1>3, LaidBlocks
  <2>5. new[1] = 1 /\ pos' = 1
    BY Zenon, <2>2, <1>1, <1>3, <1>4 DEF Layout
  <2>6. Made(Archive!Root, entries', 1)
    <3>1. Made(Archive!Root, <<>>, 1)
      BY Zenon, EmptyArchive
    <3> QED BY Zenon, <3>1, <2>3 DEF Made
  <2>7. Reached(new, 1)'
    BY SMTT(40), <2>1, <2>3, <2>5, <2>6, <1>3, <1>4 DEF Reached
  <2> QED BY <2>2, <2>3, <2>4, <2>7, <1>3 DEF ArchiveInv
<1> QED BY <1>6, <1>7 DEF Prepare

\* The steps after unpacking leave the tree alone; GoOn starts a new one.
LEMMA ArchiveStep == ArchiveInv /\ [Next]_vars => ArchiveInv'
<1> SUFFICES ASSUME ArchiveInv, [Next]_vars PROVE ArchiveInv'
  OBVIOUS
<1>1. CASE Prepare
  BY <1>1, PrepareKeeps
<1>2. CASE Unpack
  BY <1>2, UnpackKeeps DEF Unpack
<1>3. CASE GoOn
  <2>1. entries' = <<>> /\ blocks' = <<>> /\ pos' = 1 /\ tree' = Archive!Root /\ unpack' = "done"
    BY <1>3 DEF GoOn
  <2> DEFINE start == [k \in {1} |-> 1]
  <2>2. /\ entries' \in Seq(Entry) /\ blocks' \in Seq(Block) /\ Len(entries') + 1 = 1
        /\ Layout(entries', blocks', start) /\ Rooted(tree') /\ Made(tree', entries', 1)
    BY Zenon, <2>1, EmptyArchive
  <2>3. Reached(start, 1)'
    BY <2>1, <2>2 DEF Reached
  <2> QED BY <2>2, <2>3 DEF ArchiveInv
<1>4. CASE UNCHANGED archiveVars
  <2>1. /\ entries' = entries /\ blocks' = blocks /\ pos' = pos /\ tree' = tree /\ unpack' = unpack
    BY <1>4 DEF archiveVars
  <2>2. Archive!ParentsFirst' <=> Archive!ParentsFirst
    BY <2>1 DEF Archive!ParentsFirst
  <2> QED BY <2>1, <2>2 DEF ArchiveInv, Reached
<1> QED BY <1>1, <1>2, <1>3, <1>4 DEF Next, UseFile, LoadProgram, StampFile, vars, archiveVars

\* Whatever the archive holds and wherever memory runs out, what ramfs_init_ustar
\* has made at any time is a tree: all but the root is in a directory.
THEOREM AlwaysInDirectories == Spec => []InDirectories
<1>1. ArchiveInv => InDirectories
  <2> SUFFICES ASSUME ArchiveInv, NEW p \in DOMAIN tree, p # <<>> PROVE tree[Archive!Parent(p)].dir
    BY Zenon DEF InDirectories, Archive!InDirectories
  <2>1. p \in Seq(STRING) /\ Len(p) - 1 \in 0 .. Len(p) - 1
    BY DEF ArchiveInv, Rooted
  <2>2. Archive!Parent(p) = Cut(p, Len(p) - 1)
    BY DEF Archive!Parent, Cut
  <2> QED BY Zenon, <2>1, <2>2 DEF ArchiveInv, Rooted
<1> QED BY <1>1, ArchiveInit, ArchiveStep, PTL DEF Spec

\* For archives of any length with entries of any size: if they name each path
\* once and parents first, ramfs_init_ustar never faults, and at its end there is
\* everything in the archive, with its own data, and nothing else.
THEOREM ArchivesUnpacked == Spec => []Unpacked
<1>1. ArchiveInv => Unpacked
  <2> SUFFICES ASSUME ArchiveInv, Archive!ParentsFirst
               PROVE  /\ unpack # "fault"
                      /\ unpack = "done" =>
                            /\ DOMAIN tree = {<<>>} \cup {entries[k].path : k \in DOMAIN entries}
                            /\ \A k \in DOMAIN entries : tree[entries[k].path] = Node(entries[k])
    BY DEF Unpacked, Archive!Unpacked, Node
  <2>1. PICK start, n : Reached(start, n)
    BY DEF ArchiveInv
  <2>2. unpack # "fault"
    BY <2>1 DEF Reached
  <2>3. ASSUME unpack = "done" PROVE Made(tree, entries, Len(entries) + 1)
    BY <2>1, <2>3 DEF Reached
  <2>4. DOMAIN entries = 1 .. (Len(entries) + 1) - 1
    BY DEF ArchiveInv
  <2> QED BY ZenonT(40), <2>2, <2>3, <2>4 DEF Made
<1> QED BY <1>1, ArchiveInit, ArchiveStep, PTL DEF Spec

-----------------------------------------------------------------------------
(* The start as a whole.                                                   *)

\* In the start as a whole files and programs take their own steps only.
LEMMA PartsOfStartup == Spec => RamfsSpec /\ ElfSpec
<1>1. Init => RamfsInit /\ ElfInit
  BY DEF Init
<1>2. [Next]_vars => [RamfsNext]_ramfsVars
  BY DEF Next, vars, Prepare, Unpack, GoOn, UseFile, LoadProgram, StampFile
<1>3. [Next]_vars => [ElfNext]_elfVars
  BY DEF Next, vars, Prepare, Unpack, GoOn, UseFile, LoadProgram, StampFile
<1> QED BY <1>1, <1>2, <1>3, PTL DEF Spec, RamfsSpec, ElfSpec

\* What is proved of files and of programs holds of the start as a whole: from
\* unpacking on, files keep what was written, and programs are loaded exactly.
THEOREM StartupKeepsItsFiles ==
    Spec => []SizesAgree /\ FileRefinement /\ []OnlyFileData /\ []LoadedExactly
<1>1. RamfsAssumption /\ ElfAssumption
  BY StartupAssumption
<1>2. RamfsSpec => []SizesAgree /\ FileRefinement
  BY <1>1, SizesAlwaysAgree, FilesKeepTheirBytes, PTL
<1>3. ElfSpec => []OnlyFileData /\ []LoadedExactly
  BY <1>1, PagesHoldOnlyFileData, ProgramsLoadedExactly, PTL
<1> QED BY <1>2, <1>3, PartsOfStartup, PTL
=============================================================================
