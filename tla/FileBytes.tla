----------------------------- MODULE FileBytes -----------------------------
(***************************************************************************)
(* What a file promises: it holds a sequence of bytes; a write puts a      *)
(* buffer at an offset inside or at the end of it, or fails and leaves it  *)
(* as it was; a read returns the first of its bytes.                        *)
(***************************************************************************)
EXTENDS Naturals, Sequences

CONSTANTS Byte, Buffer

VARIABLES bytes,    \* what the file holds
          got       \* what the last read returned

Written(s, buf, offset) ==
    SubSeq(s, 1, offset) \o buf \o SubSeq(s, offset + Len(buf) + 1, Len(s))

Init == bytes = <<>> /\ got = <<>>

Unpack(buf) == bytes = <<>> /\ bytes' = buf /\ UNCHANGED got

Write(buf, offset) ==
    /\ offset \in 0 .. Len(bytes)
    /\ bytes' = Written(bytes, buf, offset)
    /\ UNCHANGED got

Read(size) ==
    /\ got' = SubSeq(bytes, 1, size)
    /\ UNCHANGED bytes

Next ==
    \/ \E buf \in Buffer : Unpack(buf) \/ \E offset \in 0 .. Len(bytes) : Write(buf, offset)
    \/ \E size \in 0 .. Len(bytes) : Read(size)

Spec == Init /\ [][Next]_<<bytes, got>>
=============================================================================
