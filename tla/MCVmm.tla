------------------------------- MODULE MCVmm -------------------------------
(* Two indices per table, the second the kernel's; two user pages with     *)
(* common tables, and a kernel page.  The first user page is shared with   *)
(* every process.  The frame with its number is one of the pool; that of   *)
(* the other page is not.                                                  *)
EXTENDS Vmm, TLC

CONSTANT Frames          \* how many frames the pool starts with

MCIndex == {0, 1}
MCKernelIndex == {1}
MCVirt == {<<0, 0, 0, 0>>, <<0, 0, 0, 1>>, <<1, 0, 0, 0>>}
MCPages == [k \in 1 .. Frames |-> k]
MCShared == {<<0, 0, 0, 0>>}
MCIdentity == (<<0, 0, 0, 0>> :> Frames - 2) @@ (<<0, 0, 0, 1>> :> Image)
=============================================================================
