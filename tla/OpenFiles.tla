----------------------------- MODULE OpenFiles -----------------------------
(***************************************************************************)
(* What a process may expect of its open files: an ordered list of at most *)
(* Max of them.  Opening appends to the list, closing takes one entry out  *)
(* and moves the later ones down by one, exiting empties it.               *)
(***************************************************************************)
EXTENDS Naturals, Sequences

CONSTANTS Node, Max

VARIABLE files

Without(s, k) == [m \in 1 .. Len(s) - 1 |-> IF m < k THEN s[m] ELSE s[m + 1]]

\* A process starts with its standard output open.
OpenInit == \E n \in Node : files = <<n>>

Open(n) == Len(files) < Max /\ files' = Append(files, n)
Close(k) == k \in DOMAIN files /\ files' = Without(files, k)
CloseAll == files' = <<>>

OpenNext == \/ \E n \in Node : Open(n)
            \/ \E k \in 1 .. Max : Close(k)
            \/ CloseAll

OpenSpec == OpenInit /\ [][OpenNext]_files
=============================================================================
