------------------------------ MODULE PagePool ------------------------------
(***************************************************************************)
(* What the physical memory manager promises its clients (vmm.c, vma.c,    *)
(* elf.c): a pool of page frames.  While the kernel boots, frames are      *)
(* donated to the pool one by one; from then on a frame is either free or  *)
(* held by exactly one client, a request fails only when nothing is free,  *)
(* and no frame ever enters or leaves the pool again.                      *)
(***************************************************************************)

CONSTANT Page               \* every page frame number the machine could have

VARIABLES free,             \* frames the pool may hand out
          held,             \* frames handed out and not yet returned
          up                \* TRUE once the kernel runs

poolVars == <<free, held, up>>

PoolInit == free = {} /\ held = {} /\ up = FALSE

Donate(p) ==
    /\ ~up
    /\ p \notin free \cup held
    /\ free' = free \cup {p}
    /\ UNCHANGED <<held, up>>

Open == ~up /\ up' = TRUE /\ UNCHANGED <<free, held>>

Take(p) ==
    /\ up
    /\ p \in free
    /\ free' = free \ {p}
    /\ held' = held \cup {p}
    /\ UNCHANGED up

Return(p) ==
    /\ up
    /\ p \in held
    /\ held' = held \ {p}
    /\ free' = free \cup {p}
    /\ UNCHANGED up

PoolNext == Open \/ \E p \in Page : Donate(p) \/ Take(p) \/ Return(p)

PoolSpec == PoolInit /\ [][PoolNext]_poolVars
=============================================================================
