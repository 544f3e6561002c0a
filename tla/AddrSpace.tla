----------------------------- MODULE AddrSpace -----------------------------
(***************************************************************************)
(* What page tables are for: every address space is a function from        *)
(* virtual pages to frames.  Mapping or unmapping a page of one space      *)
(* changes nothing else, a new space has the kernel's half and nothing     *)
(* more, and the kernel's half is fixed once the kernel runs.              *)
(***************************************************************************)
CONSTANTS Space, Virt, KernelVirt, Frame, NULL

VARIABLES live,         \* the spaces in use
          translate,    \* translate[s][v]: the frame at v, or NULL
          up            \* TRUE once the kernel runs on its own tables

spaceVars == <<live, translate, up>>

Empty == [v \in Virt |-> NULL]

SpaceInit ==
    /\ \E kernel \in Space : live = {kernel}
    /\ translate = [s \in Space |-> Empty]
    /\ up = FALSE

\* Before the kernel is up its half is filled, afterwards only the other one.
Assign(s, v, f) ==
    /\ s \in live
    /\ up <=> v \notin KernelVirt
    /\ translate' = [translate EXCEPT ![s] = [translate[s] EXCEPT ![v] = f]]
    /\ UNCHANGED <<live, up>>

Start == up' = TRUE /\ UNCHANGED <<live, translate>>

Create(s) ==
    /\ up /\ s \notin live
    /\ live' = live \cup {s}
    /\ \E t \in live :
          translate' = [translate EXCEPT
              ![s] = [v \in Virt |-> IF v \in KernelVirt THEN translate[t][v] ELSE NULL]]
    /\ UNCHANGED up

Destroy(s) ==
    /\ s \in live
    /\ live' = live \ {s}
    /\ translate' = [translate EXCEPT ![s] = Empty]
    /\ UNCHANGED up

SpaceNext ==
    \/ Start
    \/ \E s \in Space : Create(s) \/ Destroy(s)
    \/ \E s \in Space, v \in Virt, f \in Frame \cup {NULL} : Assign(s, v, f)

SpaceSpec == SpaceInit /\ [][SpaceNext]_spaceVars
=============================================================================
