--------------------------- MODULE ProcessProofs ---------------------------
(***************************************************************************)
(* Proofs about the scheduler, for any number of processes and any time    *)
(* slice, and about the system calls, for any size of the descriptor table *)
(* and any set of files.                                                   *)
(***************************************************************************)
EXTENDS Scheduler, Syscalls, FiniteSetTheorems, SequenceTheorems, TLAPS

(* The scheduler.  IInv holds whatever the order in which processes exit;  *)
(* LifoInv needs the process spawned last to exit first.                   *)

QuietStep ==
    \/ pit_init \/ pic_unmask \/ Step \/ syscall_enter \/ syscall_return \/ syscall_stops
    \/ kpanic \/ panic_prints

Live == {p \in Pid : state[p] # "NULL"}

\* During boot the pids in use are those below count, so that the next slot
\* scheduler_spawn fills is an empty one.
BootInv ==
    mode \in {"boot", "idle"} =>
        /\ current_pid = 0
        /\ \A p \in Pid : state[p] # "RUNNING"
        /\ mode = "boot" => \A p \in Pid : /\ state[p] # "NULL" <=> p < count
                                           /\ at[p] = 0

\* The registers belong to the running process or to one that has exited.
CpuInv ==
    /\ mode \in {"user", "syscall"} => cpu.who \in Pid /\ state[cpu.who] # "READY"
    /\ \A p \in Pid : state[p] = "RUNNING" => cpu.pc = at[p]
    /\ \A p \in Pid : state[p] = "NULL" => ~in_syscall[p]

IInv ==
    /\ TypeOK /\ BootInv /\ CpuInv
    /\ OneRunning /\ ContextIntact /\ CountLive /\ SyscallMark

LifoInv ==
    /\ PidsCompact
    /\ NextProcExists
    /\ count # 0 => current_pid < count

\* The remainder that scheduler_tick and scheduler_exit index procs with.
LEMMA ModRange ==
    ASSUME NEW k \in Nat, NEW b \in Nat \ {0}
    PROVE  (k + 1) % b \in 0 .. b - 1
  OBVIOUS

\* A program's position stays in range when it advances.
LEMMA PcAdvances ==
    ASSUME NEW k \in 0 .. PcRange - 1
    PROVE  (k + 1) % PcRange \in 0 .. PcRange - 1
  BY SchedulerAssumption

\* The set of live processes is finite.
LEMMA LiveFinite ==
    ASSUME TypeOK
    PROVE  IsFiniteSet(Live) /\ IsFiniteSet(Pid) /\ Cardinality(Pid) = N
  <1>1. IsFiniteSet(Pid) /\ Cardinality(Pid) = N
    BY FS_Interval, SchedulerAssumption DEF Pid
  <1>2. Live \subseteq Pid
    BY DEF Live
  <1>. QED  BY <1>1, <1>2, FS_Subset

\* The invariant holds initially.
LEMMA InitIInv == Init => IInv
  <1>. SUFFICES ASSUME Init PROVE IInv
    OBVIOUS
  <1>1. TypeOK
    <2>1. \A p \in Thread : Fresh(p) \in Context
      BY SchedulerAssumption DEF Fresh, Context, Unfinished
    <2>2. 0 \in Pid /\ Pid \subseteq Thread /\ Boot \in Thread
      BY SchedulerAssumption DEF Pid, Thread
    <2>3. /\ count \in 0 .. N /\ timeslice \in [Pid -> 1 .. TimeSlice]
          /\ at \in [Pid -> 0 .. PcRange - 1]
      BY SchedulerAssumption DEF Init
    <2>. QED  BY Zenon, <2>1, <2>2, <2>3 DEF Init, TypeOK
  <1>2. BootInv /\ CpuInv /\ OneRunning /\ ContextIntact /\ SyscallMark
    BY DEF Init, BootInv, CpuInv, OneRunning, ContextIntact, SyscallMark, Pid
  <1>3. {p \in Pid : state[p] # "NULL"} = {}
    BY DEF Init
  <1>4. CountLive
    BY <1>3, FS_EmptySet DEF CountLive, Init
  <1>. QED  BY <1>1, <1>2, <1>4 DEF IInv

\* scheduler_spawn preserves the invariant: the new pid was not in use.
LEMMA SpawnIInv == IInv /\ scheduler_spawn => IInv'
  <1>. SUFFICES ASSUME IInv, scheduler_spawn PROVE IInv'
    OBVIOUS
  <1>. USE SchedulerAssumption
  <1>1. TypeOK /\ count \in Pid /\ mode = "boot"
    BY DEF IInv, TypeOK, scheduler_spawn, Pid
  <1>2. TypeOK'
    <2>1. Fresh(count) \in Context
      BY <1>1 DEF Fresh, Context, Thread, Unfinished
    <2>2. count' \in 0 .. N /\ TimeSlice \in 1 .. TimeSlice
      BY <1>1 DEF TypeOK, scheduler_spawn
    <2>. QED  BY <1>1, <2>1, <2>2 DEF TypeOK, scheduler_spawn
  <1>3. BootInv'
    <2>1. \A p \in Pid : state'[p] # "RUNNING" /\ at'[p] = 0
      BY <1>1 DEF TypeOK, IInv, BootInv, scheduler_spawn
    <2>2. \A p \in Pid : state'[p] # "NULL" <=> p = count \/ state[p] # "NULL"
      BY <1>1 DEF TypeOK, scheduler_spawn
    <2>3. \A p \in Pid : p < count + 1 <=> p = count \/ p < count
      BY <1>1 DEF TypeOK, Pid
    <2>. QED  BY <1>1, <2>1, <2>2, <2>3 DEF IInv, BootInv, scheduler_spawn
  <1>4. CpuInv' /\ OneRunning' /\ SyscallMark'
    BY <1>1 DEF TypeOK, IInv, BootInv, CpuInv, OneRunning, SyscallMark, scheduler_spawn
  <1>5. ContextIntact'
    BY <1>1 DEF TypeOK, IInv, BootInv, ContextIntact, scheduler_spawn, Fresh
  <1>6. Live' = Live \cup {count} /\ count \notin Live
    BY <1>1 DEF TypeOK, IInv, BootInv, Live, scheduler_spawn
  <1>7. Cardinality(Live') = Cardinality(Live) + 1
    BY ZenonT(40), <1>1, <1>6, LiveFinite, FS_AddElement
  <1>8. CountLive'
    BY <1>7 DEF IInv, CountLive, Live, scheduler_spawn
  <1>. QED  BY <1>2, <1>3, <1>4, <1>5, <1>8 DEF IInv

\* What a quiet step leaves alone, and whom it can move.
LEMMA QuietFrame ==
    ASSUME IInv, QuietStep
    PROVE  /\ state' = state /\ count' = count /\ current_pid' = current_pid /\ ctx' = ctx
           /\ timeslice' = timeslice /\ map' = map /\ cpu'.who = cpu.who
           /\ \/ mode' = mode
              \/ mode = "boot" /\ mode' = "idle"
              \/ mode \in {"user", "syscall"} /\ mode' \in {"user", "syscall", "stopped", "waits"}
  <1>1. CASE pit_init \/ pic_unmask \/ syscall_enter \/ syscall_stops
    BY Zenon, <1>1 DEF pit_init, pic_unmask, syscall_enter, syscall_stops, procVars, InProgram
  <1>2. CASE Step \/ syscall_return
    BY <1>2 DEF Step, syscall_return, procVars, IInv, TypeOK, Context
  <1>3. CASE kpanic
    BY <1>3 DEF kpanic, PanicAt, InProgram, hcf, IInv, TypeOK, Context
  <1>4. CASE panic_prints
    BY <1>4 DEF panic_prints, PanicAt, hcf, IInv, TypeOK, Context
  <1>. QED  BY <1>1, <1>2, <1>3, <1>4 DEF QuietStep

\* The steps that leave every slot of procs where it is: the timer is started,
\* a program advances, a system call is entered, returns, stops or panics.
LEMMA QuietIInv == IInv /\ QuietStep => IInv'
  <1>. SUFFICES ASSUME IInv, QuietStep PROVE IInv'
    OBVIOUS
  <1>. USE SchedulerAssumption
  <1>a. TypeOK /\ state' = state /\ count' = count /\ current_pid' = current_pid /\ ctx' = ctx
    BY QuietFrame DEF IInv
  <1>b. mode \in {"user", "syscall"} => cpu.who \in Pid
    BY DEF IInv, CpuInv
  <1>c. CASE Step \/ syscall_return
    <2>1. (cpu.pc + 1) % PcRange \in 0 .. PcRange - 1
      BY <1>a, PcAdvances DEF TypeOK, Context
    <2>2. \A p \in Pid : (at[p] + 1) % PcRange \in 0 .. PcRange - 1
      BY <1>a, PcAdvances DEF TypeOK
    <2>3. mode \in {"user", "syscall"} /\ mode' = "user" /\ lock' = lock
      BY <1>c DEF Step, syscall_return, InProgram
    <2>4. /\ cpu' = [cpu EXCEPT !.pc = (@ + 1) % PcRange]
          /\ at' = [at EXCEPT ![cpu.who] = (@ + 1) % PcRange]
      BY <1>c DEF Step, syscall_return
    <2>5. cpu' \in Context /\ at' \in [Pid -> 0 .. PcRange - 1]
      BY ZenonT(40), <1>a, <2>1, <2>2, <2>4 DEF TypeOK, Context
    <2>6. in_syscall' \in [Pid -> BOOLEAN] /\ \A p \in Pid : ~in_syscall'[p]
      <3>1. CASE Step
        BY <1>a, <3>1 DEF TypeOK, IInv, SyscallMark, Step, InProgram, procVars
      <3>2. CASE syscall_return
        BY <1>a, <3>2 DEF TypeOK, IInv, SyscallMark, CpuInv, syscall_return, MarkCleared, MarkAs
      <3>. QED  BY <1>c, <3>1, <3>2
    <2>7. TypeOK'
      BY <1>a, <2>3, <2>5, <2>6, QuietFrame DEF TypeOK
    <2>8. \A p \in Pid : state[p] = "READY" => at'[p] = at[p]
      BY <1>a, <1>b, <2>3, <2>4 DEF TypeOK, IInv, CpuInv
    <2>9. \A p \in Pid : state[p] = "RUNNING" => cpu'.pc = at'[p]
      BY <1>a, <2>4 DEF TypeOK, Context, IInv, CpuInv, OneRunning
    <2>10. BootInv' /\ CpuInv' /\ OneRunning' /\ ContextIntact'
      BY <1>a, <2>3, <2>6, <2>8, <2>9, QuietFrame
      DEF IInv, BootInv, CpuInv, OneRunning, ContextIntact
    <2>11. CountLive' /\ SyscallMark'
      BY <1>a, <2>6 DEF IInv, CountLive, SyscallMark
    <2>. QED  BY <2>7, <2>10, <2>11 DEF IInv
  <1>d. CASE ~(Step \/ syscall_return)
    <2>1. at' = at /\ cpu'.pc = cpu.pc /\ cpu' \in Context /\ lock' \in BOOLEAN
      <3>1. CASE pit_init \/ pic_unmask \/ syscall_enter \/ syscall_stops
        BY Zenon, <1>a, <3>1 DEF TypeOK, pit_init, pic_unmask, syscall_enter, syscall_stops
      <3>2. CASE kpanic
        BY <1>a, <3>2 DEF TypeOK, Context, Unfinished, kpanic, PanicAt
      <3>3. CASE panic_prints
        BY Zenon, <1>a, <3>3 DEF TypeOK, Context, Unfinished, panic_prints, PanicAt
      <3>. QED  BY <1>d, <3>1, <3>2, <3>3 DEF QuietStep
    <2>2. /\ in_syscall' \in [Pid -> BOOLEAN]
          /\ \A p \in Pid : in_syscall'[p] =>
                mode' \in {"syscall", "stopped", "waits"} /\ p = current_pid /\ state[p] # "NULL"
      <3>1. CASE pit_init \/ pic_unmask
        BY <1>a, <3>1 DEF TypeOK, IInv, SyscallMark, CpuInv, pit_init, pic_unmask, procVars
      <3>2. CASE syscall_enter
        BY <1>a, <3>2 DEF TypeOK, IInv, SyscallMark, CpuInv, syscall_enter, InProgram, MarkAs
      <3>3. CASE syscall_stops
        BY <1>a, <3>3 DEF TypeOK, IInv, SyscallMark, CpuInv, syscall_stops, procVars
      <3>4. CASE kpanic
        BY Zenon, <1>a, <3>4 DEF TypeOK, IInv, SyscallMark, CpuInv, kpanic, InProgram, hcf, MarkCleared,
                          MarkAs
      <3>5. CASE panic_prints
        BY Zenon, <1>a, <3>5 DEF TypeOK, IInv, SyscallMark, CpuInv, panic_prints, hcf, MarkCleared, MarkAs
      <3>. QED  BY <1>d, <3>1, <3>2, <3>3, <3>4, <3>5 DEF QuietStep
    <2>3. TypeOK'
      BY <1>a, <2>1, <2>2, QuietFrame DEF TypeOK, Ends
    <2>4. BootInv'
      BY <1>a, <2>1, QuietFrame DEF IInv, BootInv
    <2>5. CpuInv'
      BY <1>a, <2>1, <2>2, QuietFrame DEF IInv, CpuInv
    <2>6. OneRunning' /\ ContextIntact' /\ CountLive' /\ SyscallMark'
      BY <1>a, <2>1, <2>2, QuietFrame DEF IInv, OneRunning, ContextIntact, CountLive, SyscallMark
    <2>. QED  BY <2>3, <2>4, <2>5, <2>6 DEF IInv
  <1>. QED  BY <1>c, <1>d

\* scheduler_tick preserves the invariant: what it loads was saved intact.
LEMMA TickIInv == IInv /\ scheduler_tick => IInv'
  <1>. SUFFICES ASSUME IInv, scheduler_tick PROVE IInv'
    OBVIOUS
  <1>. USE SchedulerAssumption
  <1>1. TypeOK /\ mode \in {"idle", "user"} /\ count \in 1 .. N
    BY DEF IInv, TypeOK, scheduler_tick, InterruptsOn, AssertFails
  <1>2. NextPid \in Pid
    <2>1. (current_pid + 1) % count \in 0 .. count - 1
      BY <1>1, ModRange, SMTT(40) DEF TypeOK, Pid
    <2>. QED  BY <1>1, <2>1, SMTT(40) DEF NextPid, TypeOK, Pid
  <1>3. SavedCtx \in [Pid -> Context] /\ SavedState \in [Pid -> {"NULL", "READY", "RUNNING"}]
    BY <1>1 DEF TypeOK, SavedCtx, SavedState
  <1>4. timeslice' \in [Pid -> 1 .. TimeSlice]
    <2>1. TimeSlice \in 1 .. TimeSlice
      OBVIOUS
    <2>2. Saves /\ ~Expired => timeslice[current_pid] - 1 \in 1 .. TimeSlice
      BY <1>1 DEF TypeOK, Saves, Expired
    <2>. QED  BY <1>1, <2>1, <2>2 DEF TypeOK, scheduler_tick, AssertFails
  <1>5. TypeOK'
    BY <1>1, <1>2, <1>3, <1>4 DEF TypeOK, Ends, scheduler_tick, Thread, AssertFails
  <1>6. /\ \A p \in Pid : SavedState[p] = "READY" => SavedCtx[p].who = p /\ SavedCtx[p].pc = at[p]
        /\ \A p \in Pid : SavedState[p] = "RUNNING" => state[p] = "RUNNING" /\ p = NextPid
        /\ \A p \in Pid : SavedState[p] = "NULL" <=> state[p] = "NULL"
        /\ state[current_pid] = "RUNNING" => SavedState[current_pid] # "NULL"
    BY <1>1 DEF TypeOK, IInv, CpuInv, OneRunning, ContextIntact, SavedState, SavedCtx, Expired,
                Saves, NextPid
  <1>7. /\ ctx' = SavedCtx /\ at' = at /\ in_syscall' = in_syscall /\ count' = count
        /\ current_pid' = NextPid
    BY DEF scheduler_tick, AssertFails
  <1>8. \A p \in Pid : ~in_syscall[p]
    BY <1>1 DEF IInv, SyscallMark
  <1>9. SyscallMark'
    BY <1>7, <1>8 DEF SyscallMark
  <1>10. \A p \in Pid : state'[p] = "NULL" <=> state[p] = "NULL"
    BY <1>2, <1>3, <1>6 DEF scheduler_tick, AssertFails
  <1>11. CountLive'
    <2>1. {p \in Pid : state'[p] # "NULL"} = {p \in Pid : state[p] # "NULL"}
      BY <1>10
    <2>. QED  BY <1>7, <2>1 DEF IInv, CountLive
  <1>12. ContextIntact'
    BY <1>2, <1>3, <1>6, <1>7 DEF scheduler_tick, ContextIntact, AssertFails
  <1>13. OneRunning'
    BY <1>2, <1>3, <1>6, <1>7 DEF IInv, OneRunning, scheduler_tick, AssertFails
  <1>14. BootInv'
    BY <1>1, <1>2, <1>3, <1>6 DEF IInv, BootInv, scheduler_tick, AssertFails
  <1>15. CpuInv'
    <2>1. mode' \in {"user", "syscall"} => cpu'.who \in Pid /\ state'[cpu'.who] # "READY"
      BY <1>1, <1>2, <1>3, <1>6 DEF IInv, CpuInv, BootInv, OneRunning, scheduler_tick, AssertFails
    <2>2. \A p \in Pid : state'[p] = "RUNNING" => cpu'.pc = at'[p]
      BY <1>2, <1>3, <1>6, <1>7 DEF IInv, CpuInv, scheduler_tick, AssertFails
    <2>. QED  BY <1>7, <1>8, <2>1, <2>2 DEF CpuInv
  <1>. QED  BY <1>5, <1>9, <1>11, <1>12, <1>13, <1>14, <1>15 DEF IInv

\* scheduler_exit preserves the invariant, whichever process exits.
LEMMA ExitIInv == IInv /\ scheduler_exit => IInv'
  <1>. SUFFICES ASSUME IInv, scheduler_exit PROVE IInv'
    OBVIOUS
  <1>. USE SchedulerAssumption
  <1>1. TypeOK /\ current_pid \in Live
    BY DEF IInv, TypeOK, scheduler_exit, Live, CountAfterExit, PidAfterExit
  <1>2. Live' = Live \ {current_pid}
    BY <1>1 DEF TypeOK, Live, scheduler_exit, CountAfterExit, PidAfterExit
  <1>3. Cardinality(Live') = Cardinality(Live) - 1 /\ Cardinality(Live') \in Nat
    BY <1>1, <1>2, LiveFinite, FS_RemoveElement, FS_CardinalityType, FS_Subset
  <1>4. CountLive' /\ count' \in 0 .. N
    BY <1>1, <1>3 DEF IInv, TypeOK, CountLive, Live, scheduler_exit, CountAfterExit, PidAfterExit
  <1>5. current_pid' \in Pid
    <2>1. count' # 0 => (current_pid + 1) % count' \in 0 .. count' - 1
      <3>1. current_pid \in Nat /\ count' \in Nat
        BY <1>1, <1>4 DEF TypeOK, Pid
      <3>. QED  BY ZenonT(40), <3>1, ModRange
    <2>. QED  BY <1>1, <1>4, <2>1, SMTT(40) DEF TypeOK, Pid, scheduler_exit, CountAfterExit, PidAfterExit
  <1>6. TypeOK'
    BY <1>1, <1>4, <1>5 DEF TypeOK, Ends, scheduler_exit, CountAfterExit, PidAfterExit
  <1>7. \A p \in Pid : ~in_syscall'[p]
    BY <1>1 DEF TypeOK, IInv, SyscallMark, scheduler_exit, CountAfterExit, PidAfterExit
  <1>8. \A p \in Pid : state'[p] # "RUNNING"
    BY <1>1 DEF TypeOK, IInv, OneRunning, scheduler_exit, CountAfterExit, PidAfterExit
  <1>9. SyscallMark' /\ OneRunning' /\ BootInv'
    BY <1>7, <1>8 DEF SyscallMark, OneRunning, BootInv, scheduler_exit, CountAfterExit, PidAfterExit
  <1>10. ContextIntact'
    BY <1>1 DEF TypeOK, IInv, ContextIntact, scheduler_exit, CountAfterExit, PidAfterExit
  <1>11. CpuInv'
    BY <1>1, <1>7, <1>8 DEF TypeOK, IInv, CpuInv, scheduler_exit, CountAfterExit, PidAfterExit
  <1>. QED  BY <1>4, <1>6, <1>9, <1>10, <1>11 DEF IInv

\* Every step preserves the invariant.
LEMMA NextIInv == IInv /\ [Next]_vars => IInv'
  <1>1. ASSUME IInv, UNCHANGED vars PROVE IInv'
    <2>1. TypeOK' /\ BootInv' /\ CpuInv'
      BY <1>1 DEF IInv, vars, TypeOK, BootInv, CpuInv
    <2>2. OneRunning' /\ ContextIntact' /\ CountLive' /\ SyscallMark'
      BY <1>1 DEF IInv, vars, OneRunning, ContextIntact, CountLive, SyscallMark
    <2>. QED  BY <2>1, <2>2 DEF IInv
  <1>. QED  BY <1>1, SpawnIInv, QuietIInv, TickIInv, ExitIInv DEF Next, QuietStep

\* The invariant holds in every reachable state.
LEMMA Inductive == Spec => []IInv
  BY InitIInv, NextIInv, PTL DEF Spec

\* Type correctness, for any number of processes exiting in any order.
THEOREM SchedulerTypeCorrect == Spec => []TypeOK
  <1>1. IInv => TypeOK
    BY DEF IInv
  <1>. QED  BY <1>1, Inductive, PTL

\* At most one process runs, and the CPU has its registers and page map.
THEOREM SchedulerOneRunning == Spec => []OneRunning
  <1>1. IInv => OneRunning
    BY DEF IInv
  <1>. QED  BY <1>1, Inductive, PTL

\* A preempted process resumes where it was, with its own registers.
THEOREM SchedulerContextIntact == Spec => []ContextIntact
  <1>1. IInv => ContextIntact
    BY DEF IInv
  <1>. QED  BY <1>1, Inductive, PTL

\* count is the number of live processes.
THEOREM SchedulerCountLive == Spec => []CountLive
  <1>1. IInv => CountLive
    BY DEF IInv
  <1>. QED  BY <1>1, Inductive, PTL

\* A system call of a live process is handled as that process's own.
THEOREM SchedulerOwnSyscalls == Spec => []OwnSyscalls
  <1>1. IInv => OwnSyscalls
    BY DEF IInv, TypeOK, CpuInv, OneRunning, OwnSyscalls
  <1>. QED  BY <1>1, Inductive, PTL

\* No process keeps its in_syscall mark when its system call is over.
THEOREM SchedulerSyscallMark == Spec => []SyscallMark
  <1>1. IInv => SyscallMark
    BY DEF IInv
  <1>. QED  BY <1>1, Inductive, PTL

\* The strengthened invariant when the process spawned last exits first.
LEMMA NextLifo ==
    ASSUME ~ExitAnyOrder
    PROVE  IInv /\ LifoInv /\ [Next]_vars => LifoInv'
  <1>. SUFFICES ASSUME IInv, LifoInv, [Next]_vars PROVE LifoInv'
    OBVIOUS
  <1>. USE SchedulerAssumption
  <1>0. TypeOK
    BY DEF IInv
  <1>1. CASE scheduler_spawn
    <2>1. \A p \in Pid : state'[p] # "NULL" <=> p = count \/ state[p] # "NULL"
      BY <1>0, <1>1 DEF TypeOK, scheduler_spawn
    <2>2. \A p \in Pid : p < count + 1 <=> p = count \/ p < count
      BY <1>0 DEF TypeOK, Pid
    <2>3. PidsCompact'
      BY <1>1, <2>1, <2>2 DEF LifoInv, PidsCompact, scheduler_spawn
    <2>4. current_pid < count + 1
      <3>1. CASE count = 0
        <4>1. current_pid = 0
          BY <1>0, <1>1, <3>1 DEF IInv, BootInv, scheduler_spawn
        <4>. QED  BY <3>1, <4>1
      <3>2. CASE count # 0
        BY <1>0, <3>2 DEF TypeOK, Pid, LifoInv
      <3>. QED  BY <3>1, <3>2
    <2>. QED  BY <1>1, <2>3, <2>4 DEF LifoInv, NextProcExists, scheduler_spawn
  <1>2. CASE scheduler_tick
    <2>1. NextPid \in Pid /\ NextPid < count
      <3>1. count # 0
        BY <1>2 DEF scheduler_tick
      <3>2. count \in Nat \ {0} /\ current_pid \in Nat
        BY <1>0, <3>1 DEF TypeOK, Pid
      <3>3. (current_pid + 1) % count \in 0 .. count - 1
        BY <3>2, ModRange
      <3>. QED  BY <1>0, <3>1, <3>2, <3>3 DEF TypeOK, NextPid, LifoInv, Pid
    <2>2. /\ \A p \in Pid : SavedState[p] = "NULL" <=> state[p] = "NULL"
          /\ SavedState \in [Pid -> {"NULL", "READY", "RUNNING"}]
      BY <1>0 DEF TypeOK, SavedState, Expired, Saves
    <2>3. SavedState[NextPid] # "NULL"
      BY <2>1, <2>2 DEF LifoInv, PidsCompact
    <2>4. PidsCompact'
      BY <1>2, <2>1, <2>2, <2>3 DEF LifoInv, PidsCompact, scheduler_tick, AssertFails
    <2>. QED  BY <1>2, <2>1, <2>3, <2>4 DEF LifoInv, NextProcExists, scheduler_tick, AssertFails
  <1>3. CASE scheduler_exit
    <2>1. current_pid = count - 1 /\ count' = count - 1 /\ count \in Nat /\ current_pid \in Nat
      BY <1>0, <1>3 DEF TypeOK, Pid, scheduler_exit, CountAfterExit, PidAfterExit
    <2>2. \A p \in Pid : state'[p] # "NULL" <=> p # current_pid /\ state[p] # "NULL"
      BY <1>0, <1>3 DEF TypeOK, scheduler_exit, CountAfterExit, PidAfterExit
    <2>3. \A p \in Pid : p < count - 1 <=> p # current_pid /\ p < count
      BY <2>1 DEF Pid
    <2>4. PidsCompact'
      BY <2>1, <2>2, <2>3 DEF LifoInv, PidsCompact
    <2>5. count' # 0 => (current_pid + 1) % count' \in 0 .. count' - 1
      BY <2>1, ModRange
    <2>. QED  BY <1>3, <2>1, <2>4, <2>5 DEF LifoInv, NextProcExists, scheduler_exit, CountAfterExit,
                                            PidAfterExit
  <1>4. CASE QuietStep \/ UNCHANGED vars
    <2>1. state' = state /\ count' = count /\ current_pid' = current_pid
      BY <1>4, QuietFrame DEF vars
    <2>2. mode' # "assert"
      BY <1>4, QuietFrame DEF LifoInv, NextProcExists, vars
    <2>. QED  BY <2>1, <2>2 DEF LifoInv, PidsCompact, NextProcExists
  <1>. QED  BY <1>1, <1>2, <1>3, <1>4 DEF Next, QuietStep

\* When the process spawned last exits first, the pids in use stay 0 .. count-1
\* and the assertion of scheduler_tick never fails.
THEOREM SchedulerLifo ==
    ASSUME ~ExitAnyOrder
    PROVE  Spec => [](PidsCompact /\ NextProcExists)
  <1>1. Init => LifoInv
    BY SchedulerAssumption DEF Init, LifoInv, PidsCompact, NextProcExists, Pid
  <1>2. IInv /\ LifoInv /\ [Next]_vars => LifoInv'
    BY NextLifo
  <1>3. LifoInv => PidsCompact /\ NextProcExists
    BY DEF LifoInv
  <1>. QED  BY <1>1, <1>2, <1>3, Inductive, PTL DEF Spec

-----------------------------------------------------------------------------
(* The system calls.                                                       *)

FilesInv == CallsTypeOK /\ FdsCompact

\* The descriptors as the list that module OpenFiles speaks of.
List == [k \in 1 .. InUse |-> fd_table[k - 1]]

\* The calls that leave the descriptor table and the vnodes alone.
Quiet ==
    \/ \E create \in BOOLEAN : open_relative(create)
    \/ \E fd \in AnyFd, action \in {"r", "w"}, size \in Sizes, result \in {-1, 1} :
          Transfer(fd, action, size, result)
    \/ \E fd \in AnyFd, buffer \in BOOLEAN : sys_stat(fd, buffer)
    \/ \E fd \in AnyFd : sys_ioctl(fd)
    \/ \E id \in Id : sys_setuid(id) \/ sys_setgid(id)
    \/ OtherCalls

\* Both before and after the step the process runs.
Runs == phase = "running" /\ phase' = "running"

\* The invariant holds when the process has been spawned.
LEMMA InitFilesInv == CallsInit => FilesInv
  <1>. SUFFICES ASSUME CallsInit PROVE FilesInv
    OBVIOUS
  <1>. USE SyscallsAssumption
  <1>1. PICK stdout \in Path : NodeAt[stdout] # NULL
                               /\ fd_table = [fd \in Fd |-> IF fd = 0 THEN stdout ELSE NULL]
    BY DEF CallsInit
  <1>2. CallsTypeOK
    BY <1>1 DEF CallsInit, CallsTypeOK, Fd, EOK
  <1>3. FdsCompact
    BY <1>1 DEF CallsInit, FdsCompact, InUse, Fd
  <1>. QED  BY <1>2, <1>3 DEF FilesInv

\* What syscall_handler stores has the right type.
LEMMA ReturnTypes ==
    ASSUME CallsTypeOK, NEW status \in Int, Return(status)
    PROVE  rax' \in Int /\ errno' \in Nat /\ Runs
  BY DEF Return, CallsTypeOK, Runs

\* sys_open appends to the descriptors or leaves them alone.
LEMMA OpenFilesInv ==
    ASSUME FilesInv, NEW p \in Path, NEW q \in Path, NEW create \in BOOLEAN, NEW kind \in Kind,
           sys_open(p, q, create, kind)
    PROVE  /\ FilesInv' /\ Runs
           /\ \/ \E n \in Path : CanAdd /\ Added(n)
              \/ UNCHANGED Files
  <1>. USE SyscallsAssumption
  <1>. DEFINE created == create /\ node[p] = NULL /\ node[q] = NULL /\ q \in Creatable
              new == [type |-> kind, mode |-> DefaultMode(kind)]
  <1>1. CallsTypeOK
    BY DEF FilesInv
  <1>2. new \in Vnode /\ new # NULL
    BY DEF Vnode, Mode, DefaultMode, Kind
  <1>. HIDE DEF new
  <1>3. node' = IF created THEN [node EXCEPT ![q] = new] ELSE node
    BY DEF sys_open, new
  <1>4. /\ node' \in [Path -> Vnode \cup {NULL}]
        /\ \A o \in Path : node[o] # NULL => node'[o] # NULL
    BY SMTT(60), <1>1, <1>2, <1>3 DEF CallsTypeOK
  <1>5. CASE node[p] # NULL \/ created
    <2>. PICK n \in Path : n = IF created THEN q ELSE p
      OBVIOUS
    <2>1. Return(AddedAt) /\ Added(n) /\ Transfers /\ UNCHANGED whoami
      BY <1>5 DEF sys_open
    <2>2. AddedAt \in Int
      BY <1>1 DEF AddedAt, CallsTypeOK
    <2>3. rax' \in Int /\ errno' \in Nat /\ Runs
      BY <1>1, <2>1, <2>2, ReturnTypes
    <2>4. fd_table' \in [Fd -> Path \cup {NULL}] /\ fd_count' \in 0 .. MaxFds
      BY <1>1, <2>1 DEF Added, CanAdd, Files, CallsTypeOK, Fd
    <2>5. CallsTypeOK'
      BY <1>1, <1>4, <2>1, <2>3, <2>4 DEF CallsTypeOK, Transfers, Runs
    <2>6. node'[n] # NULL
      BY <1>1, <1>2, <1>3, <1>5 DEF CallsTypeOK
    <2>7. FdsCompact'
      <3>0. InUse = fd_count /\ InUse' = fd_count'
        BY <2>3 DEF InUse, Runs
      <3>1. CASE CanAdd
        <4>1. /\ fd_count \in Fd /\ fd_count' = fd_count + 1
              /\ fd_table' = [fd_table EXCEPT ![fd_count] = n]
          BY <1>1, <2>1, <3>1 DEF Added, CanAdd, CallsTypeOK, Fd
        <4>2. \A fd \in Fd : fd < fd_count + 1 <=> fd = fd_count \/ fd < fd_count
          BY <4>1 DEF Fd
        <4>3. \A fd \in Fd : fd_table'[fd] = IF fd = fd_count THEN n ELSE fd_table[fd]
          BY <1>1, <4>1 DEF CallsTypeOK
        <4>4. n # NULL
          OBVIOUS
        <4>5. \A fd \in Fd : fd_table[fd] # NULL => fd_table[fd] \in Path
          BY <1>1 DEF CallsTypeOK
        <4>. QED  BY <3>0, <4>1, <4>2, <4>3, <4>4, <4>5, <1>4, <2>6 DEF FilesInv, FdsCompact
      <3>2. CASE ~CanAdd
        <4>1. UNCHANGED <<fd_table, fd_count>>
          BY <2>1, <3>2 DEF Added, Files
        <4>2. \A fd \in Fd : fd_table[fd] # NULL => fd_table[fd] \in Path
          BY <1>1 DEF CallsTypeOK
        <4>. QED  BY <1>4, <3>0, <4>1, <4>2 DEF FilesInv, FdsCompact
      <3>. QED  BY <3>1, <3>2
    <2>. QED  BY <2>1, <2>3, <2>5, <2>7 DEF FilesInv, Added
  <1>6. CASE ~(node[p] # NULL \/ created)
    <2>1. Return(-ENOENT) /\ UNCHANGED Files /\ Transfers /\ UNCHANGED whoami /\ node' = node
      BY <1>3, <1>6 DEF sys_open
    <2>2. rax' \in Int /\ errno' \in Nat /\ Runs
      <3>1. -ENOENT \in Int
        BY DEF ENOENT
      <3>. QED  BY <1>1, <2>1, <3>1, ReturnTypes
    <2>3. CallsTypeOK'
      BY SMTT(60), <1>1, <2>1, <2>2 DEF CallsTypeOK, Transfers, Files, Runs
    <2>4. FdsCompact'
      BY <2>1, <2>2 DEF FilesInv, FdsCompact, Files, InUse, Runs
    <2>. QED  BY <2>1, <2>2, <2>3, <2>4 DEF FilesInv
  <1>. QED  BY <1>5, <1>6

\* sys_close removes one descriptor and moves the later ones down, or does
\* nothing to the table.
LEMMA CloseFilesInv ==
    ASSUME FilesInv, NEW fd \in AnyFd, sys_close(fd)
    PROVE  /\ FilesInv' /\ Runs
           /\ \/ /\ fd \in Fd /\ fd < fd_count
                 /\ fd_table' = Removed(fd) /\ fd_count' = fd_count - 1
              \/ UNCHANGED Files
  <1>. USE SyscallsAssumption
  <1>1. CallsTypeOK
    BY DEF FilesInv
  <1>2. CASE fd \in Fd /\ fd_table[fd] # NULL
    <2>1. /\ Return(0) /\ Transfers /\ UNCHANGED <<node, whoami>>
          /\ fd_table' = Removed(fd) /\ fd_count' = fd_count - 1
      BY <1>2 DEF sys_close
    <2>0. phase = "running" /\ phase' = "running"
      BY <2>1 DEF Return
    <2>2. fd < fd_count /\ fd \in Nat /\ fd_count \in 1 .. MaxFds
      BY <1>1, <1>2, <2>0 DEF FilesInv, CallsTypeOK, FdsCompact, Fd, InUse
    <2>8. \A k \in Fd : /\ fd_table[k] # NULL <=> k < fd_count
                        /\ fd_table[k] # NULL => node[fd_table[k]] # NULL
      <3>1. InUse = fd_count
        BY <2>0 DEF InUse
      <3>. QED  BY <3>1 DEF FilesInv, FdsCompact
    <2>3. rax' \in Int /\ errno' \in Nat /\ Runs
      <3>1. fd_table[fd] \in Path \cup {NULL}
        BY <1>1, <1>2 DEF CallsTypeOK
      <3>. QED  BY <1>1, <2>1, <3>1, ReturnTypes
    <2>4. \A k \in Fd : k < fd_count - 1 => k + 1 \in Fd
      BY <2>2 DEF Fd
    <2>5. Removed(fd) \in [Fd -> Path \cup {NULL}]
      BY <1>1, <2>2, <2>4 DEF Removed, CallsTypeOK, Fd
    <2>6. CallsTypeOK'
      BY <1>1, <2>1, <2>2, <2>3, <2>5 DEF CallsTypeOK, Transfers, Runs
    <2>7. FdsCompact'
      <3>. SUFFICES ASSUME NEW k \in Fd
                    PROVE  /\ Removed(fd)[k] # NULL <=> k < fd_count - 1
                           /\ Removed(fd)[k] # NULL => node[Removed(fd)[k]] # NULL
        BY <2>0, <2>1 DEF FdsCompact, InUse
      <3>1. k \in Nat /\ fd_count \in Nat /\ fd \in Nat
        BY <2>2 DEF Fd
      <3>2. CASE k = fd_count - 1
        BY <3>1, <3>2 DEF Removed
      <3>3. CASE fd <= k /\ k < fd_count - 1
        <4>1. Removed(fd)[k] = fd_table[k + 1] /\ k + 1 \in Fd /\ k + 1 < fd_count
          BY <2>2, <2>4, <3>1, <3>3 DEF Removed
        <4>2. fd_table[k + 1] # NULL /\ node[fd_table[k + 1]] # NULL
          BY <2>8, <4>1
        <4>. QED  BY <3>3, <4>1, <4>2
      <3>4. CASE k # fd_count - 1 /\ ~(fd <= k /\ k < fd_count - 1)
        <4>1. Removed(fd)[k] = fd_table[k]
          BY <3>4 DEF Removed
        <4>2. k < fd_count <=> k < fd_count - 1
          BY <2>2, <3>1, <3>4
        <4>. QED  BY <2>8, <4>1, <4>2
      <3>. QED  BY <3>2, <3>3, <3>4
    <2>. QED  BY <1>2, <2>1, <2>2, <2>3, <2>6, <2>7 DEF FilesInv
  <1>3. CASE ~(fd \in Fd /\ fd_table[fd] # NULL)
    <2>1. Return(-EBADF) /\ UNCHANGED Files /\ Transfers /\ UNCHANGED <<node, whoami>>
      BY <1>3 DEF sys_close
    <2>2. rax' \in Int /\ errno' \in Nat /\ Runs
      <3>1. -EBADF \in Int
        BY DEF EBADF
      <3>. QED  BY <1>1, <2>1, <3>1, ReturnTypes
    <2>3. CallsTypeOK'
      BY <1>1, <2>1, <2>2 DEF CallsTypeOK, Transfers, Files, Runs
    <2>4. FdsCompact'
      BY <2>1, <2>2 DEF FilesInv, FdsCompact, Files, InUse, Runs
    <2>. QED  BY <2>1, <2>2, <2>3, <2>4 DEF FilesInv
  <1>. QED  BY <1>2, <1>3

\* A call that does not return leaves everything but the phase alone.
LEMMA StopsFilesInv ==
    ASSUME FilesInv, NEW how \in {"assert", "panic", "undefined"}, Stops(how)
    PROVE  FilesInv' /\ UNCHANGED <<node, fd_table, InUse>>
  <1>1. phase # "exited" /\ phase' # "exited" /\ UNCHANGED <<node, fd_table, fd_count>>
    BY DEF Stops, Files
  <1>2. UNCHANGED InUse
    BY <1>1 DEF InUse
  <1>3. CallsTypeOK'
    BY DEF FilesInv, CallsTypeOK, Stops, Files, Transfers
  <1>4. FdsCompact'
    BY <1>1, <1>2 DEF FilesInv, FdsCompact
  <1>. QED  BY <1>1, <1>2, <1>3, <1>4 DEF FilesInv

\* A call that returns and keeps the vnodes and the descriptors.
LEMMA KeptFilesInv ==
    ASSUME FilesInv, NEW status \in Int, Return(status), UNCHANGED <<node, Files>>,
           whoami' \in [uid : Id, gid : Id], moved' \in {<<>>} \cup (Path \X {"r", "w"})
    PROVE  FilesInv' /\ UNCHANGED <<node, fd_table, InUse>>
  <1>1. rax' \in Int /\ errno' \in Nat /\ Runs
    BY ReturnTypes DEF FilesInv
  <1>2. UNCHANGED InUse
    BY <1>1 DEF InUse, Runs, Files
  <1>3. CallsTypeOK'
    BY <1>1 DEF FilesInv, CallsTypeOK, Files, Runs
  <1>4. FdsCompact'
    BY <1>2 DEF FilesInv, FdsCompact, Files
  <1>. QED  BY <1>2, <1>3, <1>4 DEF FilesInv, Files

\* The other calls leave the descriptors alone.
LEMMA QuietFilesInv == FilesInv /\ Quiet => FilesInv' /\ UNCHANGED <<node, fd_table, InUse>>
  <1>. SUFFICES ASSUME FilesInv, Quiet PROVE FilesInv' /\ UNCHANGED <<node, fd_table, InUse>>
    OBVIOUS
  <1>. USE SyscallsAssumption
  <1>1. CallsTypeOK
    BY DEF FilesInv
  <1>2. /\ {0, -EBADF, -EACCES, -ENOENT, -ENOTIMPL, -EFAULT, -ENOTTY, -EINVAL} \subseteq Int
        /\ {-1, 1} \subseteq Int
    BY DEF EBADF, EACCES, ENOENT, ENOTIMPL, EFAULT, ENOTTY, EINVAL
  <1>3. \A fd \in AnyFd : Slot(fd) \in Path \cup {NULL, Wild}
    BY <1>1 DEF CallsTypeOK, Slot
  <1>w. whoami \in [uid : Id, gid : Id]
    BY <1>1 DEF CallsTypeOK
  <1>4. CASE \E create \in BOOLEAN : open_relative(create)
    <2>1. PICK create \in BOOLEAN : open_relative(create)
      BY <1>4
    <2>2. CASE create
      BY <2>1, <2>2, StopsFilesInv DEF open_relative
    <2>3. CASE ~create
      <3>1. Return(-ENOENT) /\ moved' = <<>> /\ UNCHANGED <<node, Files, whoami>>
        BY <2>1, <2>3 DEF open_relative, Transfers
      <3>. QED  BY <1>2, <1>w, <3>1, KeptFilesInv
    <2>. QED  BY <2>2, <2>3
  <1>5. CASE \E fd \in AnyFd, action \in {"r", "w"}, size \in Sizes, result \in {-1, 1} :
                Transfer(fd, action, size, result)
    <2>1. PICK fd \in AnyFd, action \in {"r", "w"}, size \in Sizes, result \in {-1, 1} :
                Transfer(fd, action, size, result)
      BY <1>5
    <2>2. CASE Stops("undefined") \/ Stops("assert")
      BY <2>2, StopsFilesInv
    <2>3. CASE \E status \in {-EBADF, -EACCES, -ENOTIMPL} :
                  Return(status) /\ moved' = <<>> /\ UNCHANGED <<node, Files, whoami>>
      BY <1>2, <1>w, <2>3, KeptFilesInv
    <2>4. CASE /\ Slot(fd) # NULL /\ Slot(fd) # Wild
               /\ Return(result) /\ moved' = <<Slot(fd), action>> /\ UNCHANGED <<node, Files, whoami>>
      <3>1. moved' \in Path \X {"r", "w"}
        BY <1>3, <2>4
      <3>. QED  BY <1>2, <1>w, <2>4, <3>1, KeptFilesInv
    <2>. QED  BY <2>1, <2>2, <2>3, <2>4 DEF Transfer
  <1>6. ASSUME NEW fd \in AnyFd, NEW status \in {0, -ENOTTY}, Asks(fd, status)
        PROVE  FilesInv' /\ UNCHANGED <<node, fd_table, InUse>>
    <2>1. CASE Stops("undefined")
      BY <2>1, StopsFilesInv
    <2>2. CASE \E st \in {0, -EBADF, -ENOTTY} :
                  Return(st) /\ moved' = <<>> /\ UNCHANGED <<node, Files, whoami>>
      BY <1>2, <1>w, <2>2, KeptFilesInv
    <2>. QED  BY <1>6, <2>1, <2>2 DEF Asks, Transfers
  <1>7. CASE \E fd \in AnyFd, buffer \in BOOLEAN : sys_stat(fd, buffer)
    <2>1. CASE \E fd \in AnyFd : Asks(fd, 0)
      BY <1>6, <2>1
    <2>2. CASE Return(-EFAULT) /\ moved' = <<>> /\ UNCHANGED <<node, Files, whoami>>
      BY <1>2, <1>w, <2>2, KeptFilesInv
    <2>. QED  BY <1>7, <2>1, <2>2 DEF sys_stat, Transfers
  <1>8. CASE \E fd \in AnyFd : sys_ioctl(fd)
    BY <1>6, <1>8 DEF sys_ioctl
  <1>9. CASE \E id \in Id : sys_setuid(id) \/ sys_setgid(id)
    <2>1. PICK id \in Id : sys_setuid(id) \/ sys_setgid(id)
      BY <1>9
    <2>2. Return(0) /\ moved' = <<>> /\ UNCHANGED <<node, Files>>
      BY <2>1 DEF sys_setuid, sys_setgid, Transfers
    <2>3. whoami' \in [uid : Id, gid : Id]
      BY <1>1, <2>1 DEF CallsTypeOK, sys_setuid, sys_setgid
    <2>. QED  BY <2>2, <2>3, KeptFilesInv
  <1>10. CASE OtherCalls
    <2>1. PICK st \in {0, -ENOTIMPL, -EINVAL} : Return(st)
      BY <1>10 DEF OtherCalls
    <2>2. st \in Int /\ moved' = <<>> /\ UNCHANGED <<node, Files, whoami>>
      BY <1>2, <1>10 DEF OtherCalls, Transfers
    <2>. QED  BY <1>w, <2>1, <2>2, KeptFilesInv
  <1>. QED  BY <1>4, <1>5, <1>7, <1>8, <1>9, <1>10 DEF Quiet

\* Exiting empties the table.
LEMMA ExitFilesInv == FilesInv /\ sys_exit => FilesInv' /\ InUse' = 0
  <1>. SUFFICES ASSUME FilesInv, sys_exit PROVE FilesInv' /\ InUse' = 0
    OBVIOUS
  <1>. USE SyscallsAssumption
  <1>1. CallsTypeOK /\ phase = "running" /\ InUse' = 0
    BY DEF FilesInv, sys_exit, InUse
  <1>2. \A k \in Fd : fd_table'[k] = NULL
    BY <1>1 DEF sys_exit, FilesInv, FdsCompact, InUse
  <1>3. FdsCompact'
    BY <1>1, <1>2 DEF FdsCompact, Fd
  <1>4. CallsTypeOK'
    BY <1>1 DEF CallsTypeOK, sys_exit, Transfers
  <1>. QED  BY <1>1, <1>3, <1>4 DEF FilesInv

\* Every step preserves the invariant and changes the list of open files the
\* way an operation of OpenFiles does.
LEMMA NextFilesInv ==
    FilesInv /\ [CallsNext]_callVars =>
        /\ FilesInv'
        /\ \/ Runs /\ \E p \in Path : CanAdd /\ Added(p)
           \/ Runs /\ \E fd \in Fd : /\ fd < fd_count
                                      /\ fd_table' = Removed(fd) /\ fd_count' = fd_count - 1
           \/ InUse' = 0
           \/ UNCHANGED <<fd_table, InUse>>
  <1>. SUFFICES ASSUME FilesInv, [CallsNext]_callVars
                PROVE  /\ FilesInv'
                       /\ \/ Runs /\ \E p \in Path : CanAdd /\ Added(p)
                          \/ Runs /\ \E fd \in Fd : /\ fd < fd_count
                                                     /\ fd_table' = Removed(fd) /\ fd_count' = fd_count - 1
                          \/ InUse' = 0
                          \/ UNCHANGED <<fd_table, InUse>>
    OBVIOUS
  <1>a. Runs /\ UNCHANGED Files => UNCHANGED <<fd_table, InUse>>
    BY DEF Runs, Files, InUse
  <1>1. CASE \E g \in Given, create \in BOOLEAN, kind \in Kind : sys_open(g[1], g[2], create, kind)
    <2>1. PICK g \in Given, create \in BOOLEAN, kind \in Kind : sys_open(g[1], g[2], create, kind)
      BY <1>1
    <2>2. g[1] \in Path /\ g[2] \in Path
      BY SyscallsAssumption
    <2>. QED  BY <1>a, <2>1, <2>2, OpenFilesInv
  <1>2. CASE \E fd \in AnyFd : sys_close(fd)
    BY <1>a, <1>2, CloseFilesInv
  <1>3. CASE Quiet
    BY <1>3, QuietFilesInv
  <1>4. CASE sys_exit
    BY <1>4, ExitFilesInv
  <1>5. CASE UNCHANGED callVars
    <2>1. CallsTypeOK' /\ FdsCompact'
      BY <1>5 DEF FilesInv, callVars, CallsTypeOK, FdsCompact, InUse
    <2>. QED  BY <1>5, <2>1 DEF FilesInv, callVars, InUse
  <1>. QED  BY <1>1, <1>2, <1>3, <1>4, <1>5 DEF CallsNext, Quiet

\* The invariant holds in every reachable state.
LEMMA FilesInductive == CallsSpec => []FilesInv
  <1>1. FilesInv /\ [CallsNext]_callVars => FilesInv'
    BY NextFilesInv
  <1>. QED  BY <1>1, InitFilesInv, PTL DEF CallsSpec

\* Type correctness of the descriptor table and of what calls return.
THEOREM SyscallsTypeCorrect == CallsSpec => []CallsTypeOK
  <1>1. FilesInv => CallsTypeOK
    BY DEF FilesInv
  <1>. QED  BY <1>1, FilesInductive, PTL

\* The open descriptors of a process are exactly 0 .. fd_count - 1.
THEOREM SyscallsFdsCompact == CallsSpec => []FdsCompact
  <1>1. FilesInv => FdsCompact
    BY DEF FilesInv
  <1>. QED  BY <1>1, FilesInductive, PTL

\* What is there was there at boot, or is not for others to write to.
AsAtBoot == \A p \in Path : node[p] # NULL => node[p] = NodeAt[p] \/ <<"oth", "w">> \notin node[p].mode

\* Nothing changes a vnode, and what open creates is not for others to write to.
LEMMA BootInductive == CallsSpec => []AsAtBoot
  <1>1. CallsInit => AsAtBoot
    BY DEF CallsInit, AsAtBoot
  <1>2. FilesInv /\ AsAtBoot /\ [CallsNext]_callVars => AsAtBoot'
    <2>. SUFFICES ASSUME FilesInv, AsAtBoot, [CallsNext]_callVars PROVE AsAtBoot'
      OBVIOUS
    <2>1. CASE \E g \in Given, create \in BOOLEAN, kind \in Kind : sys_open(g[1], g[2], create, kind)
      <3>1. PICK g \in Given, create \in BOOLEAN, kind \in Kind : sys_open(g[1], g[2], create, kind)
        BY <2>1
      <3>2. PICK q \in Path : q = g[2]
        BY SyscallsAssumption
      <3>. DEFINE new == [type |-> kind, mode |-> DefaultMode(kind)]
      <3>3. node' = node \/ node' = [node EXCEPT ![q] = new]
        BY <3>1, <3>2 DEF sys_open
      <3>4. <<"oth", "w">> \notin new.mode
        BY DEF DefaultMode
      <3>. HIDE DEF new
      <3>. QED  BY <3>3, <3>4 DEF AsAtBoot, FilesInv, CallsTypeOK
    <2>2. CASE UNCHANGED node
      BY <2>2 DEF AsAtBoot
    <2>3. CASE Quiet
      BY <2>2, <2>3, QuietFilesInv
    <2>. QED  BY <2>1, <2>2, <2>3 DEF CallsNext, Quiet, sys_close, sys_exit, callVars
  <1>. QED  BY <1>1, <1>2, FilesInductive, PTL DEF CallsSpec

\* A process without ids writes only where everybody could at boot.
THEOREM SyscallsWritesAsAtBoot == CallsSpec => WritesAsAtBoot
  <1>. DEFINE A == \A p \in Path : moved' = <<p, "w">> /\ whoami.uid # 0 /\ whoami.gid # 0
                      => NodeAt[p] # NULL /\ <<"oth", "w">> \in NodeAt[p].mode
  <1>1. FilesInv /\ AsAtBoot /\ CallsNext => A
    <2>. SUFFICES ASSUME FilesInv, AsAtBoot, CallsNext, NEW p \in Path, moved' = <<p, "w">>,
                         whoami.uid # 0, whoami.gid # 0
                  PROVE  NodeAt[p] # NULL /\ <<"oth", "w">> \in NodeAt[p].mode
      OBVIOUS
    <2>1. PICK fd \in AnyFd, action \in {"r", "w"}, size \in Sizes, result \in {-1, 1} :
                Transfer(fd, action, size, result)
      BY DEF CallsNext, sys_open, open_relative, sys_close, sys_stat, sys_ioctl, Asks, sys_setuid,
             sys_setgid, OtherCalls, sys_exit, Stops, Transfers
    <2>2. /\ Slot(fd) = p /\ action = "w" /\ p # NULL /\ p # Wild
          /\ vfs_am_i_allowed(node[p], "w")
      BY <2>1 DEF Transfer, Stops, Transfers
    <2>3. fd \in Fd /\ fd_table[fd] = p
      BY <2>2 DEF Slot
    <2>4. node[p] # NULL
      BY <2>2, <2>3 DEF FilesInv, FdsCompact
    <2>5. <<"oth", "w">> \in node[p].mode
      BY <2>2 DEF vfs_am_i_allowed
    <2>. QED  BY <2>4, <2>5 DEF AsAtBoot
  <1>2. UNCHANGED callVars \/ ~[CallsNext]_callVars \/ CallsNext
    OBVIOUS
  <1>. QED  BY <1>1, <1>2, FilesInductive, BootInductive, PTL DEF CallsSpec, WritesAsAtBoot

\* The descriptor table implements the list of open files.
THEOREM SyscallsRefinesOpenFiles == CallsSpec => OpenRefinement
  <1>. USE SyscallsAssumption
  <1>1. CallsInit => Opened!OpenInit
    <2>. SUFFICES ASSUME CallsInit PROVE Opened!OpenInit
      OBVIOUS
    <2>1. PICK stdout \in Path : fd_table = [fd \in Fd |-> IF fd = 0 THEN stdout ELSE NULL]
      BY DEF CallsInit
    <2>2. InUse = 1
      BY DEF CallsInit, InUse
    <2>3. List = <<stdout>>
      BY <2>1, <2>2 DEF List, Fd
    <2>. QED  BY <2>3 DEF Opened!OpenInit, List
  <1>2. FilesInv /\ [CallsNext]_callVars => [Opened!OpenNext]_List
    <2>. SUFFICES ASSUME FilesInv, [CallsNext]_callVars PROVE [Opened!OpenNext]_List
      OBVIOUS
    <2>0. CallsTypeOK
      BY DEF FilesInv
    <2>a. InUse \in 0 .. MaxFds
      BY <2>0 DEF CallsTypeOK, InUse
    <2>b. /\ List \in Seq(Path) /\ Len(List) = InUse
          /\ DOMAIN List = 1 .. InUse /\ InUse \in Nat
      <3>1. \A k \in 1 .. InUse : k - 1 \in Fd /\ k - 1 < InUse
        BY <2>a DEF Fd
      <3>2. \A k \in 1 .. InUse : fd_table[k - 1] \in Path
        BY <2>0, <3>1 DEF CallsTypeOK, FilesInv, FdsCompact
      <3>. QED  BY <2>a, <3>2 DEF List
    <2>c. Runs => InUse = fd_count /\ InUse' = fd_count'
      BY DEF Runs, InUse
    <2>1. Runs => /\ List \in Seq(Path) /\ Len(List) = fd_count
                  /\ DOMAIN List = 1 .. fd_count /\ fd_count \in Nat
                  /\ List = [k \in 1 .. fd_count |-> fd_table[k - 1]]
                  /\ List' = [k \in 1 .. fd_count' |-> fd_table'[k - 1]]
      BY <2>b, <2>c DEF List
    <2>2. CASE Runs /\ \E p \in Path : CanAdd /\ Added(p)
      <3>1. PICK p \in Path : CanAdd /\ Added(p)
        BY <2>2
      <3>0. /\ List \in Seq(Path) /\ Len(List) = fd_count
            /\ DOMAIN List = 1 .. fd_count /\ fd_count \in Nat
        BY <2>1, <2>2
      <3>a. /\ List = [k \in 1 .. fd_count |-> fd_table[k - 1]]
            /\ List' = [k \in 1 .. fd_count' |-> fd_table'[k - 1]]
        BY <2>1, <2>2
      <3>2. fd_count \in Fd /\ fd_count' = fd_count + 1 /\ fd_table' = [fd_table EXCEPT ![fd_count] = p]
        BY <2>0, <3>1 DEF CanAdd, Added, CallsTypeOK, Fd
      <3>3. List' = [k \in 1 .. fd_count + 1 |-> IF k = fd_count + 1 THEN p ELSE List[k]]
        BY <2>0, <3>a, <3>2 DEF CallsTypeOK, Fd
      <3>4. List' = Append(List, p)
        <4>1. /\ Append(List, p) \in Seq(Path) /\ Len(Append(List, p)) = fd_count + 1
              /\ \A k \in 1 .. fd_count + 1 :
                    Append(List, p)[k] = IF k = fd_count + 1 THEN p ELSE List[k]
          BY <3>0, AppendProperties
        <4>2. List' \in Seq(Path) /\ Len(List') = fd_count + 1
          <5>1. \A k \in 1 .. fd_count + 1 : (IF k = fd_count + 1 THEN p ELSE List[k]) \in Path
            BY <3>0
          <5>. QED  BY <3>0, <3>3, <5>1
        <4>. QED  BY ZenonT(40), <3>0, <3>3, <4>1, <4>2, SeqEqual
      <3>5. Len(List) < MaxFds
        BY <3>0, <3>1 DEF CanAdd
      <3>. QED  BY ZenonT(40), <3>4, <3>5 DEF List, Opened!OpenNext, Opened!Open
    <2>3. CASE Runs /\ \E fd \in Fd : fd < fd_count /\ fd_table' = Removed(fd) /\ fd_count' = fd_count - 1
      <3>1. PICK fd \in Fd : fd < fd_count /\ fd_table' = Removed(fd) /\ fd_count' = fd_count - 1
        BY <2>3
      <3>0. /\ List \in Seq(Path) /\ Len(List) = fd_count
            /\ DOMAIN List = 1 .. fd_count /\ fd_count \in Nat
        BY <2>1, <2>3
      <3>a. /\ List = [k \in 1 .. fd_count |-> fd_table[k - 1]]
            /\ List' = [k \in 1 .. fd_count' |-> fd_table'[k - 1]]
        BY <2>1, <2>3
      <3>2. fd + 1 \in 1 .. MaxFds /\ fd + 1 \in DOMAIN List /\ fd \in Nat
        BY <2>0, <3>0, <3>1 DEF Fd
      <3>3. List' = [k \in 1 .. fd_count - 1 |-> IF k < fd + 1 THEN List[k] ELSE List[k + 1]]
        <4>. SUFFICES ASSUME NEW k \in 1 .. fd_count - 1
                      PROVE  Removed(fd)[k - 1] = IF k < fd + 1 THEN List[k] ELSE List[k + 1]
          BY ZenonT(40), <3>a, <3>1
        <4>1. k - 1 \in Fd /\ k \in 1 .. fd_count /\ k + 1 \in 1 .. fd_count /\ (k - 1) + 1 = k
          BY <2>0, <3>0 DEF Fd, CallsTypeOK
        <4>2. Removed(fd)[k - 1] = IF fd <= k - 1 THEN fd_table[k] ELSE fd_table[k - 1]
          BY <3>0, <3>2, <4>1 DEF Removed
        <4>3. List[k] = fd_table[k - 1] /\ List[k + 1] = fd_table[k]
          BY <3>a, <4>1
        <4>. QED  BY <3>2, <4>1, <4>2, <4>3
      <3>4. List' = Opened!Without(List, fd + 1)
        BY ZenonT(40), <3>0, <3>3 DEF Opened!Without
      <3>. QED  BY ZenonT(40), <3>2, <3>4 DEF List, Opened!OpenNext, Opened!Close, Opened!Without
    <2>4. CASE InUse' = 0
      <3>1. List' = <<>>
        BY <2>4 DEF List
      <3>. QED  BY <3>1 DEF List, Opened!OpenNext, Opened!CloseAll
    <2>5. CASE UNCHANGED <<fd_table, InUse>>
      BY <2>5 DEF List
    <2>. QED  BY <2>2, <2>3, <2>4, <2>5, NextFilesInv
  <1>. QED  BY <1>1, <1>2, FilesInductive, PTL DEF CallsSpec, OpenRefinement, Opened!OpenSpec, List
=============================================================================
