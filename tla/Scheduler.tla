----------------------------- MODULE Scheduler -----------------------------
(***************************************************************************)
(* The round robin scheduler, proc/scheduler.c, with what drives it: the   *)
(* timer interrupt (dev/timer/pit.c), system calls and kernel panics       *)
(* (sys/intr.c) and the boot thread (post.c).                              *)
(*                                                                         *)
(* There is one CPU.  Interrupts and system calls enter through interrupt  *)
(* gates, with interrupts off until iretq, so a tick is one step and never *)
(* lands inside a system call; exceptions enter through trap gates, so a   *)
(* panic of a program can be preempted while it prints, and one inside a   *)
(* system call cannot until hcf() turns interrupts on.                     *)
(*                                                                         *)
(* All threads enter the kernel on the one stack of tss.rsp0.  A panic     *)
(* that was preempted before hcf() has its frames there, and the entries   *)
(* of the threads that run meanwhile overwrite them: what it does when it  *)
(* is resumed is undefined, and the model ends there.                      *)
(*                                                                         *)
(* The locks of printing, put_lock and the lock of stdout, are one lock    *)
(* here: a system call that finds it taken may need it or may not.         *)
(*                                                                         *)
(* Left out: PROCESS_WAITING and PROCESS_TERMINATED, which no code sets,   *)
(* with the branch of scheduler_tick for the latter; the spinlock, which   *)
(* only scheduler_tick takes, with interrupts off; user ids and the errno. *)
(***************************************************************************)
EXTENDS Integers, FiniteSets

CONSTANTS N,            \* processes the boot thread spawns (post.c spawns one)
          TimeSlice,    \* PROC_DEFAULT_TIME
          PcRange,      \* positions in a program, counted modulo this
          ExitAnyOrder  \* FALSE: only the process spawned last of those alive
                        \* calls exit()

ASSUME SchedulerAssumption ==
    /\ N \in Nat \ {0}
    /\ TimeSlice \in Nat \ {0}
    /\ PcRange \in Nat \ {0}
    /\ ExitAnyOrder \in BOOLEAN

Pid == 0 .. N - 1
Boot == -1              \* the boot thread, and the kernel's own page map
Thread == Pid \cup {Boot}

\* The registers an interrupt saves: whose they are, where that thread is,
\* and how far it is in kpanic: "no" panic, between two messages ("prints"),
\* inside one, with the print lock ("holds"), or in the halt loop at the end.
Unfinished == {"prints", "holds"}
Context == [who : Thread, pc : 0 .. PcRange - 1, panic : {"no", "hcf"} \cup Unfinished]

VARIABLES
    count, current_pid,
    state,          \* procs[p]->state, or "NULL" when procs[p] is NULL
    timeslice,      \* procs[p]->timeslice
    in_syscall,     \* procs[p]->in_syscall
    ctx,            \* procs[p]->ctx
    cpu,            \* the registers
    map,            \* whose page map CR3 holds
    mode,           \* what runs: "boot" before and "idle" after the timer is
                    \* started, "user", "syscall"; or how the CPU stopped: see
                    \* Ends
    at,             \* where each process is in its program
    lock            \* whether the print lock is taken

procVars == <<state, timeslice, in_syscall, ctx>>
vars == <<count, current_pid, state, timeslice, in_syscall, ctx, cpu, map, mode, at, lock>>

\* The CPU stops for good: the last process exited, an assertion of the tick or
\* of a system call failed, a lock is waited for with interrupts off, or a
\* panic went on from frames that others have overwritten.
Ends == {"halted", "assert", "stopped", "waits", "undefined"}

Fresh(p) == [who |-> p, pc |-> 0, panic |-> "no"]

Init ==
    /\ count = 0 /\ current_pid = 0
    /\ state = [p \in Pid |-> "NULL"]
    /\ timeslice = [p \in Pid |-> TimeSlice]
    /\ in_syscall = [p \in Pid |-> FALSE]
    /\ ctx = [p \in Pid |-> Fresh(p)]
    /\ cpu = Fresh(Boot)
    /\ map = Boot
    /\ mode = "boot"
    /\ at = [p \in Pid |-> 0]
    /\ lock = FALSE

-----------------------------------------------------------------------------
(* Boot: processes are spawned, then the timer is started.                 *)

scheduler_spawn ==
    /\ mode = "boot" /\ count < N
    /\ count' = count + 1
    /\ state' = [state EXCEPT ![count] = "READY"]
    /\ timeslice' = [timeslice EXCEPT ![count] = TimeSlice]
    /\ in_syscall' = [in_syscall EXCEPT ![count] = FALSE]
    /\ ctx' = [ctx EXCEPT ![count] = Fresh(count)]
    /\ UNCHANGED <<current_pid, cpu, map, mode, at, lock>>

\* The boot thread goes on to hlt() and is never returned to.
pit_init ==
    /\ mode = "boot" /\ count = N
    /\ mode' = "idle"
    /\ UNCHANGED <<count, current_pid, procVars, cpu, map, at, lock>>

\* The message at the end of pic_unmask: a tick may find the lock taken.
pic_unmask ==
    /\ mode = "idle"
    /\ lock' = ~lock
    /\ UNCHANGED <<count, current_pid, procVars, cpu, map, mode, at>>

-----------------------------------------------------------------------------
(* The timer interrupt.                                                    *)

InterruptsOn == mode \in {"idle", "user"}

\* The first half of scheduler_tick: the interrupted process, if it is the
\* one the scheduler believes to be running, is saved and charged.
Saves ==
    /\ state[current_pid] = "RUNNING"
    /\ ~in_syscall[current_pid]

Expired == Saves /\ timeslice[current_pid] = 1

NextPid == IF Expired THEN (current_pid + 1) % count ELSE current_pid

NotSaved == ctx
SavedCtx == IF Saves THEN [ctx EXCEPT ![current_pid] = cpu] ELSE ctx

StaysRunning == state
SavedState == IF Expired THEN [state EXCEPT ![current_pid] = "READY"] ELSE state

\* assert(ctx && next_proc) fails: hlt() with interrupts off.
AssertFails == mode' = "assert"

\* Another thread ran since this panic was preempted.
Overwritten(p) == p # cpu.who /\ SavedCtx[p].panic \in Unfinished

scheduler_tick ==
    /\ InterruptsOn
    /\ count # 0
    /\ current_pid' = NextPid
    /\ ctx' = SavedCtx
    /\ timeslice' = IF Saves
                    THEN [timeslice EXCEPT ![current_pid] = IF Expired THEN TimeSlice ELSE @ - 1]
                    ELSE timeslice
    /\ \/ \* there is none
          /\ SavedState[NextPid] = "NULL"
          /\ AssertFails
          /\ state' = SavedState
          /\ UNCHANGED <<cpu, map>>
       \/ \* the next process is loaded
          /\ SavedState[NextPid] = "READY"
          /\ state' = [SavedState EXCEPT ![NextPid] = "RUNNING"]
          /\ cpu' = SavedCtx[NextPid]
          /\ map' = NextPid
          /\ mode' = IF Overwritten(NextPid) THEN "undefined" ELSE "user"
       \/ \* the interrupted process has time left
          /\ SavedState[NextPid] = "RUNNING"
          /\ state' = SavedState
          /\ UNCHANGED <<cpu, map, mode>>
    /\ UNCHANGED <<count, in_syscall, at, lock>>

-----------------------------------------------------------------------------
(* What the thread on the CPU does.                                        *)

InProgram == mode = "user" /\ cpu.panic = "no"

MarkAs(b) == IF state[current_pid] = "NULL" THEN in_syscall
             ELSE [in_syscall EXCEPT ![current_pid] = b]

MarkCleared == MarkAs(FALSE)

Step ==
    /\ InProgram
    /\ cpu' = [cpu EXCEPT !.pc = (@ + 1) % PcRange]
    /\ at' = [at EXCEPT ![cpu.who] = (@ + 1) % PcRange]
    /\ UNCHANGED <<count, current_pid, procVars, map, mode, lock>>

\* int 0x80: syscall_handler marks whatever scheduler_get_current returns.
syscall_enter ==
    /\ InProgram
    /\ mode' = "syscall"
    /\ in_syscall' = MarkAs(TRUE)
    /\ UNCHANGED <<count, current_pid, state, timeslice, ctx, cpu, map, at, lock>>

\* The handler returns; the process goes on behind the int instruction.
syscall_return ==
    /\ mode = "syscall"
    /\ mode' = "user"
    /\ in_syscall' = MarkCleared
    /\ cpu' = [cpu EXCEPT !.pc = (@ + 1) % PcRange]
    /\ at' = [at EXCEPT ![cpu.who] = (@ + 1) % PcRange]
    /\ UNCHANGED <<count, current_pid, state, timeslice, ctx, map, lock>>

\* A system call does not return: it prints while the lock is taken, by a
\* thread that cannot run; or an assertion on its arguments fails, and hlt()
\* follows the message, with interrupts off.
syscall_stops ==
    /\ mode = "syscall"
    /\ \/ lock /\ mode' = "waits"
       \/ ~lock /\ mode' = "stopped"
    /\ UNCHANGED <<count, current_pid, procVars, cpu, map, at, lock>>

hcf == mode' = "user"

PanicAt(where) == cpu' = [cpu EXCEPT !.panic = where]

\* An exception.  In the program interrupts stay on.  In a system call they
\* are off and kpanic prints, clears in_syscall and gets to hcf(); unless the
\* call held the lock of stdout, which the first message then waits for.
kpanic ==
    /\ \/ InProgram /\ PanicAt("prints") /\ UNCHANGED <<mode, in_syscall>>
       \/ mode = "syscall" /\ ~lock /\ PanicAt("hcf") /\ hcf /\ in_syscall' = MarkCleared
       \/ mode = "syscall" /\ PanicAt("prints") /\ mode' = "waits" /\ UNCHANGED in_syscall
    /\ UNCHANGED <<count, current_pid, state, timeslice, ctx, map, at, lock>>

\* The messages of a panic of the program, under the lock, and its end.
panic_prints ==
    /\ mode = "user"
    /\ \/ cpu.panic = "prints" /\ ~lock /\ PanicAt("holds") /\ lock' = TRUE
          /\ UNCHANGED <<mode, in_syscall>>
       \/ cpu.panic = "holds" /\ PanicAt("prints") /\ lock' = FALSE
          /\ UNCHANGED <<mode, in_syscall>>
       \/ cpu.panic = "holds" /\ PanicAt("hcf") /\ lock' = FALSE
          /\ hcf /\ in_syscall' = MarkCleared
    /\ UNCHANGED <<count, current_pid, state, timeslice, ctx, map, at>>

CountAfterExit == count - 1

PidKept == current_pid
PidAfterExit ==
    IF CountAfterExit = 0 THEN 0 ELSE (current_pid + 1) % CountAfterExit

\* sys_exit: the current process's slot is cleared, a trace is printed, and
\* unless it was the last one the handler returns to the program.
scheduler_exit ==
    /\ mode = "syscall"
    /\ state[current_pid] # "NULL"
    /\ ExitAnyOrder \/ current_pid = count - 1
    /\ state' = [state EXCEPT ![current_pid] = "NULL"]
    /\ in_syscall' = [in_syscall EXCEPT ![current_pid] = FALSE]
    /\ count' = CountAfterExit
    /\ current_pid' = PidAfterExit
    /\ mode' = IF CountAfterExit = 0 THEN "halted" ELSE "user"
    /\ UNCHANGED <<timeslice, ctx, cpu, map, at, lock>>

Next ==
    \/ scheduler_spawn \/ pit_init \/ pic_unmask \/ scheduler_tick
    \/ Step \/ syscall_enter \/ syscall_return \/ syscall_stops
    \/ kpanic \/ panic_prints \/ scheduler_exit

Spec == Init /\ [][Next]_vars

\* A pending timer interrupt is taken as soon as interrupts are on, however
\* briefly; the boot thread and system calls run on to their end.
Fairness ==
    /\ WF_vars(scheduler_spawn \/ pit_init)
    /\ SF_vars(scheduler_tick)
    /\ WF_vars(syscall_return \/ syscall_stops \/ scheduler_exit \/ (mode = "syscall" /\ kpanic))

FairSpec == Spec /\ Fairness

-----------------------------------------------------------------------------
TypeOK ==
    /\ count \in 0 .. N
    /\ current_pid \in Pid
    /\ state \in [Pid -> {"NULL", "READY", "RUNNING"}]
    /\ timeslice \in [Pid -> 1 .. TimeSlice]
    /\ in_syscall \in [Pid -> BOOLEAN]
    /\ ctx \in [Pid -> Context]
    /\ cpu \in Context
    /\ map \in Thread
    /\ mode \in {"boot", "idle", "user", "syscall"} \cup Ends
    /\ at \in [Pid -> 0 .. PcRange - 1]
    /\ lock \in BOOLEAN

\* assert(ctx && next_proc) in scheduler_tick never fails: the process that
\* current_pid selects exists, after any number of exits.
NextProcExists == mode # "assert"

\* At most one process is RUNNING, and it is the one whose registers and
\* page map the CPU has loaded and whose pid system calls are charged to.
OneRunning ==
    \A p \in Pid :
        state[p] = "RUNNING" => p = current_pid /\ cpu.who = p /\ map = p

\* A process that is not running resumes exactly where it was interrupted,
\* with its own registers, whatever ran, trapped, crashed or exited meanwhile.
ContextIntact ==
    \A p \in Pid :
        state[p] = "READY" => ctx[p].who = p /\ ctx[p].pc = at[p]

\* The pids in use are exactly 0 .. count - 1: the modulus of the round robin
\* reaches every live process, and no system call of one fails its pid check.
PidsCompact == \A p \in Pid : state[p] # "NULL" <=> p < count

\* count is the number of live processes even when they exit in any order, so
\* the last exit is the one that halts the system.
CountLive == count = Cardinality({p \in Pid : state[p] # "NULL"})

\* A system call of a live process is handled as its own: open files, ids and
\* exit act on the process that trapped, not on another one.
OwnSyscalls ==
    mode = "syscall" /\ state[cpu.who] # "NULL" => cpu.who = current_pid

\* Only the process whose system call is being handled, or never got to its
\* end, is marked in_syscall, so no process is left exempt from preemption.
SyscallMark ==
    \A p \in Pid : in_syscall[p] => mode \in {"syscall", "stopped", "waits"} /\ p = current_pid

=============================================================================
