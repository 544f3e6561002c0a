-------------------------------- MODULE Boot --------------------------------
(***************************************************************************)
(* The boot thread, from pic_init in kmain (main.c) to the hlt() at the    *)
(* end of post_main (post.c), with the interrupts that land on it, and     *)
(* the first process: system calls that print, panics, and the one         *)
(* keyboard.  It composes Input and Console.                               *)
(*                                                                         *)
(* There is one CPU.  The boot thread runs with interrupts on; kbd_handler *)
(* and system calls run with interrupts off; a panic leaves them as they   *)
(* were where the exception came from, until hcf() turns them on.  The     *)
(* first tick loads the process and never returns to the boot thread.      *)
(* post.c spawns one process, so that a later tick finds the same one      *)
(* again: what several do to each other is in Scheduler.                   *)
(*                                                                         *)
(* The build is the one of config.h, with traces: a thread may print one   *)
(* message at each position, and every system call does.                   *)
(***************************************************************************)
EXTENDS Input, Console

VARIABLES
    pc,         \* what the boot thread does next
    said,       \* whether it has printed there
    upto,       \* the index that fwrite was called with
    cpu,        \* the thread on the CPU
    proc        \* what the process does: "none" before it is spawned

bootVars == <<pc, said, upto>>
vars == <<inputVars, consoleVars, bootVars, cpu, proc>>

Init ==
    /\ InputInit /\ ConsoleInit
    /\ pc = "pic_init" /\ said = FALSE /\ upto = 0
    /\ cpu = "boot" /\ proc = "none"

\* Where system calls and panics are with interrupts off
InCall == {"call", "write", "return", "assert", "exit", "panic in call"}
InterruptsOn ==
    /\ handler = "none"
    /\ IF cpu = "boot" THEN pc # "pic_init"
       ELSE proc \in {"user", "panic", "halted"}

Runs(t) == cpu = t /\ handler = "none"

-----------------------------------------------------------------------------
(* The boot thread.                                                        *)

BootAt(from) == Runs("boot") /\ Silent("boot") /\ pc = from
GoesTo(to) == pc' = to /\ said' = FALSE

Say ==
    /\ Runs("boot") /\ Silent("boot") /\ ~said
    /\ pc \notin {"hlt", "halted"}
    /\ said' = TRUE
    /\ \E what \in IF pc = "success" THEN {Kprintf} ELSE {Kprintf, Warning} : Prints("boot", what)
    /\ UNCHANGED <<inputVars, lock, inside, stdout, ringVars, log, pc, upto, cpu, proc>>

\* kmain up to the end of the boot log
Early(from, to) ==
    /\ BootAt(from) /\ GoesTo(to)
    /\ UNCHANGED <<consoleVars, upto, cpu, proc>>

PicInit == pic_init /\ Early("pic_init", "vfs")
VfsInit == Early("vfs", "proc") /\ UNCHANGED inputVars

\* fwrite(log, &printk_buff_start, printk_index): the arguments are read, the
\* file is enlarged, which prints a trace, and then the bytes are copied, or
\* none of them when there is no memory.
LogCall ==
    /\ BootAt("proc") /\ GoesTo("copy")
    /\ upto' = printk_index
    /\ log' = [log EXCEPT !.sent = sent]
    /\ UNCHANGED <<inputVars, printVars, stdout, ringVars, cpu, proc>>

LogCopy ==
    /\ BootAt("copy") /\ GoesTo("end")
    /\ \/ log' = [log EXCEPT !.bytes = [i \in 1 .. upto |-> ring[i - 1]], !.copied = TRUE]
       \/ UNCHANGED log
    /\ UNCHANGED <<inputVars, printVars, stdout, ringVars, upto, cpu, proc>>

\* vfs_write(log, "\0", 1, log->size): without memory the file stays as it is.
LogEnd ==
    /\ BootAt("end") /\ GoesTo("reset")
    /\ \/ log' = [log EXCEPT !.bytes = Append(@, 0), !.ended = TRUE]
       \/ UNCHANGED log
    /\ UNCHANGED <<inputVars, printVars, stdout, ringVars, upto, cpu, proc>>

\* memset and the index back to 0
LogReset ==
    /\ BootAt("reset") /\ GoesTo("stdout")
    /\ ring' = [i \in DOMAIN ring |-> IF i < printk_index THEN 0 ELSE ring[i]]
    /\ printk_index' = 0
    /\ UNCHANGED <<inputVars, printVars, stdout, sent, log, upto, cpu, proc>>

\* devfs_init, the serial port and stdout_init.  From here on nothing reads or
\* writes the ring, and the model forgets it.
stdout_init ==
    /\ BootAt("stdout") /\ GoesTo("ps2_disable")
    /\ stdout' = TRUE
    /\ ring' = EmptyRing /\ printk_index' = 0 /\ sent' = 0 /\ log' = NoLog /\ upto' = 0
    /\ UNCHANGED <<inputVars, printVars, cpu, proc>>

\* ps2_init and kbd_init
Device(from, to) ==
    /\ BootAt(from) /\ GoesTo(to)
    /\ UNCHANGED <<consoleVars, upto, cpu, proc>>

ps2_init ==
    \/ DisablePorts /\ Device("ps2_disable", "ps2_flush")
    \/ ~Flushed /\ Poll /\ Device("ps2_flush", "ps2_flush")
    \/ Flushed /\ UNCHANGED inputVars /\ Device("ps2_flush", "ps2_test")
    \/ TestController /\ Device("ps2_test", "ps2_result")
    \/ obf = "failed" /\ Poll /\ Device("ps2_result", "kbd_enable")
    \/ obf # "failed" /\ Poll /\ Device("ps2_result", "ps2_config")
    \/ ReadConfig /\ Device("ps2_config", "ps2_read")
    \/ Poll /\ Device("ps2_read", "ps2_write")
    \/ WriteConfig /\ Device("ps2_write", "kbd_enable")

kbd_init ==
    \/ EnablePort /\ Device("kbd_enable", "kbd_reset")
    \/ SendReset /\ Device("kbd_reset", "kbd_poll")
    \/ Poll /\ Device("kbd_poll", "kbd_scan")
    \/ SendEnableScanning /\ Device("kbd_scan", "kbd_hook")
    \/ idt_register_handler(1) /\ Device("kbd_hook", "kbd_unmask")
    \/ pic_unmask(1) /\ Device("kbd_unmask", "load")

\* post_main: without its files, or without memory, the boot thread halts.
Load ==
    /\ BootAt("load")
    /\ \/ GoesTo("halted") /\ UNCHANGED proc
       \/ GoesTo("pit_hook") /\ proc' = "ready"
    /\ UNCHANGED <<inputVars, consoleVars, upto, cpu>>

pit_init ==
    \/ idt_register_handler(0) /\ Device("pit_hook", "pit_unmask")
    \/ pic_unmask(0) /\ Device("pit_unmask", "success")
    \/ UNCHANGED inputVars /\ Device("success", "hlt")

kmain ==
    \/ PicInit \/ VfsInit \/ LogCall \/ LogCopy \/ LogEnd \/ LogReset \/ stdout_init
    \/ ps2_init \/ kbd_init \/ Load \/ pit_init

-----------------------------------------------------------------------------
(* Interrupts.                                                             *)

Keyboard ==
    /\ \/ InterruptsOn /\ kbd_handler_enter
       \/ kbd_handler_read
       \/ kbd_handler_eoi
    /\ UNCHANGED <<consoleVars, bootVars, cpu, proc>>

\* pit_handler: scheduler_tick loads the process, or finds it running.
pit_handler ==
    /\ InterruptsOn /\ Delivers(0)
    /\ irr' = irr \ {0}
    /\ cpu' = "proc"
    /\ proc' = IF proc = "ready" THEN "user" ELSE proc
    /\ UNCHANGED <<isr, g_curmask, hooked, withdraws, ps2Vars, kbdVars, consoleVars, bootVars>>

Arrives == Transfer /\ UNCHANGED <<consoleVars, bootVars, cpu, proc>>
External == Arrives \/ ((Press \/ Pulse) /\ UNCHANGED <<consoleVars, bootVars, cpu, proc>>)

-----------------------------------------------------------------------------
(* The process.                                                            *)

ProcAt(from) == Runs("proc") /\ Silent("proc") /\ proc = from

\* A system call prints a trace, and then reads the keyboard, writes to
\* stdout, warns that it cannot do what it was asked, fails an assertion on its
\* arguments, or exits.
syscall_handler ==
    /\ ProcAt("user")
    /\ proc' = "call" /\ Prints("proc", Kprintf)
    /\ UNCHANGED <<inputVars, lock, inside, stdout, ringVars, log, bootVars, cpu>>

ReadKeyboard ==
    /\ ProcAt("call") /\ kbd_read
    /\ proc' = "return"
    /\ UNCHANGED <<consoleVars, bootVars, cpu>>

CallPrints(to, what) ==
    /\ ProcAt("call")
    /\ proc' = to /\ Prints("proc", what)
    /\ UNCHANGED <<inputVars, lock, inside, stdout, ringVars, log, bootVars, cpu>>

\* exit: the last process is gone and final() has printed.  There, and where an
\* assertion failed, the CPU halts with interrupts off.
Returns ==
    /\ \/ ProcAt("write") /\ proc' = "user"
       \/ ProcAt("return") /\ proc' = "user"
       \/ ProcAt("assert") /\ proc' = "stopped"
       \/ ProcAt("exit") /\ proc' = "exited"
    /\ UNCHANGED <<inputVars, consoleVars, bootVars, cpu>>

\* An exception in the program, or in a system call that touches the program's
\* memory, be it under the lock of stdout
kpanic ==
    /\ Runs("proc")
    /\ \/ proc = "user" /\ proc' = "panic"
       \/ proc \in {"call", "return"} /\ Silent("proc") /\ proc' = "panic in call"
       \/ proc = "write" /\ inside["proc"] /\ proc' = "panic in call"
    /\ todo' = [todo EXCEPT !["proc"] = Panic]
    /\ inside' = [inside EXCEPT !["proc"] = FALSE]
    /\ UNCHANGED <<inputVars, lock, stdout, ringVars, log, bootVars, cpu>>

hcf ==
    /\ ProcAt("panic") \/ ProcAt("panic in call")
    /\ proc' = "halted"
    /\ UNCHANGED <<inputVars, consoleVars, bootVars, cpu>>

Process ==
    \/ syscall_handler \/ ReadKeyboard \/ Returns \/ kpanic \/ hcf
    \/ CallPrints("write", <<"out">>) \/ CallPrints("return", Warning)
    \/ CallPrints("assert", Warning) \/ CallPrints("exit", Warning)

Printing ==
    /\ \E t \in Thread : Runs(t) /\ (Acquire(t) \/ PutAndRelease(t))
    /\ UNCHANGED <<inputVars, bootVars, cpu, proc>>

-----------------------------------------------------------------------------
Next == Say \/ kmain \/ Keyboard \/ pit_handler \/ External \/ Process \/ Printing

Spec == Init /\ [][Next]_vars

\* The process goes on in a system call: no interrupt can keep it from it.
CallSteps == ReadKeyboard \/ Returns \/ (proc = "panic in call" /\ hcf)

Fairness ==
    /\ SF_vars(kmain) /\ SF_vars(Printing) /\ WF_vars(CallSteps)
    /\ SF_vars(Keyboard) /\ WF_vars(Arrives)

FairSpec == Spec /\ Fairness

-----------------------------------------------------------------------------
\* Once the keyboard's line is open, a byte that waits in the controller has
\* its request pending, or the handler that will read it is running: no byte is
\* left behind that would keep all later ones out.
NoLostByte ==
    1 \notin g_curmask /\ int /\ obf # None =>
        handler = "read" \/ (1 \in irr /\ (isr # {} => handler # "none"))

\* On a machine that withdraws the request of a byte taken by polling, the
\* handler, which waits with interrupts off, always finds its byte there.
HandlerNeverWaits == withdraws /\ handler = "read" => obf # None

\* The handler of a line is set before the line can interrupt.
IrqHandled == InterruptsOn => \A q \in Irq : Delivers(q) => q \in hooked

\* A print lock that is taken is held by the thread on the CPU, except for one
\* window: the first tick abandons the boot thread in the last message of
\* pic_unmask, and then put_lock stays taken.
HeldByRunner ==
    \A l \in Lock :
        lock[l] # Free => lock[l] = cpu \/ (l = "put" /\ lock[l] = "boot" /\ pc = "success")

\* The boot log is what was printed since the ring last wrapped, byte for byte,
\* and a terminator, each if its write had memory; unless the traces of the
\* write wrapped the ring before it was copied.
Since(n) == n % PrintkBuffSize
BootLog ==
    pc \in {"reset", "stdout"} =>
        LET kept == Since(log.sent)
            body == IF log.copied THEN [i \in 1 .. kept |-> log.sent - kept + i] ELSE <<>> IN
        \/ log.copied /\ log.sent + PrintkBuffSize - kept < sent
        \/ log.bytes = body \o IF log.ended THEN <<0>> ELSE <<>>

\* The panic of a system call waits for the lock of stdout, which that call
\* holds: it took it for a write and faulted under it.
WaitsForItself == proc = "panic in call" /\ lock["out"] = "proc" /\ ~inside["proc"]

\* A system call ends: it returns, exits, gets to the hlt() of an assertion or
\* to the hcf() of a panic.  Two things keep it from that, with interrupts off
\* for good: the first tick took put_lock away with the boot thread, or the
\* call panicked under the lock of stdout.
CallsEnd ==
    (proc \in InCall /\ lock["put"] # "boot") ~> (proc \notin InCall \/ WaitsForItself)

\* On a machine that withdraws requests the boot thread gets to its end, or is
\* replaced by the process, whether or not a key is ever pressed.
BootEnds == withdraws => <>(pc \in {"hlt", "halted"} \/ cpu = "proc")
=============================================================================
