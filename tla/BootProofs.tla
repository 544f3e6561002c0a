----------------------------- MODULE BootProofs -----------------------------
(***************************************************************************)
(* What the boot thread, the interrupts and the first process keep true,   *)
(* for every length of the ring, of a message and of the keyboard's queue. *)
(*                                                                         *)
(* The invariant has four parts.  Lines says which lines are masked and    *)
(* hooked where the boot thread is, and that only the last message may be  *)
(* cut off by a tick.  Bytes ties the controller's byte to its request,    *)
(* which holds from the flush on.  Locks says that a lock the boot thread  *)
(* holds is the one of the message it is printing.  RingInv says where in  *)
(* the ring each of the last bytes is, and what of them is in the log; it  *)
(* stands on its own.                                                      *)
(***************************************************************************)
EXTENDS Boot, TLAPS

\* Positions up to the flush, from there to the opening of the keyboard's line,
\* and after it
BeforeFlush ==
    {"pic_init", "vfs", "proc", "copy", "end", "reset", "stdout", "ps2_disable", "ps2_flush"}
BeforeOpen ==
    {"ps2_test", "ps2_result", "ps2_config", "ps2_read", "ps2_write", "kbd_enable",
     "kbd_reset", "kbd_poll", "kbd_scan", "kbd_hook", "kbd_unmask"}
Opened == {"load", "pit_hook", "pit_unmask", "success", "hlt", "halted"}

Lines ==
    /\ pc \in BeforeFlush \cup BeforeOpen \cup Opened
    /\ handler \in {"none", "read", "eoi"} /\ cpu \in Thread
    /\ pc \notin Opened => 1 \in g_curmask /\ handler = "none"
    /\ pc \notin {"success", "hlt"} => 0 \in g_curmask /\ cpu = "boot"
    /\ isr = IF handler = "none" THEN {} ELSE {1}
    /\ pc = "kbd_unmask" => 1 \in hooked
    /\ pc = "pit_unmask" => 0 \in hooked
    /\ \A q \in Irq : q \notin g_curmask => q \in hooked

Bytes ==
    /\ queue \in Seq({Key, KBD_ACK, "BAT"})
    /\ pc \notin BeforeFlush /\ int /\ obf # None => 1 \in irr \/ handler = "read"
    /\ pc # "pic_init" /\ withdraws /\ 1 \in irr => obf # None
    /\ withdraws /\ handler = "read" => obf # None

Locks ==
    /\ lock \in [Lock -> Thread \cup {Free}]
    /\ todo \in [Thread -> Seq(Lock)] /\ inside \in [Thread -> BOOLEAN]
    /\ \A l \in Lock :
          /\ lock[l] = "boot" => ~Silent("boot") /\ inside["boot"] /\ Head(todo["boot"]) = l
          /\ lock[l] = "proc" => cpu = "proc"
    /\ pc = "success" => todo["boot"] \in {<<>>, Kprintf}
    /\ pc = "hlt" => Silent("boot")

\* A line is opened only after its handler is set, and only the timer's line
\* lets the process in.
LEMMA LinesKept == ASSUME Lines, [Next]_vars PROVE Lines'
<1> USE DEF Lines, BeforeFlush, BeforeOpen, Opened
<1>1. CASE UNCHANGED vars
  BY <1>1 DEF vars, inputVars, picVars, kbdVars, bootVars
<1>2. CASE Say
  BY <1>2 DEF Say, Runs, inputVars, picVars, kbdVars
<1>3. CASE PicInit \/ VfsInit
  BY <1>3 DEF PicInit, VfsInit, pic_init, Early, BootAt, GoesTo, Runs, inputVars, picVars,
              kbdVars, Irq
<1>4. CASE LogCall \/ LogCopy \/ LogEnd \/ LogReset \/ stdout_init
  BY <1>4 DEF LogCall, LogCopy, LogEnd, LogReset, stdout_init, BootAt, GoesTo, Runs, inputVars,
              picVars, kbdVars
<1>5. CASE ps2_init
  BY <1>5 DEF ps2_init, DisablePorts, Poll, TakeByte, TestController, ReadConfig, WriteConfig,
              Device, BootAt, GoesTo, Runs, inputVars, picVars, kbdVars
<1>6. CASE kbd_init
  BY <1>6 DEF kbd_init, EnablePort, SendReset, Poll, TakeByte, SendEnableScanning,
              idt_register_handler, pic_unmask, Device, BootAt, GoesTo, Runs, picVars, kbdVars,
              Irq
<1>7. CASE Load
  BY <1>7 DEF Load, BootAt, GoesTo, Runs, inputVars, picVars, kbdVars
<1>8. CASE pit_init
  BY <1>8 DEF pit_init, idt_register_handler, pic_unmask, Device, BootAt, GoesTo, Runs,
              inputVars, picVars, kbdVars, Irq
<1>9. CASE Keyboard
  BY <1>9 DEF Keyboard, kbd_handler_enter, kbd_handler_read, kbd_handler_eoi, Ended, ReadsOnce,
              Delivers, bootVars
<1>10. CASE pit_handler
  BY <1>10 DEF pit_handler, Delivers, bootVars, kbdVars, Thread
<1>11. CASE External
  BY <1>11 DEF External, Arrives, Transfer, Press, Pulse, bootVars, picVars, kbdVars
<1>12. CASE Process
  BY <1>12 DEF Process, syscall_handler, ReadKeyboard, kbd_read, Returns, kpanic, hcf, CallPrints,
               bootVars, inputVars, picVars, kbdVars
<1>13. CASE Printing
  BY <1>13 DEF Printing, bootVars, inputVars, picVars, kbdVars
<1>14. QED
  BY <1>1, <1>2, <1>3, <1>4, <1>5, <1>6, <1>7, <1>8, <1>9, <1>10, <1>11, <1>12, <1>13
  DEF Next, kmain

\* From the flush on, a byte and its request come together, and are taken
\* together where the machine withdraws requests.
LEMMA BytesKept == ASSUME Lines, Bytes, [Next]_vars PROVE Bytes'
<1> USE DEF Lines, Bytes, BeforeFlush, BeforeOpen, Opened
<1>1. CASE UNCHANGED vars
  BY <1>1 DEF vars, inputVars, picVars, ps2Vars, kbdVars, bootVars
<1>2. CASE Say
  BY <1>2 DEF Say, inputVars, picVars, ps2Vars, kbdVars
<1>3. CASE PicInit \/ VfsInit
  BY <1>3 DEF PicInit, VfsInit, pic_init, Early, BootAt, GoesTo, Runs, inputVars, picVars,
              ps2Vars, kbdVars
<1>4. CASE LogCall \/ LogCopy \/ LogEnd \/ LogReset \/ stdout_init
  BY <1>4 DEF LogCall, LogCopy, LogEnd, LogReset, stdout_init, BootAt, GoesTo, Runs, inputVars,
              picVars, ps2Vars, kbdVars
<1>5. CASE ps2_init
  BY <1>5 DEF ps2_init, DisablePorts, Flushed, Poll, TakeByte, Lowered,
              TestController, ReadConfig, Reply, Raised, WriteConfig, Device, BootAt, GoesTo,
              Runs, None, inputVars, picVars, ps2Vars, kbdVars
<1>6. CASE kbd_init
  <2>1. CASE SendReset /\ Device("kbd_reset", "kbd_poll")
    <3>1. <<KBD_ACK, "BAT">> \in Seq({Key, KBD_ACK, "BAT"})
      OBVIOUS
    <3>2. QED
      BY <2>1, <3>1 DEF SendReset, Device, BootAt, GoesTo, picVars, kbdVars
  <2>2. CASE SendEnableScanning /\ Device("kbd_scan", "kbd_hook")
    <3>1. Append(queue, KBD_ACK) \in Seq({Key, KBD_ACK, "BAT"})
      OBVIOUS
    <3>2. QED
      BY <2>2, <3>1 DEF SendEnableScanning, Device, BootAt, GoesTo, picVars, kbdVars
  <2>3. CASE \/ EnablePort /\ Device("kbd_enable", "kbd_reset")
             \/ Poll /\ Device("kbd_poll", "kbd_scan")
             \/ idt_register_handler(1) /\ Device("kbd_hook", "kbd_unmask")
             \/ pic_unmask(1) /\ Device("kbd_unmask", "load")
    BY <2>3 DEF EnablePort, Poll, TakeByte, Lowered, idt_register_handler, pic_unmask, Device,
                BootAt, GoesTo, Runs, picVars, ps2Vars, kbdVars
  <2>4. QED
    BY <1>6, <2>1, <2>2, <2>3 DEF kbd_init
<1>7. CASE Load
  BY <1>7 DEF Load, BootAt, GoesTo, Runs, inputVars, picVars, ps2Vars, kbdVars
<1>8. CASE pit_init
  BY <1>8 DEF pit_init, idt_register_handler, pic_unmask, Device, BootAt, GoesTo, Runs,
              inputVars, picVars, ps2Vars, kbdVars
<1>9. CASE Keyboard
  BY <1>9 DEF Keyboard, kbd_handler_enter, kbd_handler_read, kbd_handler_eoi, Ended, ReadsOnce,
              TakeByte, Lowered, Delivers, bootVars, ps2Vars
<1>10. CASE pit_handler
  BY <1>10 DEF pit_handler, bootVars, ps2Vars, kbdVars
<1>11. CASE External
  <2>1. CASE Arrives
    <3>1. Head(queue) # None /\ Tail(queue) \in Seq({Key, KBD_ACK, "BAT"})
      BY <2>1 DEF Arrives, Transfer, None, Key, KBD_ACK
    <3>2. QED
      BY <2>1, <3>1 DEF Arrives, Transfer, Raised, bootVars, kbdVars
  <2>2. CASE (Press \/ Pulse) /\ UNCHANGED <<consoleVars, bootVars, cpu, proc>>
    BY <2>2 DEF Press, Pulse, bootVars, picVars, ps2Vars, kbdVars, Key
  <2>3. QED
    BY <1>11, <2>1, <2>2 DEF External
<1>12. CASE Process
  <2>1. UNCHANGED <<irr, withdraws, obf, queue, int, handler, pc>>
    BY <1>12 DEF Process, syscall_handler, ReadKeyboard, kbd_read, Returns, kpanic, hcf, CallPrints,
                 bootVars, inputVars, picVars, ps2Vars, kbdVars
  <2>2. QED
    BY <2>1
<1>13. CASE Printing
  BY <1>13 DEF Printing, bootVars, inputVars, picVars, ps2Vars, kbdVars
<1>14. QED
  BY <1>1, <1>2, <1>3, <1>4, <1>5, <1>6, <1>7, <1>8, <1>9, <1>10, <1>11, <1>12, <1>13
  DEF Next, kmain

\* A thread that prints takes and gives back one lock after the other.
LEMMA PrintingKeepsLocks == ASSUME Lines, Locks, Printing PROVE Locks'
<1> USE DEF Locks
<1>1. PICK t \in Thread : Runs(t) /\ (Acquire(t) \/ PutAndRelease(t))
  BY DEF Printing
<1>2. cpu' = cpu /\ pc' = pc /\ cpu = t
  BY <1>1 DEF Printing, bootVars, Runs
<1>3. todo[t] \in Seq(Lock) /\ todo[t] # <<>> /\ Head(todo[t]) \in Lock
  BY <1>1 DEF Acquire, PutAndRelease, Silent
<1>4. CASE Acquire(t)
  <2>1. todo' = todo
    BY <1>4 DEF Acquire
  <2>2. /\ lock' = [lock EXCEPT ![Head(todo[t])] = t]
        /\ inside' = [inside EXCEPT ![t] = TRUE] /\ ~inside[t]
    BY <1>4 DEF Acquire
  <2>3. QED
    BY <1>2, <1>3, <2>1, <2>2 DEF Thread, Silent, Free
<1>5. CASE PutAndRelease(t)
  <2>1. /\ lock' = [lock EXCEPT ![Head(todo[t])] = Free]
        /\ inside' = [inside EXCEPT ![t] = FALSE]
        /\ todo' = [todo EXCEPT ![t] = Tail(todo[t])]
    BY <1>5 DEF PutAndRelease, Released
  <2>2. Tail(todo[t]) \in Seq(Lock)
    BY <1>3
  <2>3. todo["boot"] = Kprintf => Tail(todo["boot"]) = <<>>
    BY DEF Kprintf
  <2>4. lock' \in [Lock -> Thread \cup {Free}] /\ inside' \in [Thread -> BOOLEAN]
        /\ todo' \in [Thread -> Seq(Lock)]
    BY <2>1, <2>2
  <2>5. ASSUME NEW l \in Lock
        PROVE  /\ lock'[l] = "boot" => /\ todo'["boot"] # <<>> /\ inside'["boot"]
                                       /\ Head(todo'["boot"]) = l
               /\ lock'[l] = "proc" => cpu = "proc"
    <3>1. lock'[l] = IF l = Head(todo[t]) THEN Free ELSE lock[l]
      BY <2>1, <1>3
    <3>2. CASE t = "boot"
      BY <3>1, <3>2, <1>3 DEF Free, Thread
    <3>3. CASE t = "proc"
      BY <3>1, <3>3, <2>1 DEF Free, Thread, Silent
    <3>4. QED
      BY <3>2, <3>3 DEF Thread
  <2>6. pc = "success" => todo'["boot"] \in {<<>>, Kprintf}
    BY <2>1, <2>3, <1>3 DEF Thread
  <2>7. pc = "hlt" => todo'["boot"] = <<>>
    BY <2>1, <1>3 DEF Thread, Silent
  <2>8. QED
    BY <1>2, <2>4, <2>5, <2>6, <2>7 DEF Silent
<1>6. QED
  BY <1>1, <1>4, <1>5

\* Whatever is to be printed is a list of locks.
LEMMA Messages ==
    /\ Kprintf \in Seq(Lock) /\ Warning \in Seq(Lock) /\ Panic \in Seq(Lock)
    /\ <<"out">> \in Seq(Lock)
<1>1. "put" \in Lock /\ "out" \in Lock
  BY DEF Lock
<1>2. <<"put">> \in Seq(Lock) /\ <<"out">> \in Seq(Lock)
  BY <1>1
<1>3. <<"put", "out">> \in Seq(Lock) /\ <<"out", "put">> \in Seq(Lock)
  BY <1>1
<1>4. QED
  BY <1>2, <1>3, Zenon DEF Kprintf, Warning, Panic

\* The process never touches what the boot thread prints, and has the CPU.
LEMMA ProcessKeepsLocks == ASSUME Lines, Locks, Process PROVE Locks'
<1> USE DEF Locks
<1>1. lock' = lock /\ pc' = pc /\ cpu' = cpu
  BY DEF Process, syscall_handler, ReadKeyboard, Returns, kpanic, hcf, CallPrints, bootVars,
         consoleVars, printVars
<1>2. \/ todo' = todo
      \/ \E what \in Seq(Lock) : todo' = [todo EXCEPT !["proc"] = what]
  BY Messages DEF Process, syscall_handler, ReadKeyboard, Returns, kpanic, hcf, CallPrints,
                  Prints, consoleVars, printVars
<1>3. todo' \in [Thread -> Seq(Lock)] /\ todo'["boot"] = todo["boot"]
  BY <1>2 DEF Thread
<1>4. inside' = inside \/ inside' = [inside EXCEPT !["proc"] = FALSE]
  BY DEF Process, syscall_handler, ReadKeyboard, Returns, kpanic, hcf, CallPrints,
         consoleVars, printVars
<1>5. inside' \in [Thread -> BOOLEAN] /\ inside'["boot"] = inside["boot"]
  BY ZenonT(40), <1>4 DEF Thread
<1>6. QED
  BY <1>1, <1>3, <1>5 DEF Silent

\* The boot thread moves on only between two messages; the tick that takes the
\* CPU from it comes at its last message or after it.
LEMMA LocksKept == ASSUME Lines, Locks, [Next]_vars PROVE Locks'
<1> USE DEF Locks
<1>1. CASE UNCHANGED vars
  BY <1>1 DEF vars, consoleVars, printVars, bootVars, Silent
<1>2. CASE Say
  <2>1. todo["boot"] = <<>> /\ \A l \in Lock : lock[l] # "boot"
    BY <1>2 DEF Say, Silent
  <2>2. PICK what \in Seq(Lock) :
            todo' = [todo EXCEPT !["boot"] = what] /\ (pc = "success" => what = Kprintf)
    BY ZenonT(40), <1>2, Messages DEF Say, Prints
  <2>3. lock' = lock /\ inside' = inside /\ pc' = pc /\ cpu' = cpu /\ pc # "hlt"
    BY <1>2 DEF Say
  <2>4. todo' \in [Thread -> Seq(Lock)] /\ todo'["boot"] = what
    BY <2>2 DEF Thread
  <2>5. QED
    BY <2>1, <2>2, <2>3, <2>4 DEF Silent
<1>3. CASE kmain
  <2>1. Silent("boot") /\ cpu' = cpu /\ UNCHANGED printVars
    BY <1>3 DEF kmain, PicInit, VfsInit, Early, LogCall, LogCopy, LogEnd, LogReset, stdout_init,
                ps2_init, kbd_init, Load, pit_init, Device, BootAt, consoleVars
  <2>2. QED
    BY <2>1 DEF printVars, Silent
<1>4. CASE Keyboard \/ External
  BY <1>4 DEF Keyboard, External, Arrives, consoleVars, printVars, bootVars, Silent
<1>5. CASE pit_handler
  BY <1>5 DEF pit_handler, consoleVars, printVars, bootVars, Silent
<1>6. QED
  BY <1>1, <1>2, <1>3, <1>4, <1>5, PrintingKeepsLocks, ProcessKeepsLocks DEF Next

-----------------------------------------------------------------------------
IInv == Lines /\ Bytes /\ Locks

\* The invariant holds before pic_init and is kept by every step.
LEMMA InitHolds == ASSUME Init PROVE IInv
<1>1. Lines
  BY DEF Init, InputInit, Lines, BeforeFlush, BeforeOpen, Opened, Thread, Irq
<1>2. Bytes
  BY DEF Init, InputInit, Bytes, BeforeFlush, None
<1>3. Locks
  <2>1. <<>> \in Seq(Lock)
    OBVIOUS
  <2>2. QED
    BY <2>1 DEF Init, ConsoleInit, Locks, Thread, Free, Silent
<1>4. QED
  BY <1>1, <1>2, <1>3 DEF IInv

LEMMA StepKeeps == ASSUME IInv, [Next]_vars PROVE IInv'
BY LinesKept, BytesKept, LocksKept DEF IInv

\* For every ring, message and queue: once its line is open, a byte that waits
\* in the controller will be read.
THEOREM BytesAreRead == Spec => []NoLostByte
<1>1. IInv => NoLostByte
  BY DEF IInv, Lines, Bytes, NoLostByte, BeforeFlush, BeforeOpen, Opened
<1>2. QED
  BY <1>1, InitHolds, StepKeeps, PTL DEF Spec

\* On a machine that withdraws the request of a polled byte, kbd_handler never
\* waits with interrupts off.
THEOREM HandlerFindsItsByte == Spec => []HandlerNeverWaits
<1>1. IInv => HandlerNeverWaits
  BY DEF IInv, Bytes, HandlerNeverWaits
<1>2. QED
  BY <1>1, InitHolds, StepKeeps, PTL DEF Spec

\* A line that can interrupt has its handler: no interrupt finds an empty entry
\* of real_handlers.
THEOREM LinesAreHooked == Spec => []IrqHandled
<1>1. IInv => IrqHandled
  BY DEF IInv, Lines, IrqHandled, Delivers
<1>2. QED
  BY <1>1, InitHolds, StepKeeps, PTL DEF Spec

\* A print lock is held by the thread on the CPU, or it is put_lock and the
\* first tick came in the last message of pic_unmask.
THEOREM LocksHeldByRunner == Spec => []HeldByRunner
<1>1. IInv => HeldByRunner
  <2> SUFFICES ASSUME IInv, NEW l \in Lock, lock[l] # Free
               PROVE  lock[l] = cpu \/ (l = "put" /\ lock[l] = "boot" /\ pc = "success")
    BY DEF HeldByRunner
  <2>1. lock[l] \in Thread
    BY DEF IInv, Locks
  <2>2. CASE lock[l] = "proc"
    BY <2>2 DEF IInv, Locks
  <2>3. CASE lock[l] = "boot" /\ cpu # "boot"
    <3>1. ~Silent("boot") /\ Head(todo["boot"]) = l /\ pc \in {"success", "hlt"}
      BY <2>3 DEF IInv, Locks, Lines
    <3>2. pc = "success" /\ todo["boot"] = <<"put">>
      BY <3>1 DEF IInv, Locks, Silent, Kprintf
    <3>3. QED
      BY <2>3, <3>1, <3>2
  <2>4. QED
    BY <2>1, <2>2, <2>3 DEF Thread
<1>2. QED
  BY <1>1, InitHolds, StepKeeps, PTL DEF Spec

-----------------------------------------------------------------------------
(* The ring and the boot log.                                              *)

\* Division with a remainder
LEMMA DivMod ==
    ASSUME NEW m \in Nat \ {0}, NEW a \in Nat
    PROVE  /\ a \div m \in Nat /\ a % m \in 0 .. m - 1
           /\ a = (a \div m) * m + (a % m)
OBVIOUS

\* A multiple, and a remainder
LEMMA Remainders ==
    ASSUME NEW m \in Nat \ {0}, NEW q \in Nat, NEW r \in 0 .. m - 1
    PROVE  (q * m + r) % m = r
OBVIOUS

\* Two numbers with the same remainder are a whole turn of the ring apart.
LEMMA TurnApart ==
    ASSUME NEW m \in Nat \ {0}, NEW a \in Nat, NEW b \in Nat, a % m = b % m, a < b
    PROVE  a + m <= b
<1> DEFINE q == a \div m
           s == b \div m
           r == a % m
<1>1. q \in Nat /\ a = q * m + r /\ r \in 0 .. m - 1
  BY ZenonT(40), DivMod
<1>2. s \in Nat /\ b = s * m + (b % m)
  BY ZenonT(40), DivMod
<1> HIDE DEF q, s
<1>3. b = s * m + r /\ r \in Nat
  BY <1>1, <1>2
<1> HIDE DEF r
<1>4. q < s
  <2>1. CASE s <= q
    <3>1. s * m <= q * m /\ s * m \in Nat /\ q * m \in Nat
      BY <1>1, <1>2, <1>3, <2>1
    <3> QED BY <3>1, <1>1, <1>2, <1>3
  <2> QED BY <2>1, <1>1, <1>2, <1>3
<1>5. s * m = q * m + (s - q) * m /\ s - q \in Nat \ {0}
  BY <1>1, <1>2, <1>3, <1>4
<1>6. (s - q) * m >= m /\ (s - q) * m \in Nat /\ q * m \in Nat
  BY <1>1, <1>5
<1> QED BY <1>1, <1>2, <1>3, <1>5, <1>6

\* Only the remainder of a summand counts for the remainder of a sum.
LEMMA SumRemainder ==
    ASSUME NEW m \in Nat \ {0}, NEW a \in Nat, NEW b \in Nat
    PROVE  ((a % m) + b) % m = (a + b) % m
<1> DEFINE q == a \div m
           r == a % m
           c == r + b
           s == c \div m
           t == c % m
<1>1. q \in Nat /\ a = q * m + r /\ r \in Nat
  BY DivMod
<1> HIDE DEF q, r
<1>2. c \in Nat
  BY <1>1
<1> HIDE DEF c
<1>3. s \in Nat /\ c = s * m + t /\ t \in 0 .. m - 1
  BY ZenonT(40), <1>2, DivMod
<1> HIDE DEF s, t
<1>4. q + s \in Nat /\ (q + s) * m = q * m + s * m /\ q * m \in Nat /\ s * m \in Nat
  BY <1>1, <1>3
<1>5. a + b = (q + s) * m + t
  BY <1>1, <1>3, <1>4 DEF c
<1>6. ((q + s) * m + t) % m = t
  BY ZenonT(40), <1>3, <1>4, Remainders
<1> QED BY <1>5, <1>6 DEF t, c, r

\* The last PrintkBuffSize bytes are in the ring, each at its place.
RingHolds ==
    /\ printk_index = sent % PrintkBuffSize
    /\ DOMAIN ring = 0 .. PrintkBuffSize - 1
    /\ \A k \in 1 .. sent : k + PrintkBuffSize > sent => ring[(k - 1) % PrintkBuffSize] = k

\* Where the boot thread is before the ring is given up
Logging == {"pic_init", "vfs", "proc", "copy", "end", "reset"}

\* What was copied is what was printed since the ring last wrapped, unless it
\* wrapped again before the copy was made.
Body ==
    IF log.copied THEN [i \in 1 .. Since(log.sent) |-> log.sent - Since(log.sent) + i] ELSE <<>>
Overtaken == log.copied /\ log.sent + PrintkBuffSize - Since(log.sent) < sent
LogHolds == Overtaken \/ log.bytes = Body \o IF log.ended THEN <<0>> ELSE <<>>

RingInv ==
    /\ sent \in Nat /\ (pc \in Logging => RingHolds)
    /\ DOMAIN log = {"bytes", "sent", "copied", "ended"} /\ log.sent \in Nat
    /\ pc \in {"pic_init", "vfs", "proc"} => log = NoLog
    /\ pc = "copy" =>
          /\ log.bytes = <<>> /\ ~log.copied /\ ~log.ended
          /\ log.sent <= sent /\ upto = Since(log.sent)
    /\ pc = "end" => ~log.ended
    /\ pc \in {"end", "reset", "stdout"} => LogHolds

\* append_to_printk_buff puts each byte at its place and overwrites only bytes
\* that are a whole turn older.
LEMMA RingKept ==
    ASSUME sent \in Nat, RingHolds, NEW n \in 1 .. MaxMessage, append_to_printk_buff(n)
    PROVE  RingHolds'
<1> DEFINE P == PrintkBuffSize
           at(j) == {i \in 1 .. n : (printk_index + i - 1) % P = j}
<1>1. P \in Nat \ {0} /\ n \in Nat
  BY ConsoleAssumption
<1>2. /\ ring' = [j \in DOMAIN ring |->
                     IF at(j) = {} THEN ring[j]
                     ELSE sent + CHOOSE i \in at(j) : \A k \in at(j) : k <= i]
      /\ printk_index' = (printk_index + n) % P /\ sent' = sent + n
  BY DEF append_to_printk_buff, NextIndex
<1>3. printk_index = sent % P /\ DOMAIN ring = 0 .. P - 1 /\ sent % P \in Nat
  BY <1>1, DivMod DEF RingHolds
<1>4. \A k \in 1 .. sent : k + P > sent => ring[(k - 1) % P] = k
  BY DEF RingHolds
<1> HIDE DEF P
<1>5. ASSUME NEW i \in 1 .. n PROVE (printk_index + i - 1) % P = (sent + i - 1) % P
  <2>1. i - 1 \in Nat
    BY <1>1
  <2>2. ((sent % P) + (i - 1)) % P = (sent + (i - 1)) % P
    BY ZenonT(40), <1>1, <2>1, SumRemainder
  <2>3. (sent % P) + (i - 1) = printk_index + i - 1 /\ sent + (i - 1) = sent + i - 1
    BY <1>3, <2>1
  <2> QED BY <2>2, <2>3
<1>6. ASSUME NEW k \in 1 .. sent + n, k + P > sent + n
      PROVE  ring'[(k - 1) % P] = k
  <2> DEFINE j == (k - 1) % P
  <2>1. k \in Nat /\ k - 1 \in Nat /\ j \in DOMAIN ring
    BY <1>1, <1>3, DivMod
  <2>2. ASSUME NEW i \in at(j) PROVE i \in 1 .. n /\ sent + i <= k
    <3>1. i \in 1 .. n /\ (sent + i - 1) % P = (k - 1) % P
      BY <1>5
    <3>2. sent + i - 1 \in Nat
      BY <3>1, <1>1
    <3>3. CASE k < sent + i
      <4> DEFINE a == k - 1
                 b == sent + i - 1
      <4>1. a \in Nat /\ b \in Nat /\ a < b /\ a % P = b % P
        BY <3>1, <3>2, <3>3, <2>1, <1>1
      <4> HIDE DEF a, b
      <4>2. a + P <= b
        BY ZenonT(40), <4>1, <1>1, TurnApart
      <4> QED BY <4>2, <3>1, <2>1, <1>1, <1>6 DEF a, b
    <3> QED BY <3>1, <3>3, <2>1, <1>1
  <2>3. ring'[j] = IF at(j) = {} THEN ring[j]
                   ELSE sent + CHOOSE i \in at(j) : \A h \in at(j) : h <= i
    BY ZenonT(40), <1>2, <2>1
  <2>4. CASE k <= sent
    <3>1. ASSUME NEW i \in at(j) PROVE FALSE
      BY <2>2, <2>4, <1>1
    <3>2. at(j) = {}
      BY <3>1
    <3>3. k \in 1 .. sent /\ k + P > sent
      BY <2>1, <2>4, <1>1, <1>6
    <3> QED BY <3>2, <3>3, <2>3, <1>4
  <2>5. CASE k > sent
    <3> DEFINE i == k - sent
    <3>1. i \in 1 .. n /\ sent + i - 1 = k - 1 /\ sent + i = k
      BY <2>1, <2>5, <1>1
    <3> HIDE DEF i
    <3>2. i \in at(j)
      BY <3>1, <1>5
    <3> HIDE DEF at
    <3>3. \A h \in at(j) : h \in Nat /\ h <= i
      BY <2>2, <3>1, <1>1
    <3>4. (CHOOSE c \in at(j) : \A h \in at(j) : h <= c) = i
      <4>1. ASSUME NEW c \in at(j), \A h \in at(j) : h <= c PROVE c = i
        BY <4>1, <3>2, <3>3
      <4> QED BY <4>1, <3>2, <3>3
    <3>5. ring'[j] = sent + i
      BY ZenonT(40), <2>3, <3>2, <3>4
    <3> QED BY <3>5, <3>1
  <2> QED BY <2>4, <2>5, <2>1
<1>7. printk_index' = sent' % P
  <2>1. ((sent % P) + n) % P = (sent + n) % P
    BY ZenonT(40), <1>1, SumRemainder
  <2> QED BY <2>1, <1>2, <1>3
<1>8. DOMAIN ring' = 0 .. P - 1
  BY <1>2, <1>3
<1> QED BY ZenonT(40), <1>2, <1>6, <1>7, <1>8 DEF RingHolds, P

\* The copy takes the bytes since the ring last wrapped, unless later ones took
\* their places.
LEMMA CopyHolds ==
    ASSUME sent \in Nat, RingHolds, NEW n \in Nat, n <= sent, ~(n + PrintkBuffSize - Since(n) < sent)
    PROVE  [i \in 1 .. Since(n) |-> ring[i - 1]] = [i \in 1 .. Since(n) |-> n - Since(n) + i]
<1> DEFINE P == PrintkBuffSize
           r == n % P
           q == n \div P
<1>1. P \in Nat \ {0}
  BY ConsoleAssumption
<1>2. q \in Nat /\ r \in 0 .. P - 1 /\ n = q * P + r
  BY <1>1, DivMod
<1>3. ~(n + P - r < sent) /\ \A k \in 1 .. sent : k + P > sent => ring[(k - 1) % P] = k
  BY DEF RingHolds, Since
<1> HIDE DEF P, q, r
<1>4. ASSUME NEW i \in 1 .. r PROVE ring[i - 1] = n - r + i
  <2> DEFINE k == n - r + i
  <2>1. q * P \in Nat /\ k = q * P + i
    BY <1>1, <1>2
  <2>2. k \in 1 .. sent /\ k + P > sent
    BY <1>1, <1>2, <1>3, <2>1
  <2>3. i - 1 \in 0 .. P - 1 /\ k - 1 = q * P + (i - 1)
    BY <1>1, <1>2, <2>1
  <2>4. (k - 1) % P = i - 1
    BY <1>1, <1>2, <2>3, Remainders
  <2> QED BY <1>3, <2>2, <2>4
<1> QED BY <1>4 DEF r, P, Since

\* The log's fields after an assignment to one or two of them
LEMMA LogFields ==
    ASSUME DOMAIN log = {"bytes", "sent", "copied", "ended"}, NEW x, NEW y
    PROVE  /\ LET l == [log EXCEPT !.sent = x] IN
              /\ DOMAIN l = DOMAIN log /\ l.sent = x /\ l.bytes = log.bytes
              /\ l.copied = log.copied /\ l.ended = log.ended
           /\ LET l == [log EXCEPT !.bytes = x, !.copied = y] IN
              /\ DOMAIN l = DOMAIN log /\ l.bytes = x /\ l.copied = y
              /\ l.sent = log.sent /\ l.ended = log.ended
           /\ LET l == [log EXCEPT !.bytes = x, !.ended = y] IN
              /\ DOMAIN l = DOMAIN log /\ l.bytes = x /\ l.ended = y
              /\ l.sent = log.sent /\ l.copied = log.copied
BY Zenon

\* Putting nothing, or a terminator, behind what was copied
LEMMA BodySequence ==
    ASSUME log.sent \in Nat
    PROVE  Body \o <<>> = Body /\ Append(Body, 0) = Body \o <<0>>
<1> DEFINE P == PrintkBuffSize
           n == log.sent
           q == n \div P
           r == n % P
           body == [i \in 1 .. r |-> n - r + i]
<1>1. P \in Nat \ {0} /\ n \in Nat
  BY ConsoleAssumption
<1> HIDE DEF P, n
<1>2. q \in Nat /\ r \in 0 .. P - 1 /\ n = q * P + r
  BY ZenonT(40), <1>1, DivMod
<1> HIDE DEF q, r
<1>3. r \in Nat /\ n - r \in Nat
  <2>1. q * P \in Nat
    BY <1>1, <1>2
  <2> QED BY <1>1, <1>2, <2>1
<1>4. body \in Seq(Nat) /\ <<>> \in Seq(Nat)
  BY <1>3
<1> HIDE DEF body
<1>5. Body = body \/ Body = <<>>
  BY Zenon DEF Body, body, Since, r, n, P
<1> HIDE DEF Body
<1>6. Body \in Seq(Nat)
  BY ZenonT(40), <1>4, <1>5
<1> QED BY <1>6

\* The log stays what it was while more is printed.
LEMMA LogKept ==
    ASSUME LogHolds, log' = log, sent \in Nat, sent' \in Nat, sent <= sent', log.sent \in Nat
    PROVE  LogHolds'
<1>1. CASE Overtaken
  <2>1. Since(log.sent) \in Nat /\ PrintkBuffSize \in Nat
    BY ConsoleAssumption, DivMod DEF Since
  <2> QED BY <1>1, <2>1 DEF Overtaken, LogHolds
<1>2. CASE log.bytes = Body \o IF log.ended THEN <<0>> ELSE <<>>
  <2>1. Body' = Body
    BY DEF Body
  <2> QED BY <1>2, <2>1 DEF LogHolds
<1> QED BY <1>1, <1>2 DEF LogHolds

\* Steps that leave the boot thread, the ring and the log alone
LEMMA RingStays ==
    ASSUME RingInv, pc' = pc, UNCHANGED ringVars, log' = log, upto' = upto
    PROVE  RingInv'
BY ZenonT(40) DEF RingInv, ringVars, RingHolds, LogHolds, Overtaken, Body

\* Steps of the boot thread once it is past the log
LEMMA RingPast ==
    ASSUME RingInv, pc' \notin Logging \cup {"stdout"}, sent' = sent, log' = log
    PROVE  RingInv'
BY DEF RingInv, Logging

\* What is printed goes into the ring.
LEMMA RingPrinted == ASSUME RingInv, Printing PROVE RingInv'
<1>1. PICK t \in Thread : Acquire(t) \/ PutAndRelease(t)
  BY DEF Printing
<1>2. pc' = pc /\ upto' = upto /\ log' = log
  BY <1>1 DEF Printing, bootVars, Acquire, PutAndRelease
<1>3. UNCHANGED ringVars \/ \E n \in 1 .. MaxMessage : append_to_printk_buff(n)
  BY <1>1 DEF Acquire, PutAndRelease
<1>4. ASSUME NEW n \in 1 .. MaxMessage, append_to_printk_buff(n) PROVE RingInv'
  <2>1. sent \in Nat /\ sent' = sent + n /\ log.sent \in Nat
    BY <1>4 DEF append_to_printk_buff, RingInv
  <2>2. sent' \in Nat /\ sent <= sent' /\ (log.sent <= sent => log.sent <= sent')
    BY <2>1, ConsoleAssumption
  <2>3. pc \in Logging => RingHolds'
    BY <1>4, <2>1, RingKept DEF RingInv
  <2>4. LogHolds => LogHolds'
    BY <1>2, <2>1, <2>2, LogKept
  <2> QED BY <1>2, <2>2, <2>3, <2>4, Zenon DEF RingInv
<1> QED BY <1>2, <1>3, <1>4, RingStays

\* The four steps of kmain that make the log of the ring
LEMMA LogStep ==
    ASSUME RingInv, LogCall \/ LogCopy \/ LogEnd \/ LogReset PROVE RingInv'
<1>1. /\ sent \in Nat /\ log.sent \in Nat
      /\ DOMAIN log = {"bytes", "sent", "copied", "ended"}
  BY DEF RingInv
<1>2. CASE LogCall
  <2>1. pc = "proc" /\ pc' = "copy" /\ upto' = printk_index /\ log' = [log EXCEPT !.sent = sent]
        /\ UNCHANGED ringVars
    BY <1>2 DEF LogCall, BootAt, GoesTo
  <2>2. RingHolds /\ log = NoLog
    BY <2>1 DEF RingInv, Logging
  <2>3. /\ DOMAIN log' = DOMAIN log /\ log'.sent = sent /\ log'.bytes = log.bytes
        /\ log'.copied = log.copied /\ log'.ended = log.ended
    BY <1>1, <2>1, LogFields, Zenon
  <2>4. log'.bytes = <<>> /\ ~log'.copied /\ ~log'.ended
    BY <2>2, <2>3 DEF NoLog
  <2>5. RingHolds' /\ sent' = sent
    BY <2>1, <2>2 DEF ringVars, RingHolds
  <2>6. upto' = Since(log'.sent)
    BY <2>1, <2>2, <2>3 DEF RingHolds, Since
  <2>7. log'.sent <= sent'
    BY <1>1, <2>3, <2>5
  <2> QED BY <1>1, <2>1, <2>3, <2>4, <2>5, <2>6, <2>7 DEF RingInv
<1>3. CASE LogCopy
  <2>1. pc = "copy" /\ pc' = "end" /\ UNCHANGED ringVars
    BY <1>3 DEF LogCopy, BootAt, GoesTo
  <2>2. /\ RingHolds /\ log.bytes = <<>> /\ ~log.copied /\ ~log.ended
        /\ log.sent <= sent /\ upto = Since(log.sent)
    BY <2>1 DEF RingInv, Logging
  <2>3. RingHolds' /\ sent' = sent
    BY <2>1, <2>2 DEF ringVars, RingHolds
  <2>4. CASE log' = log
    <3>1. Body = <<>>
      BY <2>2 DEF Body
    <3>2. LogHolds
      BY <2>2, <3>1 DEF LogHolds
    <3>3. LogHolds'
      BY <1>1, <2>3, <2>4, <3>2, LogKept
    <3> QED BY <1>1, <2>1, <2>2, <2>3, <2>4, <3>3 DEF RingInv
  <2>5. CASE log' = [log EXCEPT !.bytes = [i \in 1 .. upto |-> ring[i - 1]], !.copied = TRUE]
    <3> DEFINE copy == [i \in 1 .. upto |-> ring[i - 1]]
    <3>1. /\ DOMAIN log' = DOMAIN log /\ log'.bytes = copy /\ log'.copied = TRUE
          /\ log'.sent = log.sent /\ log'.ended = log.ended
      BY <1>1, <2>5, LogFields, Zenon
    <3>2. Overtaken' \/ ~(log.sent + PrintkBuffSize - Since(log.sent) < sent)
      BY <2>3, <3>1 DEF Overtaken
    <3>3. ~(log.sent + PrintkBuffSize - Since(log.sent) < sent) => log'.bytes = Body'
      BY <1>1, <2>2, <3>1, CopyHolds DEF Body
    <3>4. Body' \o <<>> = Body'
      <4>1. log'.sent \in Nat
        BY <1>1, <3>1
      <4> QED BY <4>1, BodySequence
    <3>5. LogHolds'
      BY <2>2, <3>1, <3>2, <3>3, <3>4, Zenon DEF LogHolds
    <3> QED BY <1>1, <2>1, <2>2, <2>3, <3>1, <3>5 DEF RingInv
  <2> QED BY <1>3, <2>4, <2>5 DEF LogCopy
<1>4. CASE LogEnd
  <2>1. pc = "end" /\ pc' = "reset" /\ UNCHANGED ringVars
    BY <1>4 DEF LogEnd, BootAt, GoesTo
  <2>2. RingHolds /\ LogHolds /\ ~log.ended
    BY <2>1 DEF RingInv, Logging
  <2>3. RingHolds' /\ sent' = sent
    BY <2>1, <2>2 DEF ringVars, RingHolds
  <2>4. CASE log' = log
    <3>1. LogHolds'
      BY <1>1, <2>2, <2>3, <2>4, LogKept
    <3> QED BY <1>1, <2>1, <2>2, <2>3, <2>4, <3>1 DEF RingInv
  <2>5. CASE log' = [log EXCEPT !.bytes = Append(@, 0), !.ended = TRUE]
    <3>1. /\ DOMAIN log' = DOMAIN log /\ log'.bytes = Append(log.bytes, 0) /\ log'.ended = TRUE
          /\ log'.sent = log.sent /\ log'.copied = log.copied
      BY <1>1, <2>5, LogFields, Zenon
    <3>2. Body' = Body /\ (Overtaken => Overtaken')
      BY <2>3, <3>1 DEF Body, Overtaken
    <3>3. log.bytes = Body => log'.bytes = Body' \o <<0>>
      BY <1>1, <3>1, <3>2, BodySequence
    <3>4. Overtaken \/ log.bytes = Body
      BY <1>1, <2>2, BodySequence DEF LogHolds
    <3>5. LogHolds'
      BY <3>1, <3>2, <3>3, <3>4, Zenon DEF LogHolds
    <3> QED BY <1>1, <2>1, <2>3, <3>1, <3>5 DEF RingInv
  <2> QED BY <1>4, <2>4, <2>5 DEF LogEnd
<1>5. CASE LogReset
  <2>1. pc = "reset" /\ pc' = "stdout" /\ sent' = sent /\ log' = log
    BY <1>5 DEF LogReset, BootAt, GoesTo
  <2>2. LogHolds
    BY <2>1 DEF RingInv
  <2>3. LogHolds'
    BY <1>1, <2>1, <2>2, LogKept
  <2> QED BY <1>1, <2>1, <2>3 DEF RingInv, Logging
<1> QED BY <1>2, <1>3, <1>4, <1>5

\* Every step keeps the ring's last bytes, and the log what they were.
LEMMA RingInvKept == ASSUME RingInv, [Next]_vars PROVE RingInv'
<1>1. CASE UNCHANGED vars
  BY <1>1, RingStays DEF vars, consoleVars, bootVars
<1>2. CASE Say \/ Keyboard \/ pit_handler \/ External \/ Process
  <2>1. pc' = pc /\ UNCHANGED ringVars /\ log' = log /\ upto' = upto
    BY <1>2 DEF Say, Keyboard, pit_handler, External, Arrives, Process, syscall_handler,
                ReadKeyboard, Returns, kpanic, hcf, CallPrints, consoleVars, bootVars
  <2> QED BY <2>1, RingStays
<1>3. CASE PicInit \/ VfsInit
  <2>1. /\ pc \in {"pic_init", "vfs"} /\ pc' \in {"vfs", "proc"}
        /\ UNCHANGED ringVars /\ log' = log /\ upto' = upto
    BY <1>3 DEF PicInit, VfsInit, Early, BootAt, GoesTo, consoleVars
  <2> QED BY <2>1 DEF RingInv, ringVars, RingHolds, Logging
<1>4. CASE stdout_init
  <2>1. pc' = "ps2_disable" /\ sent' = 0 /\ log' = NoLog
    BY <1>4 DEF stdout_init, GoesTo
  <2> QED BY <2>1 DEF RingInv, Logging, NoLog
<1>5. CASE ps2_init \/ kbd_init \/ Load \/ pit_init
  <2>1. pc' \notin Logging \cup {"stdout"} /\ sent' = sent /\ log' = log
    BY <1>5 DEF ps2_init, kbd_init, Load, pit_init, Device, GoesTo, consoleVars, ringVars, Logging
  <2> QED BY <2>1, RingPast
<1> QED BY <1>1, <1>2, <1>3, <1>4, <1>5, RingPrinted, LogStep DEF Next, kmain

\* For a ring and messages of any length: the boot log is what was printed since
\* the ring last wrapped, byte for byte, and a terminator, each if its write had
\* memory; unless fwrite's own traces wrapped the ring before the copy.
THEOREM BootLogExact == Spec => []BootLog
<1>1. Init => RingInv
  <2> SUFFICES ASSUME Init PROVE RingInv
    OBVIOUS
  <2>1. /\ sent = 0 /\ printk_index = 0 /\ ring = EmptyRing /\ log = NoLog /\ pc = "pic_init"
    BY DEF Init, ConsoleInit
  <2>2. 0 % PrintkBuffSize = 0
    <3>1. (0 * PrintkBuffSize + 0) % PrintkBuffSize = 0 /\ 0 * PrintkBuffSize + 0 = 0
      BY ConsoleAssumption, Remainders
    <3> QED BY <3>1
  <2>3. RingHolds
    BY <2>1, <2>2 DEF RingHolds, EmptyRing
  <2> QED BY <2>1, <2>3 DEF RingInv, NoLog
<1>2. RingInv => BootLog
  BY Zenon DEF RingInv, BootLog, LogHolds, Overtaken, Body
<1> QED BY <1>1, <1>2, RingInvKept, PTL DEF Spec
=============================================================================
