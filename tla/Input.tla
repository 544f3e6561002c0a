------------------------------- MODULE Input -------------------------------
(***************************************************************************)
(* The keyboard's way to the kernel: the PS/2 controller (ps2_init in      *)
(* dev/input/ps2.c), the keyboard driver (dev/input/keyboard.c) and the    *)
(* interrupt controller (sys/pic.c).  Every definition here is a step, or  *)
(* part of one, of the threads that the module Boot puts together.         *)
(*                                                                         *)
(* The devices are external.  The interrupt controller latches an edge in  *)
(* irr even while the line is masked.  When the byte that raised the edge  *)
(* is taken by polling, the 8259 withdraws the request, while emulators    *)
(* keep it: withdraws says which machine this is.  The PS/2 controller     *)
(* holds one byte at a time and takes commands at once; it may or may not  *)
(* have been told by the firmware to raise interrupts.                     *)
(***************************************************************************)
EXTENDS Naturals, Sequences

CONSTANT MaxQueue       \* bytes the keyboard holds back while the controller is full

Irq == {0, 1}           \* the timer and the keyboard
None == "none"
Key == "key"            \* a scan code; "BAT", the answer to a reset, is one too
KBD_ACK == "ack"

VARIABLES
    irr, isr,           \* the PIC: requests, and what is in service
    g_curmask,          \* the masked lines, of the PIC and of pic.c
    hooked,             \* the lines whose real_handlers entry is set
    withdraws,
    obf,                \* the controller's output buffer
    queue,              \* what the keyboard is about to send
    port, int,          \* configuration: first port enabled, interrupt enabled
    last_scancode, has_scancode,
    handler             \* where kbd_handler is: "none", "read" or "eoi"

picVars == <<irr, isr, g_curmask, hooked, withdraws>>
ps2Vars == <<obf, queue, port, int>>
kbdVars == <<last_scancode, has_scancode, handler>>
inputVars == <<picVars, ps2Vars, kbdVars>>

InputInit ==
    /\ irr \in SUBSET Irq /\ isr = {} /\ g_curmask = Irq /\ hooked = {}
    /\ withdraws \in BOOLEAN
    /\ obf \in {None, Key} /\ queue = <<>>
    /\ port \in BOOLEAN /\ int \in BOOLEAN
    /\ last_scancode = None /\ has_scancode = FALSE /\ handler = "none"

-----------------------------------------------------------------------------
(* The devices.                                                            *)

Raised == IF int THEN irr \cup {1} ELSE irr
Lowered == IF withdraws THEN irr \ {1} ELSE irr

\* The keyboard's next byte arrives in the controller.
Transfer ==
    /\ port /\ obf = None /\ queue # <<>>
    /\ obf' = Head(queue) /\ queue' = Tail(queue)
    /\ irr' = Raised
    /\ UNCHANGED <<isr, g_curmask, hooked, withdraws, port, int, kbdVars>>

Press ==
    /\ Len(queue) < MaxQueue
    /\ queue' = Append(queue, Key)
    /\ UNCHANGED <<picVars, obf, port, int, kbdVars>>

Pulse ==
    /\ irr' = irr \cup {0}
    /\ UNCHANGED <<isr, g_curmask, hooked, withdraws, ps2Vars, kbdVars>>

\* What the controller answers by itself
Reply(byte) == obf' = byte /\ irr' = Raised

\* inb of the data port
TakeByte == obf' = None /\ irr' = Lowered

-----------------------------------------------------------------------------
(* pic.c.                                                                  *)

pic_init ==
    /\ irr' = {} /\ isr' = {} /\ g_curmask' = Irq
    /\ UNCHANGED <<hooked, withdraws, ps2Vars, kbdVars>>

pic_unmask(irq) ==
    /\ g_curmask' = g_curmask \ {irq}
    /\ UNCHANGED <<irr, isr, hooked, withdraws, ps2Vars, kbdVars>>

idt_register_handler(irq) ==
    /\ hooked' = hooked \cup {irq}
    /\ UNCHANGED <<irr, isr, g_curmask, withdraws, ps2Vars, kbdVars>>

\* The line the PIC interrupts the CPU for: none while one of higher priority
\* waits, or while one at least as high is in service
Delivers(irq) ==
    /\ irq \in irr \ g_curmask
    /\ \A other \in irr \ g_curmask : irq <= other
    /\ \A other \in isr : irq < other

-----------------------------------------------------------------------------
(* ps2_init, in the order of its waits.                                    *)

DisablePorts ==
    /\ port' = FALSE
    /\ UNCHANGED <<picVars, obf, queue, int, kbdVars>>

\* The flush goes on until the output buffer is empty.
Flushed == obf = None

TestController ==
    /\ \E answer \in {"passed", "failed"} : Reply(answer)
    /\ UNCHANGED <<isr, g_curmask, hooked, withdraws, queue, port, int, kbdVars>>

ReadConfig ==
    /\ Reply("config")
    /\ UNCHANGED <<isr, g_curmask, hooked, withdraws, queue, port, int, kbdVars>>

\* wait_for_read and inb
Poll ==
    /\ obf # None /\ TakeByte
    /\ UNCHANGED <<isr, g_curmask, hooked, withdraws, queue, port, int, kbdVars>>

\* The clock bit is cleared and the interrupt bit set.
WriteConfig ==
    /\ port' = TRUE /\ int' = TRUE
    /\ irr' = IF obf # None /\ ~int THEN irr \cup {1} ELSE irr
    /\ UNCHANGED <<isr, g_curmask, hooked, withdraws, obf, queue, kbdVars>>

-----------------------------------------------------------------------------
(* keyboard.c.                                                             *)

LeavesPort == port
PortEnabled == TRUE
EnablePort ==
    /\ port' = PortEnabled
    /\ UNCHANGED <<picVars, obf, queue, int, kbdVars>>

\* A reset keyboard forgets what it had to send, acknowledges, and says how
\* its self test went.
SendReset ==
    /\ queue' = <<KBD_ACK, "BAT">>
    /\ UNCHANGED <<picVars, obf, port, int, kbdVars>>

SendEnableScanning ==
    /\ queue' = Append(queue, KBD_ACK)
    /\ UNCHANGED <<picVars, obf, port, int, kbdVars>>

\* kbd_handler, entered with interrupts off.  It waits for a byte to read.
kbd_handler_enter ==
    /\ handler = "none" /\ Delivers(1)
    /\ handler' = "read"
    /\ irr' = irr \ {1} /\ isr' = isr \cup {1}
    /\ UNCHANGED <<g_curmask, hooked, withdraws, ps2Vars, last_scancode, has_scancode>>

ReadsOn == handler' = IF obf = KBD_ACK THEN "read" ELSE "eoi"
ReadsOnce == handler' = "eoi"
kbd_handler_read ==
    /\ handler = "read" /\ obf # None
    /\ TakeByte
    /\ IF obf = KBD_ACK
       THEN last_scancode' = None /\ has_scancode' = FALSE
       ELSE last_scancode' = obf /\ has_scancode' = TRUE
    /\ ReadsOnce
    /\ UNCHANGED <<isr, g_curmask, hooked, withdraws, queue, port, int>>

\* pic_eoi
Unended == isr
Ended == isr \ {1}
kbd_handler_eoi ==
    /\ handler = "eoi"
    /\ isr' = Ended
    /\ handler' = "none"
    /\ UNCHANGED <<irr, g_curmask, hooked, withdraws, ps2Vars, last_scancode, has_scancode>>

\* kbd_read never waits: without a scan code it returns -1.  A read of no bytes
\* leaves the scan code.
AwaitsKey == has_scancode
NeverWaits == TRUE
kbd_read ==
    /\ NeverWaits
    /\ \E size \in {0, 1} : has_scancode' = (has_scancode /\ size = 0)
    /\ UNCHANGED <<picVars, ps2Vars, last_scancode, handler>>
=============================================================================
