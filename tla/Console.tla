------------------------------ MODULE Console ------------------------------
(***************************************************************************)
(* Printing: put with its lock and its ring of messages (lib/printf.c),    *)
(* the lock of the vnode that is stdout (vfs_write, dev/stdout.c), and the *)
(* boot log that main.c makes of the ring.                                 *)
(*                                                                         *)
(* What a thread still has to print is a list of the locks it takes one    *)
(* after the other: kprintf takes "put", printf "out", a warning or an     *)
(* error both.  A byte is its number in the order of printing; the text    *)
(* does not matter.                                                        *)
(***************************************************************************)
EXTENDS Naturals, Sequences

CONSTANTS PrintkBuffSize,   \* PRINTK_BUFF_SIZE
          MaxMessage        \* bound on the length of a message

ASSUME ConsoleAssumption == PrintkBuffSize \in Nat \ {0} /\ MaxMessage \in Nat

Thread == {"boot", "proc"}
Lock == {"put", "out"}
Free == "free"

VARIABLES
    lock,           \* put_lock and stdout->lock: who took it, or Free
    todo,           \* what each thread is printing
    inside,         \* whether it has got the lock it takes first
    stdout,         \* whether stdout is set
    ring,           \* printk_buff
    printk_index,
    sent,           \* how many bytes have been put into the ring
    log             \* boot.log, which writes succeeded, and sent at the first

printVars == <<lock, todo, inside>>
ringVars == <<ring, printk_index, sent>>
consoleVars == <<printVars, stdout, ringVars, log>>

EmptyRing == [i \in 0 .. PrintkBuffSize - 1 |-> 0]
NoLog == [bytes |-> <<>>, sent |-> 0, copied |-> FALSE, ended |-> FALSE]

ConsoleInit ==
    /\ lock = [l \in Lock |-> Free]
    /\ todo = [t \in Thread |-> <<>>]
    /\ inside = [t \in Thread |-> FALSE]
    /\ stdout = FALSE
    /\ ring = EmptyRing /\ printk_index = 0 /\ sent = 0
    /\ log = NoLog

\* Nothing is left to print.
Silent(t) == todo[t] = <<>>

\* printf does nothing while there is no stdout.
Kprintf == <<"put">>
Warning == IF stdout THEN <<"put", "out">> ELSE <<"put">>
Panic == <<"out", "put">>

Prints(t, what) == todo' = [todo EXCEPT ![t] = what]

Acquire(t) ==
    /\ ~Silent(t) /\ ~inside[t]
    /\ lock[Head(todo[t])] = Free
    /\ lock' = [lock EXCEPT ![Head(todo[t])] = t]
    /\ inside' = [inside EXCEPT ![t] = TRUE]
    /\ UNCHANGED <<todo, stdout, ringVars, log>>

RestartsRing(n) == IF printk_index + n >= PrintkBuffSize THEN 0 ELSE printk_index + n
NextIndex(n) == (printk_index + n) % PrintkBuffSize

\* n bytes, the later ones over the earlier ones where the ring is too short
append_to_printk_buff(n) ==
    LET at(j) == {i \in 1 .. n : (printk_index + i - 1) % PrintkBuffSize = j} IN
    /\ ring' = [j \in DOMAIN ring |->
                   IF at(j) = {} THEN ring[j]
                   ELSE sent + CHOOSE i \in at(j) : \A k \in at(j) : k <= i]
    /\ printk_index' = NextIndex(n)
    /\ sent' = sent + n

\* put returns early, and releases the lock there too, once there is a stdout.
NotReleased(t) == lock' = IF stdout THEN lock ELSE [lock EXCEPT ![Head(todo[t])] = Free]
Released(t) == lock' = [lock EXCEPT ![Head(todo[t])] = Free]

PutAndRelease(t) ==
    /\ ~Silent(t) /\ inside[t]
    /\ Released(t)
    /\ inside' = [inside EXCEPT ![t] = FALSE]
    /\ todo' = [todo EXCEPT ![t] = Tail(@)]
    /\ IF Head(todo[t]) = "put" /\ ~stdout
       THEN \E n \in 1 .. MaxMessage : append_to_printk_buff(n)
       ELSE UNCHANGED ringVars
    /\ UNCHANGED <<stdout, log>>
=============================================================================
