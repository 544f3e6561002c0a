------------------------------ MODULE Startup ------------------------------
(***************************************************************************)
(* What lies between the archive the boot loader passes and the first      *)
(* process: the archive is unpacked (Ustar), and on the files it leaves    *)
(* files are written and read (Ramfs), which stamps them with the time     *)
(* (Clock), and the program of the first process is loaded (Elf).          *)
(*                                                                         *)
(* The unpacked tree goes to one of the three at a time, and the model     *)
(* then forgets the archive: what each does depends on the others only by  *)
(* the file it is given, which is any.                                     *)
(***************************************************************************)
EXTENDS Ramfs, Elf

CONSTANTS BlockSize, Entry, MaxEntries,         \* of Ustar
          Instant, MaxTicks                     \* of Clock

VARIABLES stage,    \* "unpack", "file", "exec" or "stamp"
          entries, blocks, pos, tree, unpack,
          now, ticks, reading, time, date, atTime, atDate, stamp

archiveVars == <<entries, blocks, pos, tree, unpack>>
clockVars == <<now, ticks, reading, time, date, atTime, atDate, stamp>>
vars == <<stage, archiveVars, ramfsVars, elfVars, clockVars>>

Archive == INSTANCE Ustar WITH status <- unpack
Rtc == INSTANCE Clock

ASSUME StartupAssumption ==
    Archive!UstarAssumption /\ RamfsAssumption /\ ElfAssumption

Init ==
    /\ stage = "unpack"
    /\ Archive!Init /\ RamfsInit /\ ElfInit /\ Rtc!Init

\* The archive is packed and passed on, before the kernel runs.
Prepare ==
    /\ stage = "unpack" /\ (Archive!Pass \/ \E e \in Entry : Archive!Pack(e))
    /\ UNCHANGED <<stage, ramfsVars, elfVars, clockVars>>

Unpack ==
    /\ stage = "unpack" /\ Archive!ramfs_init_ustar
    /\ UNCHANGED <<stage, ramfsVars, elfVars, clockVars>>

\* kmain goes on after ramfs_init, also when unpacking was given up.
GoOn ==
    /\ stage = "unpack" /\ unpack \in {"done", "given up"}
    /\ stage' \in {"file", "exec", "stamp"}
    /\ entries' = <<>> /\ blocks' = <<>> /\ pos' = 1
    /\ tree' = Archive!Root /\ unpack' = "done"
    /\ UNCHANGED <<ramfsVars, elfVars, clockVars>>

UseFile ==
    /\ stage = "file" /\ RamfsNext
    /\ UNCHANGED <<stage, archiveVars, elfVars, clockVars>>

LoadProgram ==
    /\ stage = "exec" /\ ElfNext
    /\ UNCHANGED <<stage, archiveVars, ramfsVars, clockVars>>

StampFile ==
    /\ stage = "stamp" /\ Rtc!Next
    /\ UNCHANGED <<stage, archiveVars, ramfsVars, elfVars>>

Next == Prepare \/ Unpack \/ GoOn \/ UseFile \/ LoadProgram \/ StampFile

Spec == Init /\ [][Next]_vars /\ WF_vars(Unpack)

-----------------------------------------------------------------------------
\* Whatever the archive, ramfs_init_ustar makes a tree: everything but the root
\* is in a directory.
InDirectories == Archive!InDirectories

\* An archive that names each path once and directories before what they hold
\* never faults, and when ramfs_init_ustar has come to its end everything in it
\* exists, with its own data, and nothing else.
Unpacked == Archive!Unpacked

\* The loop of ramfs_init_ustar ends, whatever the archive.
Ends == Archive!Ends

\* The stamp of a file is the second the time was read at, or one day later if
\* midnight came before GET_CURRENT_UNIX_TIME read the date, and prints as read.
StampMeans == Rtc!StampMeans
=============================================================================
