----------------------------- MODULE MCSyscalls -----------------------------
(* The standard output, which everyone may write and nobody read; a file,  *)
(* readable by others; and paths with nothing there: one can be created,   *)
(* one cannot, but with a slash behind it open creates an odd one.         *)
EXTENDS Syscalls

CONSTANTS stdout, file, new, none, odd

MCPath == {stdout, file, new, none, odd}
MCNodeAt ==
    [p \in MCPath |->
        CASE p = stdout -> [type |-> "DEV", mode |-> {"usr", "grp", "oth"} \X {"w"}]
          [] p = file -> [type |-> "FILE", mode |-> DefaultMode("FILE")]
          [] OTHER -> NULL]
MCCreatable == {new, odd}
MCGiven == {<<p, p>> : p \in MCPath \ {odd}} \cup {<<none, odd>>}
=============================================================================
