----------------------------- MODULE MCStartup -----------------------------
(***************************************************************************)
(* Archives of paths of up to three components, with files that fill no    *)
(* block, part of one, one exactly, and more than one; segments that start *)
(* on a page and inside one, end before, at and after the end of a page,   *)
(* with and without a part that is only zeros; and the first, the 28th and *)
(* the last day of every month, in leap years, in others, and in 2000,     *)
(* early, late and two seconds before midnight.                            *)
(***************************************************************************)
EXTENDS Startup

MCEntry ==
    {[path |-> p, dir |-> TRUE, size |-> 0] : p \in {<<>>, <<"a">>, <<"a", "b">>, <<"b">>}}
    \cup {[path |-> p, dir |-> FALSE, size |-> n] :
            p \in {<<"a">>, <<"a", "b">>, <<"a", "b", "c">>}, n \in {0, 1, 4, 5}}

MCBuffer == UNION {[1 .. n -> Byte] : n \in 1 .. 3}

MCSegment ==
    {[load |-> TRUE, write |-> v > 7, exec |-> v < 11,
      vaddr |-> v, offset |-> o, filesz |-> n, memsz |-> n + z] :
        v \in {4, 5, 8, 11, 12}, o \in {0, 3}, n \in {0, 1, 4, 5}, z \in {0, 4}}
    \cup {[load |-> FALSE, write |-> FALSE, exec |-> FALSE,
           vaddr |-> 4, offset |-> 0, filesz |-> 4, memsz |-> 4]}

At(y, m, d, t) ==
    [year |-> y, month |-> m, day |-> d, hours |-> t[1], minutes |-> t[2], seconds |-> t[3]]
LastDay(y, m) ==
    IF m = 2 THEN IF y % 4 = 0 THEN 29 ELSE 28 ELSE IF m \in {4, 6, 9, 11} THEN 30 ELSE 31
MCInstant ==
    {At(y, m, d, t) :
        y \in {2000, 2001, 2023, 2024, 2038, 2098}, m \in 1 .. 12, d \in {1, 28},
        t \in {<<0, 0, 0>>, <<9, 59, 59>>, <<23, 59, 58>>}}
    \cup {At(y, m, LastDay(y, m), t) :
        y \in {2000, 2001, 2023, 2024, 2038, 2098}, m \in 1 .. 12,
        t \in {<<12, 34, 56>>, <<23, 59, 58>>}}
=============================================================================
