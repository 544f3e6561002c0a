----------------------------- MODULE MCLibrary -----------------------------
(* A memory of different bytes to copy; texts of several strings over two   *)
(* letters, of numbers with a space, signs, digits and prefixes, and        *)
(* configurations of up to five characters with the key "k".                *)
EXTENDS Library

MCByte == 0 .. Size
MCInitialMemory == {[a \in Addr |-> a + 1]}

\* The characters of a sequence from address 0 on
FromZero(a) == [x \in 0 .. Len(a) - 1 |-> a[x + 1]]

Letters == [1 .. 5 -> {0, 97, 98}]
Numbers == [1 .. 4 -> {32, 45, 43, 48, 49, 97, 120}]
MCConfig ==
    {FromZero(a \o <<0, 10, 0, 107, 61, 0>>) : a \in UNION {[1 .. k -> {10, 61, 107}] : k \in 0 .. 5}}
MCText == {FromZero(a \o <<0>>) : a \in Letters \cup Numbers} \cup MCConfig
=============================================================================
