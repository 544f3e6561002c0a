------------------------------ MODULE MemCopy ------------------------------
(***************************************************************************)
(* memcpy, memmove and memset of lib/memory.c, one byte per step, on a     *)
(* memory of Size bytes.  dest, src and len are the arguments of the call, *)
(* d, s and n the variables of the loop; old is the memory at the call.    *)
(***************************************************************************)
EXTENDS Integers

CONSTANTS Size,         \* of the memory
          Byte,
          InitialMemory \* the memories to begin with

ASSUME MemCopyAssumption ==
    /\ Size \in Nat \ {0} /\ 0 \in Byte
    /\ InitialMemory \subseteq [0 .. Size - 1 -> Byte]

Addr == 0 .. Size - 1

VARIABLES mem, fn, dest, src, len, c, d, s, n, old

args == <<fn, dest, src, len, c, old>>
copyVars == <<mem, fn, dest, src, len, c, d, s, n, old>>

\* Between two calls the variables of the last one mean nothing.
Idle == fn = "none"
Cleared ==
    /\ fn' = "none" /\ dest' = 0 /\ src' = 0 /\ len' = 0
    /\ c' = 0 /\ d' = 0 /\ s' = 0 /\ n' = 0

CopyInit ==
    /\ mem \in InitialMemory /\ old = mem
    /\ fn = "none" /\ dest = 0 /\ src = 0 /\ len = 0
    /\ c = 0 /\ d = 0 /\ s = 0 /\ n = 0

\* memmove copies from the end unless the destination is below the source.
Always(f, to, from) == TRUE
Upwards(f, to, from) == f = "memmove" => to < from

Begin(f, to, from, size) ==
    /\ Idle
    /\ to + size <= Size /\ from + size <= Size
    /\ fn' = f /\ dest' = to /\ src' = from /\ len' = size
    /\ IF Upwards(f, to, from) THEN d' = to /\ s' = from
                               ELSE d' = to + size /\ s' = from + size
    /\ n' = size /\ old' = mem
    /\ UNCHANGED mem

memcpy(to, from, size) == Begin("memcpy", to, from, size) /\ UNCHANGED c
memmove(to, from, size) == Begin("memmove", to, from, size) /\ UNCHANGED c
memset(to, value, size) == Begin("memset", to, to, size) /\ c' = value

\* One turn of a loop
Ascend ==
    /\ ~Idle /\ Upwards(fn, dest, src) /\ n # 0
    /\ mem' = [mem EXCEPT ![d] = IF fn = "memset" THEN c ELSE mem[s]]
    /\ d' = d + 1 /\ s' = s + 1 /\ n' = n - 1
    /\ UNCHANGED args

Descend ==
    /\ ~Idle /\ ~Upwards(fn, dest, src) /\ n # 0
    /\ mem' = [mem EXCEPT ![d - 1] = mem[s - 1]]
    /\ d' = d - 1 /\ s' = s - 1 /\ n' = n - 1
    /\ UNCHANGED args

Return ==
    /\ ~Idle /\ n = 0
    /\ Cleared /\ old' = mem
    /\ UNCHANGED mem

CopyNext ==
    \/ \E to, from, size \in 0 .. Size : memcpy(to, from, size) \/ memmove(to, from, size)
    \/ \E to, size \in 0 .. Size, value \in Byte : memset(to, value, size)
    \/ Ascend \/ Descend \/ Return

CopySpec == CopyInit /\ [][CopyNext]_copyVars

-----------------------------------------------------------------------------
\* The bytes a call is to write, and what it is to put there
Written == dest .. dest + len - 1
Wanted(a) == IF fn = "memset" THEN c ELSE old[src + (a - dest)]

\* memcpy may overlap only downwards.
Proper == fn = "memcpy" => dest <= src \/ src + len <= dest

\* When a call returns, each byte of the destination is what the source had at
\* the call, or the value to set, however the two overlap, and no other byte has
\* changed.  For memcpy this is said of areas that do not overlap upwards.
Copied ==
    ~Idle /\ n = 0 /\ Proper =>
        \A a \in Addr : mem[a] = IF a \in Written THEN Wanted(a) ELSE old[a]
=============================================================================
