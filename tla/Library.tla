------------------------------ MODULE Library ------------------------------
(***************************************************************************)
(* The kernel's library (lib/memory.c) as a caller sees it: it has memory  *)
(* moved, copied and set (MemCopy), or it has a text looked at by the      *)
(* string functions (CString).  The properties compare each function with  *)
(* a definition of what it is to compute, on every text of a bounded set.  *)
(***************************************************************************)
EXTENDS MemCopy, CString, SequencesExt, FiniteSetsExt

CONSTANTS Text,     \* memories that end in a NUL
          NoText,
          Config,   \* those that hold a configuration at 0, then "\n", then "key="
          Base      \* what strtol is asked for

VARIABLE text

vars == <<copyVars, text>>

Init == CopyInit /\ text = NoText

\* The bytes that are copied do not matter to the texts: these are looked at
\* before anything was copied.
Look(t) ==
    /\ Idle /\ mem \in InitialMemory /\ text = NoText
    /\ text' = t
    /\ UNCHANGED copyVars

Next ==
    \/ text = NoText /\ CopyNext /\ UNCHANGED text
    \/ \E t \in Text : Look(t)

Spec == Init /\ [][Next]_vars

-----------------------------------------------------------------------------
(* What the functions are to compute.                                      *)

Pointer == DOMAIN text

\* The string at p, and the n bytes there
LengthAt(m, p) == Min({k \in 0 .. Max(DOMAIN m) - p : m[p + k] = 0})
BytesAt(m, p, k) == [i \in 1 .. k |-> m[p + i - 1]]
StringAt(m, p) == BytesAt(m, p, LengthAt(m, p))

FirstOf(a, k) == SubSeq(a, 1, IF k < Len(a) THEN k ELSE Len(a))
Sign(x) == IF x < 0 THEN -1 ELSE IF x > 0 THEN 1 ELSE 0

\* The order of strings
Order(a, b) ==
    IF a = b THEN 0
    ELSE IF \E k \in 0 .. Len(a) :
                /\ k < Len(b) /\ FirstOf(a, k) = FirstOf(b, k)
                /\ k = Len(a) \/ a[k + 1] < b[k + 1]
    THEN -1 ELSE 1

\* The least, or the greatest, of the positions in a that are in S, as a pointer
At(p, S) == IF S = {} THEN Null ELSE p + Min(S) - 1
LastAt(p, S) == IF S = {} THEN Null ELSE p + Max(S) - 1
Places(a, S) == {i \in DOMAIN a : a[i] \in S}
Occurrences(a, b) == {i \in 1 .. Len(a) + 1 : IsPrefix(b, SubSeq(a, i, Len(a)))}

Reads(m, p, q) ==
    LET a == StringAt(m, p)
        b == StringAt(m, q) IN
    /\ strlen(m, p) = Len(a)
    /\ Sign(strcmp(m, p, q)) = Order(a, b)
    /\ \A k \in 0 .. 3 :
          /\ Sign(strncmp(m, p, q, k)) = Order(FirstOf(a, k), FirstOf(b, k))
          /\ {p + k, q + k} \subseteq DOMAIN m =>
                memcmp(m, p, q, k) = Order(BytesAt(m, p, k), BytesAt(m, q, k))
    /\ m[q] # 0 => /\ strchr(m, p, m[q]) = At(p, Places(a, {m[q]}))
                   /\ strrchr(m, p, m[q]) = LastAt(p, Places(a, {m[q]}))
    /\ strpbrk(m, p, q) = At(p, Places(a, Range(b)))
    /\ strcspn(m, p, q) = Max({k \in 0 .. Len(a) : Range(FirstOf(a, k)) \cap Range(b) = {}})
    /\ strspn(m, p, q) = Max({k \in 0 .. Len(a) : Range(FirstOf(a, k)) \subseteq Range(b)})
    /\ strstr(m, p, q) = At(p, Occurrences(a, b))

\* The memory with the bytes of a sequence stored from p on
With(m, p, bytes) ==
    [x \in DOMAIN m |-> IF x \in p .. p + Len(bytes) - 1 THEN bytes[x - p + 1] ELSE m[x]]
Zeros(k) == [i \in 1 .. k |-> 0]

\* strncpy and strncat with a string shorter than the limit clear one byte more
\* than they should; strndup never lets that happen.
Extra(a, k) == IF Len(a) < k THEN 1 ELSE 0

\* Writing to q what is at p, when there is room and the two do not overlap
Writes(m, p, q, k) ==
    LET a == StringAt(m, p)
        prefix == FirstOf(a, k)
        b == StringAt(m, q)
        apart(length) == /\ q + length - 1 \in DOMAIN m
                         /\ q + length <= p \/ p + Len(a) < q
        padded == prefix \o Zeros(k - Len(prefix) + Extra(a, k)) IN
    /\ apart(Len(a) + 1) =>
          /\ strcpy(m, q, p) = With(m, q, a \o <<0>>)
          /\ strdup(m, q, p) = With(m, q, a \o <<0>>)
    /\ apart(Len(padded)) => strncpy(m, q, p, k) = With(m, q, padded)
    /\ apart(Len(prefix) + 1) => strndup(m, q, p, k) = With(m, q, prefix \o <<0>>)
    /\ apart(Len(b) + Len(a) + 1) => strcat(m, q, p) = With(m, q, b \o a \o <<0>>)
    /\ apart(Len(b) + Len(prefix) + 1 + Extra(a, k)) =>
          strncat(m, q, p, k) = With(m, q, b \o prefix \o Zeros(1 + Extra(a, k)))

\* The tokens that a loop over strtok, or over strtok_r, finds
RECURSIVE Tokens(_, _, _)
Tokens(r, delim, again) ==
    IF r.token = Null THEN <<>>
    ELSE <<StringAt(r.mem, r.token)>> \o
            Tokens(IF again THEN strtok_r(r.mem, Null, delim, r.last)
                            ELSE strtok(r.mem, Null, delim, r.last), delim, again)

\* The runs of other characters between delimiters
Runs(a, S) ==
    LET run(i, j) == /\ \A k \in i .. j : a[k] \notin S
                     /\ i = 1 \/ a[i - 1] \in S
                     /\ j = Len(a) \/ a[j + 1] \in S
        ends == {j \in DOMAIN a : \E i \in 1 .. j : run(i, j)}
        from(j) == CHOOSE i \in 1 .. j : run(i, j) IN
    [x \in 1 .. Cardinality(ends) |->
        LET j == SetToSortSeq(ends, <)[x] IN SubSeq(a, from(j), j)]

\* On any text, and for any two of its strings, the functions that look at
\* strings return what they should, those that write store just the string where
\* it belongs (strncpy and strncat one zero more), strdup and strndup stay in the
\* block they allocate, and loops over strtok and strtok_r find the same tokens.
StringsAgree ==
    text # NoText =>
        \A p, q \in Pointer :
            /\ Reads(text, p, q)
            /\ \A k \in 0 .. 3 : Writes(text, p, q, k)
            /\ p + LengthAt(text, p) < q =>
                  LET runs == Runs(StringAt(text, p), Range(StringAt(text, q))) IN
                  /\ Tokens(strtok(text, p, q, Null), q, FALSE) = runs
                  /\ Tokens(strtok_r(text, p, q, Null), q, TRUE) = runs

-----------------------------------------------------------------------------
Clamp(v) == IF v > LONG_MAX THEN LONG_MAX ELSE IF v < LONG_MIN THEN LONG_MIN ELSE v

RECURSIVE ValueOf(_, _)
ValueOf(digits, base) ==
    IF digits = <<>> THEN 0 ELSE ValueOf(Front(digits), base) * base + Last(digits)

\* How a number is written: spaces, a sign, a prefix that may choose the base,
\* and digits as long as there are some
NumberAt(p, base) ==
    LET a == StringAt(text, p)
        spaces == Max({k \in 0 .. Len(a) : Range(FirstOf(a, k)) \subseteq Space})
        signed == spaces < Len(a) /\ a[spaces + 1] \in {43, 45}
        start == spaces + IF signed THEN 1 ELSE 0
        rest == SubSeq(a, start + 1, Len(a))
        hex == base \in {0, 16} /\ (IsPrefix(<<48, 120>>, rest) \/ IsPrefix(<<48, 88>>, rest))
        octal == base = 0 /\ ~hex /\ IsPrefix(<<48>>, rest)
        b == IF base # 0 THEN base ELSE IF hex THEN 16 ELSE IF octal THEN 8 ELSE 10
        from == IF hex THEN 2 ELSE IF octal THEN 1 ELSE 0
        value == [i \in DOMAIN rest |-> DigitOf(rest[i])]
        count == Max({k \in from .. Len(rest) : \A i \in from + 1 .. k : value[i] < b}) IN
    [value |-> ValueOf(SubSeq(value, from + 1, count), b)
                 * IF signed /\ a[spaces + 1] = 45 THEN -1 ELSE 1,
     end |-> p + start + count]

\* strtol returns the number that is written at p, or the limit it exceeds, and
\* points to the first character after a number within the limits; but it takes
\* LONG_MIN itself for too large, and points to its last digit then.
NumbersAgree ==
    text # NoText =>
        \A p \in Pointer, base \in Base :
            LET number == NumberAt(p, base)
                result == strtol(text, p, base) IN
            /\ result.value = Clamp(number.value)
            /\ number.value \in -LONG_MAX .. LONG_MAX => result.end = number.end
            /\ number.value = LONG_MIN => result.end = number.end - 1

-----------------------------------------------------------------------------
\* The value of a key is what follows its first occurrence up to the end of the
\* line, wherever in whichever line that is; without one there is no value.
ConfigFound ==
    text # NoText /\ text \in Config =>
        LET a == StringAt(text, 0)
            newline == Len(a) + 1
            key == Len(a) + 3
            found == Occurrences(a, StringAt(text, key))
            result == GET_KERNEL_CONFIG_VALUE(text, 0, newline, key)
            from == Min(found) + LengthAt(text, key)
            line == {i \in from .. Len(a) : a[i] = 10} IN
        IF found = {} THEN result.value = Null
        ELSE /\ result.value = from - 1
             /\ StringAt(result.mem, result.value)
                  = SubSeq(a, from, IF line = {} THEN Len(a) ELSE Min(line) - 1)
=============================================================================
