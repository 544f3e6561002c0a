------------------------------ MODULE CString ------------------------------
(***************************************************************************)
(* The string functions of lib/memory.c.  A memory m is a function from    *)
(* addresses to character codes; a pointer is an address, Null is NULL.    *)
(* Each loop is a recursive operator that reads what the loop reads, in    *)
(* its order: reading outside the memory is an error.                      *)
(***************************************************************************)
EXTENDS Integers, Sequences

CONSTANT LONG_MAX

Null == -1
LONG_MIN == -LONG_MAX - 1

RECURSIVE memcmp(_, _, _, _)
memcmp(m, p1, p2, n) ==
    IF n = 0 THEN 0
    ELSE IF m[p1] # m[p2] THEN (IF m[p1] < m[p2] THEN -1 ELSE 1)
    ELSE memcmp(m, p1 + 1, p2 + 1, n - 1)

RECURSIVE strlen(_, _)
strlen(m, s) == IF m[s] = 0 THEN 0 ELSE 1 + strlen(m, s + 1)

RECURSIVE strcmp(_, _, _)
strcmp(m, s1, s2) ==
    IF m[s1] # 0 /\ m[s1] = m[s2] THEN strcmp(m, s1 + 1, s2 + 1) ELSE m[s1] - m[s2]

RECURSIVE strncmp(_, _, _, _)
strncmp(m, s1, s2, n) ==
    IF n # 0 /\ m[s1] # 0 /\ m[s1] = m[s2] THEN strncmp(m, s1 + 1, s2 + 1, n - 1)
    ELSE IF n # 0 THEN m[s1] - m[s2] ELSE 0

RECURSIVE strchr(_, _, _)
strchr(m, s, c) ==
    IF m[s] = 0 THEN Null ELSE IF m[s] = c THEN s ELSE strchr(m, s + 1, c)

RECURSIVE LastOf(_, _, _, _)
LastOf(m, s, c, last) ==
    IF m[s] = 0 THEN last ELSE LastOf(m, s + 1, c, IF m[s] = c THEN s ELSE last)
strrchr(m, s, c) == LastOf(m, s, c, Null)

\* The inner loops over a set of characters, which is a string too
Among(m, ch, set) == strchr(m, set, ch) # Null

RECURSIVE strcspn(_, _, _)
strcspn(m, s, reject) ==
    IF m[s] = 0 \/ Among(m, m[s], reject) THEN 0 ELSE 1 + strcspn(m, s + 1, reject)

RECURSIVE strspn(_, _, _)
strspn(m, s, accept) ==
    IF m[s] = 0 \/ ~Among(m, m[s], accept) THEN 0 ELSE 1 + strspn(m, s + 1, accept)

RECURSIVE strpbrk(_, _, _)
strpbrk(m, s, accept) ==
    IF m[s] = 0 THEN Null
    ELSE IF Among(m, m[s], accept) THEN s ELSE strpbrk(m, s + 1, accept)

\* How far the needle's characters agree with those at h
RECURSIVE Agree(_, _, _)
Agree(m, h, n) ==
    IF m[h] # 0 /\ m[n] # 0 /\ m[h] = m[n] THEN 1 + Agree(m, h + 1, n + 1) ELSE 0

RECURSIVE Search(_, _, _)
Search(m, h, needle) ==
    IF m[h] = 0 THEN Null
    ELSE IF m[needle + Agree(m, h, needle)] = 0 THEN h
    ELSE Search(m, h + 1, needle)
strstr(m, haystack, needle) ==
    IF m[needle] = 0 THEN haystack ELSE Search(m, haystack, needle)

-----------------------------------------------------------------------------
(* Functions that write: they return the memory.                           *)

Store(m, a, ch) == [m EXCEPT ![a] = ch]

RECURSIVE strcpy(_, _, _)
strcpy(m, d, s) ==
    IF m[s] = 0 THEN Store(m, d, 0) ELSE strcpy(Store(m, d, m[s]), d + 1, s + 1)

RECURSIVE Fill(_, _, _)
Fill(m, d, n) == IF n = 0 THEN m ELSE Fill(Store(m, d, 0), d + 1, n - 1)

\* The terminator is copied without counting it: then n more are written.
RECURSIVE strncpy(_, _, _, _)
strncpy(m, d, s, n) ==
    IF n = 0 THEN m
    ELSE IF m[s] = 0 THEN Fill(Store(m, d, 0), d + 1, n)
    ELSE strncpy(Store(m, d, m[s]), d + 1, s + 1, n - 1)

strcat(m, d, s) == strcpy(m, d + strlen(m, d), s)

\* The byte after the last one written is cleared, be it the terminator or not.
RECURSIVE Append_n(_, _, _, _)
Append_n(m, d, s, n) ==
    IF n = 0 THEN Store(m, d, 0)
    ELSE IF m[s] = 0 THEN Store(Store(m, d, 0), d + 1, 0)
    ELSE Append_n(Store(m, d, m[s]), d + 1, s + 1, n - 1)
strncat(m, d, s, n) == Append_n(m, d + strlen(m, d), s, n)

\* copy is what kmalloc returned.
strdup(m, copy, s) == IF copy = Null THEN m ELSE strcpy(m, copy, s)

strndup(m, copy, s, n) ==
    LET len == IF strlen(m, s) > n THEN n ELSE strlen(m, s) IN
    IF copy = Null THEN m ELSE Store(strncpy(m, copy, s, len), copy + len, 0)

\* strtok: str is Null to go on at last.  The token, the memory and last
strtok(m, str, delim, last) ==
    LET from == IF str = Null THEN last ELSE str
        start == from + strspn(m, from, delim)
        end == start + strcspn(m, start, delim) IN
    IF from = Null \/ m[start] = 0 THEN [token |-> Null, mem |-> m, last |-> last]
    ELSE IF m[end] = 0 THEN [token |-> start, mem |-> m, last |-> end]
    ELSE [token |-> start, mem |-> Store(m, end, 0), last |-> end + 1]

strtok_r(m, str, delim, saveptr) ==
    LET from == IF str = Null THEN saveptr ELSE str IN
    IF from = Null THEN [token |-> Null, mem |-> m, last |-> saveptr]
    ELSE LET start == from + strspn(m, from, delim)
             end == strpbrk(m, start, delim) IN
         IF m[start] = 0 THEN [token |-> Null, mem |-> m, last |-> start]
         ELSE IF end = Null THEN [token |-> start, mem |-> m, last |-> start + strlen(m, start)]
         ELSE [token |-> start, mem |-> Store(m, end, 0), last |-> end + 1]

-----------------------------------------------------------------------------
(* strtol.                                                                 *)

Space == {9, 10, 11, 12, 13, 32}

RECURSIVE SkipSpace(_, _)
SkipSpace(m, s) == IF m[s] \in Space THEN SkipSpace(m, s + 1) ELSE s

DigitOf(ch) ==
    IF ch \in 48 .. 57 THEN ch - 48
    ELSE IF ch \in 97 .. 122 THEN ch - 97 + 10
    ELSE IF ch \in 65 .. 90 THEN ch - 65 + 10
    ELSE 99

Hex(m, s) == m[s] = 48 /\ m[s + 1] \in {120, 88}

NoLimit(result, digit, base) == result > LONG_MAX \div base
TooLarge(result, digit, base) ==
    \/ result > LONG_MAX \div base
    \/ result = LONG_MAX \div base /\ digit > LONG_MAX % base

\* The value, and where *endptr points
RECURSIVE Digits(_, _, _, _, _)
Digits(m, s, base, result, sign) ==
    LET digit == DigitOf(m[s]) IN
    IF m[s] = 0 \/ digit >= base THEN [value |-> result * sign, end |-> s]
    ELSE IF TooLarge(result, digit, base)
         THEN [value |-> IF sign = 1 THEN LONG_MAX ELSE LONG_MIN, end |-> s]
    ELSE Digits(m, s + 1, base, result * base + digit, sign)

strtol(m, str, base) ==
    LET s == SkipSpace(m, str)
        sign == IF m[s] = 45 THEN -1 ELSE 1
        t == IF m[s] \in {43, 45} THEN s + 1 ELSE s IN
    CASE base = 0 /\ Hex(m, t) -> Digits(m, t + 2, 16, 0, sign)
      [] base = 0 /\ m[t] = 48 /\ ~Hex(m, t) -> Digits(m, t + 1, 8, 0, sign)
      [] base = 0 /\ m[t] # 48 -> Digits(m, t, 10, 0, sign)
      [] base = 16 /\ Hex(m, t) -> Digits(m, t + 2, 16, 0, sign)
      [] OTHER -> Digits(m, t, base, 0, sign)

-----------------------------------------------------------------------------
\* GET_KERNEL_CONFIG_VALUE of post.c: newline is the string "\n", key the
\* string key "=".  The value and the memory strtok leaves
KeyKept(m, temp, key) == temp
PastKey(m, temp, key) == temp + strlen(m, key)
RECURSIVE ConfigLines(_, _, _)
ConfigLines(tok, newline, key) ==
    IF tok.token = Null THEN [value |-> Null, mem |-> tok.mem]
    ELSE LET temp == strstr(tok.mem, tok.token, key) IN
         IF temp # Null THEN [value |-> PastKey(tok.mem, temp, key), mem |-> tok.mem]
         ELSE ConfigLines(strtok(tok.mem, Null, newline, tok.last), newline, key)
GET_KERNEL_CONFIG_VALUE(m, buff, newline, key) ==
    ConfigLines(strtok(m, buff, newline, Null), newline, key)
=============================================================================
