------------------------------ MODULE CString ------------------------------
(* The C library subset of firmware/string.c.  Memory is the sequence of  *)
(* the bytes at the addresses 0, 1, ...; a pointer is an address, NUL is   *)
(* the character 0 and NULL is a pointer no object has.  char is unsigned, *)
(* as on RISC-V.  A loop is where its counter stops, or what the memory is *)
(* after so many turns.                                                    *)
EXTENDS Integers, Sequences

NUL  == 0
NULL == -1
Byte(m, a)     == m[a + 1]
Store(m, a, c) == [m EXCEPT ![a + 1] = c]

\* Where a counter that starts at 0 and stops in Stop comes to rest.
First(Stop) == LET from[i \in Nat] == IF i \in Stop THEN i ELSE from[i + 1] IN from[0]

\* The memory after count turns of a copy, of which turn k copies the byte at
\* from[k] to to[k].
Copies(m, to, from, count) ==
    LET Copy(w, k)   == Store(w, to[k], Byte(w, from[k]))
        after[k \in 0..count] == IF k = 0 THEN m ELSE Copy(after[k - 1], k - 1)
    IN after[count]

-----------------------------------------------------------------------------
(* Copies *)

memset(m, s, c, count) ==
    LET Fill(w, k) == Store(w, s + k, c)
        after[k \in 0..count] == IF k = 0 THEN m ELSE Fill(after[k - 1], k - 1)
    IN after[count]

memcpy(m, dest, src, count) ==
    Copies(m, [k \in Nat |-> dest + k], [k \in Nat |-> src + k], count)

\* memmove's loop from the last byte down, for a destination behind the source.
CopyDown(m, dest, src, count) ==
    Copies(m, [k \in Nat |-> dest - k], [k \in Nat |-> src - k], count)

\* Mutant: from the first byte up, wherever the two lie.
memmoveUp(m, dest, src, count) == memcpy(m, dest, src, count)

memmove(m, dest, src, count) ==
    CASE dest = src -> m
      [] dest < src -> memcpy(m, dest, src, count)
      [] OTHER      -> CopyDown(m, dest + count - 1, src + count - 1, count)

\* Neither copy of a string writes a terminator.  What is read next may be what
\* was written before.
strcpy(m, dest, src) ==
    memcpy(m, dest, src, First({k \in Nat : Byte(memcpy(m, dest, src, k), src + k) = NUL}))

strncpy(m, dest, src, count) ==
    memcpy(m, dest, src, First({k \in Nat : k = count \/ Byte(memcpy(m, dest, src, k), src + k) = NUL}))

-----------------------------------------------------------------------------
(* Comparisons and searches *)

Differ(m, a, b) == Byte(m, a) # Byte(m, b)

strcmp(m, a, b) ==
    LET At(k) == Byte(m, a + k) - Byte(m, b + k)
    IN At(First({k \in Nat : Differ(m, a + k, b + k) \/ Byte(m, a + k) = NUL}))

strncmp(m, a, b, count) ==
    LET At(k) == IF k = count THEN 0 ELSE Byte(m, a + k) - Byte(m, b + k)
    IN At(First({k \in Nat : k = count \/ Differ(m, a + k, b + k) \/ Byte(m, a + k) = NUL}))

memcmp(m, s1, s2, count) ==
    LET At(k) == IF k = count THEN 0 ELSE Byte(m, s1 + k) - Byte(m, s2 + k)
    IN At(First({k \in Nat : k = count \/ Differ(m, s1 + k, s2 + k)}))

strlen(m, s) == First({k \in Nat : Byte(m, s + k) = NUL})

\* The loop counts ret up and count down at once, and compares one with the
\* other: it stops in the middle of the bound.
StrNLenStops(c, ret, count) == c = NUL \/ ret >= count

strnlen(m, s, count) == First({k \in Nat : StrNLenStops(Byte(m, s + k), k, count - k)})

strchr(m, s, c) ==
    LET At(p) == IF Byte(m, p) = NUL THEN NULL ELSE p
    IN At(s + First({k \in Nat : Byte(m, s + k) = NUL \/ Byte(m, s + k) = c}))

\* From the end of the string back.
strrchr(m, s, c) ==
    LET At(p)   == IF Byte(m, p) = c THEN p ELSE NULL
        Back(n) == At(s + n - First({k \in Nat : k = n \/ Byte(m, s + n - k) = c}))
    IN Back(strlen(m, s))

memchr(m, s, c, count) ==
    LET At(k) == IF k = count THEN NULL ELSE s + k
    IN At(First({k \in Nat : k = count \/ Byte(m, s + k) = c}))
=============================================================================
