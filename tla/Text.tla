-------------------------------- MODULE Text ---------------------------------
(***************************************************************************)
(* Memory and strings: user/libc/src/string.c, kernel/mem/lib.c and        *)
(* kernel/screen/lib/string.c.  All of them work in place on one array of  *)
(* bytes, so that source and destination may overlap.                      *)
(*                                                                         *)
(* 0 is NUL, 1 a blank, 2 and 3 the two cases of a letter.                 *)
(***************************************************************************)
EXTENDS Integers, Sequences

CONSTANT TEXT_SIZE      \* bytes in the array

ASSUME TextAssumption == TEXT_SIZE \in Nat \ {0}

VARIABLE array

NUL == 0
BLANK == 1
Chars == 0 .. 3
Places == 0 .. TEXT_SIZE - 1

TextInit == array \in [Places -> Chars]
-----------------------------------------------------------------------------
memset(m, d, c, n) == [i \in Places |-> IF i \in d .. d + n - 1 THEN c ELSE m[i]]

\* Byte by byte from the front, and from the back.
memcpy(m, d, s, n) ==
    LET c[i \in 0 .. n] ==
            IF i = 0 THEN m ELSE LET p == c[i - 1] IN [p EXCEPT ![d + i - 1] = p[s + i - 1]]
    IN  c[n]
backwards(m, d, s, n) ==
    LET c[i \in 0 .. n] ==
            IF i = 0 THEN m ELSE LET p == c[i - 1] IN [p EXCEPT ![d + n - i] = p[s + n - i]]
    IN  c[n]

memmove(m, d, s, n) ==
    IF d < s THEN memcpy(m, d, s, n) ELSE IF d > s THEN backwards(m, d, s, n) ELSE m
\* mem/lib.c
kernel_memmove(m, d, s, n) == IF d < s THEN memcpy(m, d, s, n) ELSE backwards(m, d, s, n)

\* The first place from a where P is true of the byte; the callers see that
\* there is one.
first_where(a, P(_)) == CHOOSE i \in a .. TEXT_SIZE : P(i) /\ \A j \in a .. i - 1 : ~P(j)

ends(m, a) == \E i \in a .. TEXT_SIZE - 1 : m[i] = NUL
strlen(m, a) == first_where(a, LAMBDA i : m[i] = NUL) - a

strncmp(m, a, b, n) ==
    LET i == first_where(0, LAMBDA k : k = n \/ m[a + k] = NUL \/ m[a + k] # m[b + k])
    IN  IF i = n THEN 0 ELSE m[a + i] - m[b + i]
strcmp(m, a, b) ==
    LET i == first_where(0, LAMBDA k : m[a + k] = NUL \/ m[a + k] # m[b + k])
    IN  m[a + i] - m[b + i]
ascii_lower(c) == IF c = 2 THEN 3 ELSE c
strcasecmp(m, a, b) == strcmp([i \in Places |-> ascii_lower(m[i])], a, b)

strcpy(m, d, s) == memcpy(m, d, s, strlen(m, s) + 1)
strncpy(m, d, s, n) ==
    LET k == IF strlen(m, s) < n THEN strlen(m, s) ELSE n
    IN  memset(memcpy(m, d, s, k), d + k, NUL, n - k)

copy_length(length, size) == IF length < size - 1 THEN length ELSE size - 1
strlcpy(m, d, s, size) ==
    LET k == copy_length(strlen(m, s), size)
    IN  IF size = 0 THEN m ELSE memset(memcpy(m, d, s, k), d + k, NUL, 1)
strlcat(m, d, s, size) ==
    IF strlen(m, d) < size THEN strlcpy(m, d + strlen(m, d), s, size - strlen(m, d)) ELSE m
strcat(m, d, s) == strcpy(m, d + strlen(m, d), s)

\* -1 stands for NULL.
strchr(m, a, c) ==
    LET i == first_where(a, LAMBDA k : m[k] = c \/ m[k] = NUL) IN IF m[i] = c THEN i ELSE -1
strrchr(m, a, c) ==
    LET S == {i \in a .. a + strlen(m, a) : m[i] = c}
    IN  IF S = {} THEN -1 ELSE CHOOSE i \in S : \A j \in S : j <= i
memchr(m, a, c, n) ==
    LET i == first_where(a, LAMBDA k : k = a + n \/ m[k] = c) IN IF i = a + n THEN -1 ELSE i
memcmp(m, a, b, n) ==
    LET i == first_where(0, LAMBDA k : k = n \/ m[a + k] # m[b + k])
    IN  IF i = n THEN 0 ELSE m[a + i] - m[b + i]

\* strstr looks for the needle at every place before the end.
strstr(m, a, b) ==
    LET n == strlen(m, b)
        i == first_where(a, LAMBDA k : m[k] = NUL \/ strncmp(m, k, b, n) = 0)
    IN  IF n = 0 THEN a ELSE IF m[i] = NUL THEN -1 ELSE i
-----------------------------------------------------------------------------
\* screen/lib/string.c
str_append(m, d, s) == memcpy(m, d + strlen(m, d), s, strlen(m, s) + 1)
str_equals(m, a, b) ==
    LET i == first_where(0, LAMBDA k : m[a + k] = NUL \/ m[b + k] = NUL \/ m[a + k] # m[b + k])
    IN  m[a + i] = m[b + i]
str_starts_with(m, a, b) ==
    LET i == first_where(0, LAMBDA k : m[b + k] = NUL \/ m[a + k] # m[b + k])
    IN  m[b + i] = NUL
str_reverse(m, a) ==
    LET n == strlen(m, a)
    IN  [i \in Places |-> IF i \in a .. a + n - 1 THEN m[a + n - 1 - (i - a)] ELSE m[i]]

tries(n, k) == 0 .. n - k
str_contains(m, a, b) ==
    \E i \in tries(strlen(m, a), strlen(m, b)) :
        \A j \in 0 .. strlen(m, b) - 1 : m[a + i + j] = m[b + j]

\* str_trim: the last byte that stays is looked for from the end; with
\* nothing left it lies before the first.
str_trim(m, a) ==
    LET start == first_where(a, LAMBDA k : m[k] # BLANK)
        stop  == a + strlen(m, a) - 1
        S     == {k \in start .. stop : m[k] # BLANK \/ k = start}
        end   == IF S = {} THEN start - 1 ELSE CHOOSE k \in S : \A j \in S : j <= k
    IN  memset(memcpy(m, a, start, end - start + 1), a + end - start + 1, NUL, 1)

TextNext ==
    \/ \E d, s \in DOMAIN array : \E n \in 0 .. TEXT_SIZE - (IF d > s THEN d ELSE s) :
           array' = memmove(array, d, s, n)
    \/ \E a \in DOMAIN array : ends(array, a) /\ array' = str_trim(array, a)

TextSpec == TextInit /\ [][TextNext]_array
-----------------------------------------------------------------------------
TextAt(m, a) == [i \in 1 .. strlen(m, a) |-> m[a + i - 1]]

\* Both moves copy as if through a buffer, whichever way the two ranges
\* overlap.
MovesWhole ==
    \A d, s \in DOMAIN array : \A n \in 0 .. TEXT_SIZE - (IF d > s THEN d ELSE s) :
        LET moved == [i \in DOMAIN array |-> IF i \in d .. d + n - 1 THEN array[s + (i - d)] ELSE array[i]]
        IN  memmove(array, d, s, n) = moved /\ kernel_memmove(array, d, s, n) = moved

\* The bounded copies write inside the destination only, end it with NUL and
\* keep the beginning of what they were given; with room enough every way to
\* append gives both texts.  Trimming takes nothing but blanks, reversing
\* twice nothing at all, both in place.
CopiesStayInside ==
    \A a \in DOMAIN array : ends(array, a) =>
    /\ \A d \in 0 .. a - 1 : \A size \in 0 .. a - d :
         LET t == TextAt(array, a)
             m == strlcpy(array, d, a, size)
         IN  /\ \A i \in DOMAIN array : m[i] # array[i] => i \in d .. d + size - 1
             /\ size > 0 => /\ ends(m, d) /\ strlen(m, d) < size
                            /\ TextAt(m, d) = SubSeq(t, 1, strlen(m, d))
                            /\ Len(t) < size => TextAt(m, d) = t
             /\ ends(array, d) =>
                LET c == strlcat(array, d, a, size)
                IN  /\ \A i \in DOMAIN array : c[i] # array[i] => i \in d .. d + size - 1
                    /\ strlen(array, d) < size => ends(c, d) /\ strlen(c, d) < size
             /\ \A i \in DOMAIN array : strncpy(array, d, a, size)[i] # array[i] => i \in d .. d + size - 1
             /\ ends(array, d) /\ strlen(array, d) + Len(t) < size =>
                /\ TextAt(strcat(array, d, a), d) = TextAt(array, d) \o t
                /\ str_append(array, d, a) = strcat(array, d, a)
                /\ strlcat(array, d, a, size) = strcat(array, d, a)
    /\ LET t == TextAt(array, a)
           u == TextAt(str_trim(array, a), a)
           r == str_reverse(array, a)
       IN  /\ u # <<>> => u[1] # BLANK /\ u[Len(u)] # BLANK
           /\ \E i \in 0 .. Len(t) : \E j \in i .. Len(t) :
                /\ u = SubSeq(t, i + 1, j)
                /\ \A k \in 1 .. Len(t) : k <= i \/ k > j => t[k] = BLANK
           /\ str_reverse(r, a) = array /\ strlen(r, a) = Len(t)

\* Every way to compare and to search says the same of two texts: equal, one
\* before the other, one inside the other.
SearchesAgree ==
    \A a, b \in DOMAIN array : ends(array, a) /\ ends(array, b) =>
    LET s == TextAt(array, a)
        t == TextAt(array, b)
        inside == \E i \in 0 .. Len(s) - Len(t) : SubSeq(s, i + 1, i + Len(t)) = t
        common == Len(t) <= Len(s) /\ SubSeq(s, 1, Len(t)) = t
    IN  /\ (strcmp(array, a, b) = 0) = (s = t) /\ str_equals(array, a, b) = (s = t)
        /\ (strcmp(array, a, b) < 0) = (strcmp(array, b, a) > 0)
        /\ (strncmp(array, a, b, Len(t)) = 0) = common /\ str_starts_with(array, a, b) = common
        /\ (strstr(array, a, b) >= 0) = inside /\ str_contains(array, a, b) = inside
        /\ (memcmp(array, a, b, Len(t) + 1) = 0) = (s = t)
        /\ s = t => strcasecmp(array, a, b) = 0
        /\ \A c \in Chars : /\ strchr(array, a, c) <= strrchr(array, a, c)
                            /\ strchr(array, a, c) = memchr(array, a, c, Len(s) + 1)

\* The string functions do what their names say, in place and at every
\* boundary.
TextSound == MovesWhole /\ CopiesStayInside /\ SearchesAgree
=============================================================================
