------------------------------- MODULE Format --------------------------------
(***************************************************************************)
(* Numbers and text: vsnprintf and sscanf of user/libc/src/stdio.c, printf *)
(* of printf.c, atoi of stdlib.c, and the conversions of the kernel in     *)
(* screen/lib/string.c and communication/serial.c.                         *)
(*                                                                         *)
(* A character is a number, a digit its value; the case of letters is left *)
(* out.  A format is a sequence of directives, as the loop that reads the  *)
(* flag, width and precision leaves them.                                  *)
(***************************************************************************)
EXTENDS Integers, Sequences

CONSTANTS
    INT_BITS,       \* bits of an int
    HEX_DIGITS,     \* digits print_hexa32 prints
    TEMP_SIZE,      \* 11, the array of IntToString: the digits of the largest
                    \* int and a terminator
    Formats,        \* sequences of [conv, zero, width, precision, arg]
    Capacities      \* sizes of buffers

ASSUME FormatAssumption ==
    /\ INT_BITS \in Nat \ {0} /\ HEX_DIGITS \in Nat /\ INT_BITS = 4 * HEX_DIGITS
    /\ TEMP_SIZE \in Nat \ {0, 1, 2}
    /\ Capacities \subseteq Nat
    /\ \A f \in Formats :
         f \in Seq([conv : STRING, zero : BOOLEAN, width : Nat, precision : Int, arg : Int])

MINUS == 20
SPACE == 21
END == 22           \* NUL
LETTER_X == 23
PERCENT == 24
UNWRITTEN == 25
Digits == 0 .. 9

VARIABLES
    format,         \* the format and its arguments, constant
    buffer,         \* what vsnprintf wrote
    returned        \* what it returned, -1 before

fmtvars == <<format, buffer, returned>>

FormatInit == format \in Formats /\ buffer = <<>> /\ returned = -1

repeated(c, n) == [i \in 1 .. n |-> c]
flipped(s) == [i \in 1 .. Len(s) |-> s[Len(s) + 1 - i]]
unsigned(v) == v % 2 ^ INT_BITS

\* The loops that take the last digit off: the digits from the last one.
reversed(value, base) ==
    LET r[v \in 0 .. value] == IF v < base THEN <<v>> ELSE <<v % base>> \o r[v \div base]
    IN  r[value]
-----------------------------------------------------------------------------
\* stdio.c.  What emit_number emits.
\* Fault: the sign goes in front of the blanks.
emit_number_sign(value, base, negative, width, precision, zero) ==
    LET digits == flipped(reversed(value, base))
        sign   == IF negative THEN <<MINUS>> ELSE <<>>
        zeroes == IF precision > Len(digits) THEN precision - Len(digits) ELSE 0
        total  == Len(digits) + zeroes + Len(sign)
        pad    == IF total < width THEN width - total ELSE 0
    IN  sign \o repeated(IF zero THEN 0 ELSE SPACE, pad) \o repeated(0, zeroes) \o digits

emit_number(value, base, negative, width, precision, zero) ==
    LET digits == flipped(reversed(value, base))
        sign   == IF negative THEN <<MINUS>> ELSE <<>>
        zeroes == IF precision > Len(digits) THEN precision - Len(digits) ELSE 0
        total  == Len(digits) + zeroes + Len(sign)
        pad    == IF total < width THEN width - total ELSE 0
    IN  IF zero /\ precision < 0 THEN sign \o repeated(0, pad) \o digits
        ELSE repeated(SPACE, pad) \o sign \o repeated(0, zeroes) \o digits

directive(d) ==
    CASE d.conv = "d" -> emit_number(IF d.arg < 0 THEN -d.arg ELSE d.arg, 10, d.arg < 0,
                                     d.width, d.precision, d.zero)
      [] d.conv = "u" -> emit_number(unsigned(d.arg), 10, FALSE, d.width, d.precision, d.zero)
      [] d.conv = "x" -> emit_number(unsigned(d.arg), 16, FALSE, d.width, d.precision, d.zero)
      [] d.conv = "p" -> <<0, LETTER_X>> \o emit_number(unsigned(d.arg), 16, FALSE, 0, -1, FALSE)
      [] d.conv = "s" -> repeated(LETTER_X, IF d.precision < 0 \/ d.arg < d.precision
                                            THEN d.arg ELSE d.precision)
      [] d.conv = "c" -> <<d.arg>>
      [] OTHER        -> <<PERCENT>>

\* All that is emitted for a format, whether there is room or not.
emitted(f) ==
    LET e[i \in 0 .. Len(f)] == IF i = 0 THEN <<>> ELSE e[i - 1] \o directive(f[i]) IN e[Len(f)]

room(position, capacity) == capacity > 0 /\ position + 1 < capacity
emit(data, capacity, position, c) ==
    IF room(position, capacity) THEN [data EXCEPT ![position + 1] = c] ELSE data

terminator(position, size) == IF position < size THEN position ELSE size - 1

vsnprintf(size, f) ==
    LET text == emitted(f)
        e[i \in 0 .. Len(text)] ==
            IF i = 0 THEN repeated(UNWRITTEN, size) ELSE emit(e[i - 1], size, i - 1, text[i])
    IN  [data |-> IF size = 0 THEN <<>>
                  ELSE [e[Len(text)] EXCEPT ![terminator(Len(text), size) + 1] = END],
         result |-> Len(text)]

\* vfprintf: what goes to write.
vfprintf_bytes(size, f) ==
    LET r == vsnprintf(size, f)
    IN  SubSeq(r.data, 1, IF r.result < size THEN r.result ELSE size - 1)

snprintf(size) ==
    /\ returned = -1
    /\ buffer' = vsnprintf(size, format).data /\ returned' = vsnprintf(size, format).result
    /\ UNCHANGED format

\* A number from the i-th character of s on: the digits up to the first other
\* character.
digits_from(s, i) ==
    LET d == {k \in i .. Len(s) : \A j \in i .. k : s[j] \in Digits}
        v[k \in i - 1 .. Len(s)] == IF k = i - 1 THEN 0 ELSE v[k - 1] * 10 + s[k]
        n == i + (CHOOSE m \in 0 .. Len(s) : d = i .. i + m - 1) - 1
    IN  v[n]
after_blanks(s) ==
    CHOOSE i \in 1 .. Len(s) + 1 : (i > Len(s) \/ s[i] # SPACE) /\ \A j \in 1 .. i - 1 : s[j] = SPACE

\* sscanf of " %d", atoi and str_to_int, which also takes a plus.
sscanf(s) ==
    LET i == after_blanks(s)
        n == i <= Len(s) /\ s[i] = MINUS
        k == IF n THEN i + 1 ELSE i
    IN  IF k > Len(s) \/ s[k] \notin Digits THEN [assigned |-> 0, value |-> 0]
        ELSE [assigned |-> 1, value |-> (IF n THEN -1 ELSE 1) * digits_from(s, k)]
atoi(s) ==
    LET i == after_blanks(s)
        n == i <= Len(s) /\ s[i] = MINUS
    IN  (IF n THEN -1 ELSE 1) * digits_from(s, IF n THEN i + 1 ELSE i)
-----------------------------------------------------------------------------
\* The kernel's conversions.  They negate as an int: the least int has no
\* counterpart and stays what it is, which is what the instruction does with
\* an overflow the language leaves undefined.
INT_MIN == -(2 ^ (INT_BITS - 1))
magnitude(v) == IF v < 0 /\ v # INT_MIN THEN -v ELSE v
sign_of(v) == IF v < 0 THEN <<MINUS>> ELSE <<>>

\* No digit of a number below zero is taken.
str_from_int(v) ==
    LET m == magnitude(v)
    IN  IF v = 0 THEN <<0>>
        ELSE flipped((IF m > 0 THEN reversed(m, 10) ELSE <<>>) \o sign_of(v))
\* What is left of u after n divisions, and how many digits it has.
divided(u, base, n) == LET c[k \in 0 .. n] == IF k = 0 THEN u ELSE c[k - 1] \div base IN c[n]
digit_count(u) == LET c[v \in 0 .. u] == IF v < 10 THEN 1 ELSE 1 + c[v \div 10] IN c[u]
\* Digits are counted first and then filled in from the last.
str_append_uint(u) == [i \in 1 .. digit_count(u) |-> divided(u, 10, digit_count(u) - i) % 10]
\* One digit is always taken, with the sign of the number; the digits, the sign
\* and at last the terminator go into temp.
IntToString(v) ==
    LET m    == magnitude(v)
        temp == (IF m >= 0 THEN reversed(m, 10) ELSE <<-((-m) % 10)>>) \o sign_of(v)
    IN  [text |-> [j \in 1 .. Len(temp) |-> temp[Len(temp) - j + 1]], terminated_at |-> Len(temp)]
str_from_hex(u) == IF u = 0 THEN <<0>> ELSE flipped(reversed(u, 16))
\* serial.c: the sign first, then the digits; the short form has all of them.
print_u64(u, base) == IF u = 0 THEN <<0>> ELSE flipped(reversed(u, base))
print_i64(v) == IF v < 0 THEN <<MINUS>> \o print_u64(-v, 10) ELSE print_u64(v, 10)
hexa32_nibble(i) == HEX_DIGITS - i
print_hexa32(u) == [i \in 1 .. HEX_DIGITS |-> divided(u, 16, hexa32_nibble(i)) % 16]
\* printf.c
print_uint(u, base) == IF u = 0 THEN <<0>> ELSE flipped(reversed(u, base))
print_int(v) == IF v < 0 THEN <<MINUS>> \o print_uint(-v, 10) ELSE print_uint(v, 10)

FormatNext == \E size \in Capacities : snprintf(size)

FormatSpec == FormatInit /\ [][FormatNext]_fmtvars
-----------------------------------------------------------------------------
\* snprintf leaves a terminated text that is the beginning of what it was
\* asked for, touches nothing behind it, and says how long the whole is.
SnprintfTruncates ==
    returned >= 0 =>
    LET text == emitted(format)
        kept == IF Len(text) < Len(buffer) THEN Len(text) ELSE Len(buffer) - 1
    IN  /\ returned = Len(text)
        /\ buffer # <<>> =>
           /\ SubSeq(buffer, 1, kept) = SubSeq(text, 1, kept)
           /\ buffer[kept + 1] = END
           /\ \A i \in kept + 2 .. Len(buffer) : buffer[i] = UNWRITTEN
           /\ vfprintf_bytes(Len(buffer), format) = SubSeq(text, 1, kept)

\* A number printed with any width, precision and padding reads back as the
\* number, and is as wide as was asked for.  The least int is left out, as
\* sscanf overflows on it.
ReadsBack ==
    returned >= 0 /\ Len(format) = 1 /\ format[1].conv = "d" /\ Len(buffer) > returned
    /\ format[1].arg # INT_MIN =>
    LET d == format[1]
        s == SubSeq(buffer, 1, returned)
    IN  /\ sscanf(s) = [assigned |-> 1, value |-> d.arg] /\ atoi(s) = d.arg
        /\ returned >= d.width /\ returned >= d.precision

\* Of the nine ways to print a number, those of one base print the same text.
\* The least int is the exception: str_from_int prints its sign alone, and
\* IntToString a character that is no digit.  The array of IntToString is too
\* short by one for exactly the other numbers whose text fills it, the negative
\* ones of ten digits: their terminator goes past its end.
PrintersAgree ==
    returned >= 0 => \A i \in DOMAIN format :
    LET v == format[i].arg
        u == unsigned(v)
        plain(c) == directive([format[i] EXCEPT !.conv = c, !.width = 0, !.precision = -1])
    IN  /\ print_int(v) = plain("d") /\ print_i64(v) = plain("d")
        /\ v # INT_MIN => str_from_int(v) = plain("d") /\ IntToString(v).text = plain("d")
        /\ IntToString(v).terminated_at < TEMP_SIZE <=> v = INT_MIN \/ Len(plain("d")) < TEMP_SIZE
        /\ str_append_uint(u) = plain("u") /\ print_uint(u, 10) = plain("u")
        /\ str_from_hex(u) = plain("x") /\ print_u64(u, 16) = plain("x")
        /\ print_hexa32(u) = directive([format[i] EXCEPT !.conv = "x", !.width = HEX_DIGITS,
                                        !.precision = -1, !.zero = TRUE])
=============================================================================
