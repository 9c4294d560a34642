-------------------------------- MODULE Utf8 --------------------------------
(***************************************************************************)
(* Characters as bytes (src/src/utf8-utils.c).  A byte below 192 stands    *)
(* for itself, whether it is ASCII or a stray continuation byte.           *)
(***************************************************************************)
EXTENDS Integers, SequencesExt

\* How many bytes a character has that starts with C.
utf8_code_point_size(c) ==
  CASE c \in 192 .. 223 -> 2
    [] c \in 224 .. 239 -> 3
    [] c \in 240 .. 247 -> 4
    [] c \in 248 .. 251 -> 5
    [] c \in 252 .. 253 -> 6
    [] OTHER -> 1

\* The bytes of the character C.
utf32_to_utf8_1(c) ==
  LET more(i) == 128 + ((c \div 64 ^ i) % 64)
  IN CASE c < 128 -> <<c>>
       [] c \in 128 .. 2047 -> <<192 + c \div 64, more(0)>>
       [] c \in 2048 .. 65535 -> <<224 + c \div 4096, more(1), more(0)>>
       [] c \in 65536 .. 2097151 -> <<240 + c \div 262144, more(2), more(1), more(0)>>
       [] OTHER -> <<>>

\* The character that the bytes S are, all of them there.
CodePoint(s) ==
  LET add(u, c) == u * 64 + (c % 64)
  IN IF s[1] < 192 THEN s[1] ELSE FoldLeft(add, s[1] % 2 ^ (7 - Len(s)), Tail(s))

\* Where the pointer is when k - 1 characters have been skipped; it stays when
\* it is at the end or, the last character being cut off, past it.
Stops(s) ==
  LET skip[i \in 1 .. Len(s) + 6, count \in 0 .. Len(s)] ==
        IF count = 0 \/ i > Len(s) THEN i ELSE skip[i + utf8_code_point_size(s[i]), count - 1]
  IN [k \in 1 .. Len(s) + 1 |-> skip[1, k - 1]]
Begun(s) == LET at == Stops(s) IN Cardinality({k \in 1 .. Len(s) : at[k] <= Len(s)})

\* A character that is cut off does not count.
utf8_string_size(s) == IF Stops(s)[Len(s) + 1] > Len(s) + 1 THEN Begun(s) - 1 ELSE Begun(s)

\* The position after COUNT characters, or 0 if there are fewer.
utf8_skip_characters(s, count) == IF count <= Begun(s) THEN Stops(s)[count + 1] ELSE 0

utf8_to_utf32(s) ==
  LET at == Stops(s)
  IN [k \in 1 .. utf8_string_size(s) |-> CodePoint(SubSeq(s, at[k], at[k] + utf8_code_point_size(s[at[k]]) - 1))]

utf32_to_utf8(u) == FlattenSeq([k \in DOMAIN u |-> utf32_to_utf8_1(u[k])])
=============================================================================
