---------------------------- MODULE StringsProps ----------------------------
(***************************************************************************)
(* What the functions of Strings promise, with sequences of characters as  *)
(* the reference.                                                          *)
(***************************************************************************)
EXTENDS Strings

\* What a string says: its bytes, and the characters they stand for.
Octets(s) == IF s.form = "copy" /\ s.dirty THEN utf32_to_utf8(s.data) ELSE s.bytes
Letters(s) == utf8_to_utf32(Octets(s))
\* The bytes are UTF-8: written again they are the same.
Valid(s) == utf32_to_utf8(Letters(s)) = Octets(s)

\* The number and the copy of the characters are those of the bytes; a pattern
\* in the cache is there and was compiled from what it says.
CachesAgree ==
  /\ \A s \in {str[o] : o \in Str} :
       /\ s.form = "count" => s.n = utf8_string_size(s.bytes)
       /\ s.form = "copy" /\ ~s.dirty => s.data = utf8_to_utf32(s.bytes)
  /\ \A o \in {p, q, match.s} \ {NoStr} : str[o].live
  /\ ~crashed => \A c \in ToSet(cached_regexps) : str[c.re].live /\ c.prog = Octets(str[c.re])

\* What a call that gives something, R, should have given.
Looking(r) ==
  LET s == str[r.args[1]] t == Letters(s) IN
  CASE r.fn = "string-length" -> r.val = Len(t)
    [] r.fn = "string-ref" -> r.val = IF r.args[2] < Len(t) THEN t[r.args[2] + 1] ELSE -1
    [] r.fn = "put" ->
         LET count == r.args[2] IN
         /\ r.val.count = IF count < 0 THEN Len(t) ELSE Min({count, Len(t)})
         \* of an ASCII string everything is written
         /\ r.val.bytes = IF \A i \in DOMAIN t : t[i] < 128 THEN Len(t) ELSE Len(utf32_to_utf8(SubSeq(t, 1, r.val.count)))
    [] OTHER -> TRUE
LookingAtBytes(r) ==
  LET b == Octets(str[r.args[1]]) IN
  CASE r.fn = "byte-string-length" -> r.val = Len(b)
    [] r.fn = "byte-string-ref" -> r.val = IF r.args[2] < Len(b) THEN b[r.args[2] + 1] ELSE -1
    [] OTHER -> TRUE

\* The part of SEQ from I to before J, if that is a part; a J beyond the end is
\* not refused.
Part(seq, i, j, val, Content(_), beyond) ==
  CASE i > Len(seq) \/ j \in 0 .. i - 1 -> val = "error"
    [] i <= Len(seq) /\ j > Len(seq) -> val = beyond
    [] OTHER -> val \in Str /\ Content(str'[val]) = SubSeq(seq, i + 1, IF j < 0 THEN Len(seq) ELSE j)
Parts(r) ==
  LET s == str[r.args[1]]
      beyond == IF Len(Letters(s)) = Len(Octets(s)) THEN "overrun" ELSE "null"
  IN CASE r.fn = "substring" -> Valid(s) => Part(Letters(s), r.args[2], r.args[3], r.val, Letters, beyond)
       [] r.fn = "byte-substring" -> Part(Octets(s), r.args[2], r.args[3], r.val, Octets, "overrun")
       [] r.fn = "string->immutable-string" -> Octets(str'[r.val]) = Octets(s) /\ ~str'[r.val].writable
       [] OTHER -> TRUE

Joined(r) ==
  LET text(a) == IF a.k = "string" THEN Octets(str[a.v]) ELSE utf32_to_utf8(a.v) IN
  CASE r.fn = "concat" /\ r.val # "error" ->
         Octets(str'[r.val]) = FlattenSeq([i \in DOMAIN r.args |-> text(r.args[i])])
    [] r.fn = "make-string" -> Letters(str'[r.val]) = [i \in 1 .. r.args[1] |-> r.args[2]]
    [] r.fn = "string-map" /\ r.val # "error" -> Letters(str'[r.val]) = r.args[2]
    [] OTHER -> TRUE

\* Bytes are compared, with those above 127 before all others.
Ordered(a, b) ==
  LET Key(s) == [i \in DOMAIN s |-> (s[i] + 128) % 256]
      x == Key(a)
      y == Key(b)
  IN \/ IsPrefix(x, y) /\ x # y
     \/ \E i \in DOMAIN x \cap DOMAIN y : x[i] < y[i] /\ SubSeq(x, 1, i - 1) = SubSeq(y, 1, i - 1)
Folded(s) == [i \in DOMAIN s |-> IF s[i] \in 97 .. 122 THEN s[i] - 32 ELSE s[i]]
Comparison(r) ==
  LET Key(o) == IF r.args[3] THEN Folded(Octets(str[o])) ELSE Octets(str[o])
      a == Key(r.args[1])
      b == Key(r.args[2])
  IN r.val = [eq |-> a = b, lt |-> Ordered(a, b), le |-> ~Ordered(b, a), gt |-> Ordered(b, a), ge |-> ~Ordered(a, b)]
Completed(r) ==
  LET Key(o) == IF r.args[2] THEN Folded(Octets(str[o])) ELSE Octets(str[o])
      hits == {Key(o) : o \in {c \in ToSet(r.args[1]) : IsPrefix(Key(p), Key(c))}}
  IN IF hits = {} THEN r.val = "nil"
     ELSE LET new == Octets(str'[r.val]) IN
          (IF r.args[2] THEN Folded(new) ELSE new) = LongestCommonPrefix(hits)

\* A match is one with what the pattern says now, and is found where it was
\* until the string that was matched has got new memory.
Matched(r) ==
  CASE r.fn \in {"string-match", "string-looking-at"} ->
         LET b == Octets(str[r.args[2]])
             at == {i \in r.args[3] .. Len(b) : IsPrefix(Octets(str[r.args[1]]), SubSeq(b, i + 1, Len(b)))}
         IN r.val = IF r.fn = "string-match" THEN at # {} ELSE r.args[3] \in at
    [] r.fn \in {"match-start", "match-end"} -> r.val = Stray => str'[match.s].moved
    [] OTHER -> TRUE

\* The string that a call changes, and what it should say then.
Target(r) == IF r.fn \in {"string-set!", "byte-string-set!", "translate-string!", "translate-byte-string!"} THEN {r.args[1]} ELSE {}
Changed(r) ==
  LET s == str[r.args[1]] t == Letters(s) b == Octets(s) n == str'[r.args[1]]
      Map(u, table, limit) == [i \in DOMAIN u |-> IF u[i] < limit /\ u[i] < Len(table) THEN table[u[i] + 1] ELSE u[i]]
  IN IF r.val = "error" THEN Octets(n) = b
     ELSE CASE r.fn = "string-set!" -> Valid(s) => Letters(n) = [t EXCEPT ![r.args[2] + 1] = r.args[3]] /\ Valid(n)
            [] r.fn = "byte-string-set!" -> Octets(n) = [b EXCEPT ![r.args[2] + 1] = r.args[3]]
            [] r.fn = "translate-string!" /\ r.args[2] # r.args[1] ->
                 Valid(s) /\ Valid(str[r.args[2]]) => Letters(n) = Map(t, Letters(str[r.args[2]]), 2097152)
            [] r.fn = "translate-byte-string!" /\ r.args[2] # r.args[1] -> Octets(n) = Map(b, Octets(str[r.args[2]]), 128)
            [] OTHER -> TRUE

StringOps ==
  {"string-length", "string-ref", "put", "byte-string-length", "byte-string-ref"}
\* In whatever form a string is held, however often it has been changed,
\* written back by the collector or walked by string-map whose function changes
\* it: the functions see one text, give what they should of it, and change no
\* string but the one they are to; what was compiled from a string that has
\* changed since is not used again.  Bytes that are no UTF-8 are excepted where
\* characters are asked for, and, as the code has it: an end beyond the string
\* makes substring read past it, string order puts bytes above 127 first,
\* translate-byte-string! leaves them, and of an ASCII string everything is
\* written.  (strings.c: 216 flatten_utf32, 245 ensure_utf32, 298
\* collect_utf32; find.c:109 rep_invalidate_string)
StringsRight ==
  [][LET r == said' IN
     /\ CachesAgree'
     /\ \A o \in Str \ Target(r) : str[o].live /\ str'[o].live => Octets(str'[o]) = Octets(str[o])
     /\ r.fn \in StringOps => (Valid(str[r.args[1]]) => Looking(r)) /\ LookingAtBytes(r)
     /\ r.fn \in {"substring", "byte-substring", "string->immutable-string"} => Parts(r)
     /\ Joined(r) /\ Matched(r)
     /\ r.fn = "compare" => Comparison(r)
     /\ r.fn = "string-prefix?" => r.val = IsPrefix(Octets(str[q]), Octets(str[p]))
     /\ r.fn = "complete-string" => Completed(r)
     /\ r.fn = "call" /\ r.val # <<>> =>
          \A i \in DOMAIN r.args[1] :
            LET s == str[r.args[1][i]] IN Valid(s) => r.val[i] = Letters(s)[r.args[2] + 1]
     /\ Target(r) # {} => Changed(r)]_stringsVars
=============================================================================
