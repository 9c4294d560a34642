------------------------------- MODULE Strings -------------------------------
(***************************************************************************)
(* Strings of librep (src/src/strings.c) and the cache of compiled regular *)
(* expressions that is keyed by them (src/src/find.c).                     *)
(*                                                                         *)
(* A string keeps its text as UTF-8 bytes and, as it is used, the number   *)
(* of its characters or a copy of them as an array, which string-set!      *)
(* changes alone and the next user of the bytes, or the collector, writes  *)
(* back.  Strings hold no NUL here, so the C functions that stop at one    *)
(* see them whole; memory does not run out.  Patterns are literal: the     *)
(* matcher (regexp.c) is external.                                         *)
(***************************************************************************)
EXTENDS Utf8

CONSTANTS
  Str,           \* memory for string objects
  NullString,    \* null_string_const, one of them
  NoStr,         \* none of them
  Chr,           \* characters that programs store
  Octet,         \* bytes that they store
  Position,      \* indices that they use
  Limits,        \* values of regexp_cache_limit, in patterns
  UTF32_TTL,     \* 4 in the code
  Openings,      \* the texts of the two strings that a program starts with, or <<>>
  MaxUses,       \* bound on the calls that a program makes
  Verdicts,      \* the characters that a function given to string-map returns
  MaxInner       \* bound on what the function does in all of its calls

ASSUME StringsAssumption ==
  /\ NullString \in Str /\ NoStr \notin Str
  /\ UTF32_TTL \in Nat \ {0} /\ Limits \subseteq Nat \ {0}

VARIABLES
  str,           \* the string objects
  p, q,          \* variables of the program
  walk,          \* string-map or string-for-each in progress, or Resting
  cached_regexps, regexp_cache_limit,
  match,         \* last_match_data and last_matches
  uses,          \* calls made
  said,          \* the call of the last step: function, arguments and value
  crashed

stringsVars == <<str, p, q, walk, cached_regexps, regexp_cache_limit, match, uses, said, crashed>>

\* moved: the bytes have been reallocated since they were last matched against
Unused ==
  [live |-> FALSE, bytes |-> <<>>, form |-> "none", n |-> 0, data |-> <<>>, dirty |-> FALSE, ttl |-> 0,
   writable |-> TRUE, regexp |-> FALSE, moved |-> FALSE]
rep_box_string(bytes) == [Unused EXCEPT !.live = TRUE, !.bytes = bytes]
rep_null_string == [rep_box_string(<<>>) EXCEPT !.writable = FALSE]

Resting == [fn |-> "none", args |-> <<>>, len |-> 0, ret |-> <<>>, inner |-> 0]
NoMatch == [s |-> NoStr, from |-> 0, to |-> 0]
Stray == -2
Silence == [fn |-> "none", args |-> <<>>, val |-> "undefined"]

------------------------------------------------------------------------------
\* The three forms of a string: form is that of utf32_data.

length_utf32(s) ==
  IF s.form = "none" THEN [s EXCEPT !.form = "count", !.n = utf8_string_size(s.bytes)] ELSE s
CountOf(s) == IF s.form = "copy" THEN Len(s.data) ELSE s.n
ascii_string_p(s) == CountOf(s) = Len(s.bytes)

flatten_utf32(s) ==
  IF s.form = "copy" /\ s.dirty
  THEN [s EXCEPT !.bytes = utf32_to_utf8(s.data), !.dirty = FALSE, !.moved = TRUE]
  ELSE s

\* The copy, which an ASCII string gets only by force.
ensure_utf32(s, force) ==
  LET c == length_utf32(s) IN
  IF s.form = "copy" THEN [s EXCEPT !.ttl = UTF32_TTL]
  ELSE IF ~force /\ ascii_string_p(c) THEN c
  ELSE [s EXCEPT !.form = "copy", !.n = 0, !.data = utf8_to_utf32(s.bytes), !.dirty = FALSE, !.ttl = UTF32_TTL]

free_utf32(s) ==
  IF s.form = "copy"
  THEN [s EXCEPT !.form = "count", !.n = Len(s.data), !.data = <<>>, !.dirty = FALSE, !.ttl = 0]
  ELSE s
flatten_and_free_utf32(s) == free_utf32(flatten_utf32(s))
collect_utf32(s) ==
  IF s.form # "copy" THEN s
  ELSE IF s.ttl <= 1 THEN flatten_and_free_utf32(s) ELSE [s EXCEPT !.ttl = @ - 1]

rep_string_set_ascii(s) == IF s.form = "none" THEN [s EXCEPT !.form = "count", !.n = Len(s.bytes)] ELSE s
\* rep_STR() and rep_STRING_LEN() alike
rep_string_ptr(s) == flatten_utf32(s)
rep_string_mutable_ptr_KeepsCount(s) == flatten_and_free_utf32(s)
rep_string_mutable_ptr(s) == [flatten_and_free_utf32(s) EXCEPT !.form = "none", !.n = 0]

------------------------------------------------------------------------------
\* Calls.

May(inner) == ~crashed /\ IF walk = Resting THEN uses < MaxUses ELSE inner /\ walk.inner < MaxInner
Tally ==
  IF walk = Resting THEN uses' = uses + 1 /\ walk' = walk
  ELSE uses' = uses /\ walk' = [walk EXCEPT !.inner = @ + 1]
Elsewhere == UNCHANGED <<cached_regexps, regexp_cache_limit, match, crashed>>
Says(fn, args, val) == said' = [fn |-> fn, args |-> args, val |-> val]

\* A call that returns VAL and leaves the strings as STRS.
Answers(fn, args, strs, val) ==
  /\ Says(fn, args, val) /\ str' = strs
  /\ Tally /\ Elsewhere /\ UNCHANGED <<p, q>>

\* A call that returns the new string S; the program keeps it in q.
Free == {o \in Str : ~str[o].live}
Makes(fn, args, strs, s) ==
  LET o == CHOOSE f \in Free : TRUE IN
  /\ Free # {}
  /\ Says(fn, args, o) /\ str' = [strs EXCEPT ![o] = s] /\ q' = o
  /\ Tally /\ Elsewhere /\ UNCHANGED p
\* One that returns an existing string.
Gives(fn, args, strs, o) == Says(fn, args, o) /\ str' = strs /\ q' = o /\ Tally /\ Elsewhere /\ UNCHANGED p
MakesOrNull(fn, args, strs, s) == IF s.bytes = <<>> THEN Gives(fn, args, strs, NullString) ELSE Makes(fn, args, strs, s)

\* A call that has changed the string O to S: what was compiled from it is
\* forgotten.  Having taken out the last pattern of the list, the loop goes on
\* from its null link.
rep_invalidate_string(o, s) ==
  LET at == {k \in DOMAIN cached_regexps : cached_regexps[k].re = o} IN
  IF ~s.regexp \/ at = {} THEN UNCHANGED <<cached_regexps, crashed>>
  ELSE /\ cached_regexps' = SelectSeq(cached_regexps, LAMBDA c : c.re # o)
       /\ crashed' = (Len(cached_regexps) \in at)
Changes(fn, args, strs, o, s) ==
  /\ Says(fn, args, "undefined") /\ str' = [strs EXCEPT ![o] = s]
  /\ rep_invalidate_string(o, s)
  /\ Tally /\ UNCHANGED <<p, q, regexp_cache_limit, match>>

Put(o, s) == [str EXCEPT ![o] = s]
Flattened == [o \in Str |-> IF o \in {p, q} THEN rep_string_ptr(str[o]) ELSE str[o]]

------------------------------------------------------------------------------
\* Reading and changing one string.

Fmake_string(n, c) ==
  Makes("make-string", <<n, c>>, str,
        [rep_box_string(utf32_to_utf8([k \in 1 .. n |-> c])) EXCEPT !.form = "count", !.n = n])

Fbyte_string_length(o) ==
  LET s == rep_string_ptr(str[o]) IN Answers("byte-string-length", <<o>>, Put(o, s), Len(s.bytes))
Fbyte_string_ref(o, i) ==
  LET s == rep_string_ptr(str[o])
  IN Answers("byte-string-ref", <<o, i>>, Put(o, s), IF i >= Len(s.bytes) THEN -1 ELSE s.bytes[i + 1])
Fstring_length(o) ==
  LET s == length_utf32(str[o]) IN Answers("string-length", <<o>>, Put(o, s), CountOf(s))

\* What string-ref finds in a string that ensure_utf32() has been applied to.
Chars(s) == IF s.form = "copy" THEN s.data ELSE s.bytes
Fstring_ref(o, i) ==
  LET s == ensure_utf32(str[o], FALSE)
  IN Answers("string-ref", <<o, i>>, Put(o, s), IF i >= Len(Chars(s)) THEN -1 ELSE Chars(s)[i + 1])

Fbyte_string_set(o, i, c) ==
  LET args == <<o, i, c>>
      s == rep_string_ptr(str[o])
  IN IF ~str[o].writable THEN Answers("byte-string-set!", args, str, "error")
     ELSE IF i >= Len(s.bytes) THEN Answers("byte-string-set!", args, Put(o, s), "error")
     ELSE Changes("byte-string-set!", args, str, o, [rep_string_mutable_ptr(s) EXCEPT !.bytes[i + 1] = c])
Fstring_set(o, i, c) ==
  LET args == <<o, i, c>>
      s == ensure_utf32(str[o], c >= 128)
  IN IF ~str[o].writable THEN Answers("string-set!", args, str, "error")
     ELSE IF i >= Len(Chars(s)) THEN Answers("string-set!", args, Put(o, s), "error")
     ELSE IF s.form # "copy" THEN Changes("string-set!", args, str, o, [s EXCEPT !.bytes[i + 1] = c])
     ELSE IF s.data[i + 1] = c THEN Answers("string-set!", args, Put(o, s), "undefined")
     ELSE Changes("string-set!", args, str, o, [s EXCEPT !.data[i + 1] = c, !.dirty = TRUE])

Fmake_string_immutable(o) ==
  Answers("make-string-immutable!", <<o>>, [str EXCEPT ![o].writable = FALSE], "undefined")
Fstring_to_immutable_string(o) ==
  LET s == rep_string_ptr(str[o])
  IN IF ~str[o].writable THEN Gives("string->immutable-string", <<o>>, str, o)
     ELSE Makes("string->immutable-string", <<o>>, Put(o, s), [rep_box_string(s.bytes) EXCEPT !.writable = FALSE])

------------------------------------------------------------------------------
\* Parts.  TO is -1 for the end.  That TO is within the string is not tested:
\* what is copied then lies past its end, and the model ends there; where TO
\* counts characters that are not there, the length is absurd and the null
\* pointer of rep_alloc() is returned.

Overruns(fn, args) ==
  Says(fn, args, "overrun") /\ crashed' = TRUE
  /\ UNCHANGED <<str, p, q, walk, cached_regexps, regexp_cache_limit, match, uses>>

substring(fn, o, start, to, character_indexes) ==
  LET s == IF character_indexes THEN length_utf32(rep_string_ptr(str[o])) ELSE rep_string_ptr(str[o])
      bytes == Len(s.bytes)
      args == <<o, start, to>>
      skip == character_indexes /\ ~ascii_string_p(s)
      p0 == utf8_skip_characters(s.bytes, start)
      p1 == utf8_skip_characters(SubSeq(s.bytes, p0, bytes), to - start)
      i0 == IF skip THEN p0 - 1 ELSE start
      i1 == IF to < 0 THEN bytes ELSE IF skip THEN i0 + p1 - 1 ELSE to
  IN IF to >= 0 /\ to < start THEN Answers(fn, args, str, "error")
     ELSE IF (skip /\ p0 = 0) \/ i0 > bytes THEN Answers(fn, args, Put(o, s), "error")
     ELSE IF skip /\ to >= 0 /\ p1 = 0 THEN Answers(fn, args, Put(o, s), "null")
     ELSE IF i1 > bytes THEN Overruns(fn, args)
     ELSE MakesOrNull(fn, args, Put(o, s), rep_box_string(SubSeq(s.bytes, i0 + 1, i1)))

\* An argument of concat is a string, a character, or a list or vector of them.
StringArg(o) == [k |-> "string", v |-> o]
CharArgs(cs) == [k |-> "chars", v |-> cs]
OtherArg == [k |-> "other", v |-> <<>>]
Concat(args) ==
  LET bad == {i \in DOMAIN args : args[i].k = "other"}
      read == IF bad = {} THEN DOMAIN args ELSE 1 .. Min(bad) - 1
      used == [o \in Str |-> IF \E i \in read : args[i] = StringArg(o) THEN rep_string_ptr(str[o]) ELSE str[o]]
      octets(a) == IF a.k = "string" THEN used[a.v].bytes ELSE utf32_to_utf8(a.v)
  IN IF bad # {} THEN Answers("concat", args, used, "error")
     ELSE MakesOrNull("concat", args, used, rep_box_string(FlattenSeq([i \in DOMAIN args |-> octets(args[i])])))

\* How many bytes rep_stream_put_utf8() writes of a string, or of its first
\* COUNT characters, and what it says it has written.
rep_stream_put_utf8(o, count) ==
  LET s == length_utf32(flatten_utf32(str[o]))
      size == Len(s.bytes)
      end == utf8_skip_characters(s.bytes, count)
      some == count >= 0 /\ ~ascii_string_p(s) /\ end > 0
  IN Answers("put", <<o, count>>, Put(o, s),
             [bytes |-> IF some THEN end - 1 ELSE size,
              count |-> CASE count < 0 -> CountOf(s)
                          [] some -> count
                          [] OTHER -> IF ascii_string_p(s) /\ count <= size THEN count ELSE CountOf(s)])

------------------------------------------------------------------------------
\* Comparison, which is of chars and they are signed.

Signed8(c) == IF c >= 128 THEN c - 256 ELSE c
Upper(c) == IF c \in 97 .. 122 THEN c - 32 ELSE c
string_compare(a, b, fold) ==
  LET key(c) == IF fold THEN Upper(c) ELSE c
      differ == {k \in DOMAIN a \cap DOMAIN b : key(a[k]) # key(b[k])}
      k == Min(differ)
  IN IF differ # {} THEN Signed8(key(a[k])) - Signed8(key(b[k])) ELSE Len(a) - Len(b)
\* Fstring_equal and the four others, at once
Compare(fold) ==
  LET c == string_compare(Flattened[p].bytes, Flattened[q].bytes, fold) IN
  Answers("compare", <<p, q, fold>>, Flattened, [eq |-> c = 0, lt |-> c < 0, le |-> c <= 0, gt |-> c > 0, ge |-> c >= 0])
Fstring_head_eq == Answers("string-prefix?", <<p, q>>, Flattened, IsPrefix(Flattened[q].bytes, Flattened[p].bytes))

\* The candidates that start like the template: the first is shortened to what
\* it has in common with each of the others.
Fcomplete_string(list, fold) ==
  LET orig == Flattened[p].bytes
      key(s) == [i \in DOMAIN s |-> IF fold THEN Upper(s[i]) ELSE s[i]]
      texts == [i \in DOMAIN list |-> Flattened[list[i]].bytes]
      hits == SelectSeq(texts, LAMBDA s : IsPrefix(key(orig), key(s)))
      shared(s) == Len(LongestCommonPrefix({key(Head(hits)), key(s)}))
      len == Min({shared(hits[i]) : i \in DOMAIN hits})
      used == [o \in Str |-> IF o = p \/ o \in ToSet(list) THEN rep_string_ptr(str[o]) ELSE str[o]]
  IN IF hits = <<>> THEN Answers("complete-string", <<list, fold>>, used, "nil")
     ELSE Makes("complete-string", <<list, fold>>, used, rep_box_string(SubSeq(Head(hits), 1, len)))

------------------------------------------------------------------------------
\* Translation, in place: a string that is its own table changes on the way.

Translated(d, table, same, limit) ==
  LET done[i \in 0 .. Len(d)] ==
        IF i = 0 THEN d
        ELSE LET e == done[i - 1]
                 t == IF same THEN e ELSE table
             IN IF e[i] < limit /\ e[i] < Len(t) THEN [e EXCEPT ![i] = t[e[i] + 1]] ELSE e
  IN done[Len(d)]

\* A byte above 127, being a negative char, is not found in any table.
Ftranslate_byte_string(o, table) ==
  LET t == rep_string_ptr(str[table])
      s == rep_string_mutable_ptr(IF o = table THEN t ELSE str[o])
  IN IF ~str[o].writable THEN Answers("translate-byte-string!", <<o, table>>, str, "error")
     ELSE Changes("translate-byte-string!", <<o, table>>, Put(table, t), o,
                  [s EXCEPT !.bytes = Translated(s.bytes, t.bytes, o = table, 128)])
Ftranslate_string(o, table) ==
  LET t == ensure_utf32(str[table], FALSE)
      d == ensure_utf32(IF o = table THEN t ELSE str[o], t.form = "copy")
      b == rep_string_mutable_ptr(d)
      new == Translated(d.data, Chars(t), o = table, 2097152)
  IN IF ~str[o].writable THEN Answers("translate-string!", <<o, table>>, str, "error")
     ELSE Changes("translate-string!", <<o, table>>, Put(table, t), o,
                  IF d.form = "copy" THEN [d EXCEPT !.data = new, !.dirty = @ \/ new # d.data]
                  ELSE rep_string_set_ascii([b EXCEPT !.bytes = Translated(b.bytes, t.bytes, o = table, 256)]))
------------------------------------------------------------------------------
\* string-map and string-for-each.  The number of calls is that of the
\* characters in the shortest string at first; each call takes its characters
\* from the strings as they are by then.

\* The strings when the j'th characters have been taken, and the characters; a
\* string that has become too short ends the taking.  (The function is called
\* even so, but not run while the error is pending, and the result is thrown
\* away.)
Taken(strs, args, j) ==
  LET take(st, o) ==
        LET s == ensure_utf32(st.strs[o], FALSE) IN
        IF ~st.ok THEN st
        ELSE [strs |-> [st.strs EXCEPT ![o] = s], ok |-> j < Len(Chars(s)),
              chars |-> IF j < Len(Chars(s)) THEN Append(st.chars, Chars(s)[j + 1]) ELSE st.chars]
  IN FoldLeft(take, [strs |-> strs, ok |-> TRUE, chars |-> <<>>], args)

\* The walk W goes on: it calls its function again or ends.
WalkOn(w, strs) ==
  LET t == Taken(strs, w.args, Len(w.ret))
      result == [rep_box_string(utf32_to_utf8(w.ret)) EXCEPT !.form = "count", !.n = w.len]
      o == IF w.ret = <<>> THEN NullString ELSE CHOOSE f \in Free : TRUE
  IN IF Len(w.ret) < w.len
     THEN /\ Says("call", <<w.args, Len(w.ret)>>, IF t.ok THEN t.chars ELSE <<>>)
          /\ str' = t.strs
          /\ walk' = IF t.ok THEN w ELSE Resting
          /\ UNCHANGED q
     ELSE /\ walk' = Resting
          /\ IF w.fn = "string-for-each" THEN Says(w.fn, w.args, "undefined") /\ str' = strs /\ UNCHANGED q
             ELSE /\ w.ret # <<>> => Free # {}
                  /\ Says(w.fn, <<w.args, w.ret>>, o) /\ q' = o
                  /\ str' = IF w.ret = <<>> THEN strs ELSE [strs EXCEPT ![o] = result]

StringWalk ==
  /\ May(FALSE)
  /\ \E fn \in {"string-map", "string-for-each"}, args \in {<<p>>, <<p, q>>} :
       LET strs == [o \in Str |-> IF o \in ToSet(args) THEN length_utf32(str[o]) ELSE str[o]]
           len == Min({CountOf(strs[args[i]]) : i \in DOMAIN args})
       IN WalkOn([Resting EXCEPT !.fn = fn, !.args = args, !.len = len], strs)
  /\ uses' = uses + 1
  /\ Elsewhere /\ UNCHANGED p
WalkReturns ==
  /\ ~crashed /\ walk # Resting
  /\ \E c \in Verdicts : WalkOn([walk EXCEPT !.ret = Append(@, c)], str)
  /\ Elsewhere /\ UNCHANGED <<p, uses>>
\* The function throws, or string-map gets something that is no character.
WalkFails ==
  /\ ~crashed /\ walk # Resting
  /\ walk' = Resting /\ Says(walk.fn, walk.args, "error")
  /\ Elsewhere /\ UNCHANGED <<str, p, q, uses>>

------------------------------------------------------------------------------
\* Regular expressions: the list of compiled ones, the latest used first.

\* Where the pattern RE is in the list: by the same string or an equal one.
CachedAt(re) ==
  LET octets(o) == rep_string_ptr(str[o]).bytes
      hits == {k \in DOMAIN cached_regexps : cached_regexps[k].re = re \/ octets(cached_regexps[k].re) = octets(re)}
  IN IF hits # {} THEN Min(hits) ELSE 0

\* The first occurrence of the bytes S in those of T from FROM on.
rep_regexec2(s, t, from) == {i \in from .. Len(t) - Len(s) : IsPrefix(s, SubSeq(t, i + 1, Len(t)))}
rep_regmatch_string(s, t, from) == rep_regexec2(s, t, from) \cap {from}

StringMatch(fn, re, o, start) ==
  LET at == CachedAt(re)
      read == {re, o} \cup {cached_regexps[k].re : k \in IF at > 0 THEN 1 .. at ELSE DOMAIN cached_regexps}
      strs == [s \in Str |-> IF s \in read THEN rep_string_ptr(str[s]) ELSE str[s]]
      entry == IF at > 0 THEN cached_regexps[at] ELSE [re |-> re, prog |-> strs[re].bytes]
      hits == IF fn = "string-match" THEN rep_regexec2(entry.prog, strs[o].bytes, start)
              ELSE rep_regmatch_string(entry.prog, strs[o].bytes, start)
      found == hits # {}
      after == IF at > 0 THEN strs ELSE [strs EXCEPT ![re].regexp = TRUE]
  IN /\ start <= Len(strs[o].bytes)
     /\ cached_regexps' = <<entry>> \o (IF at > 0 THEN RemoveAt(cached_regexps, at) ELSE cached_regexps)
     /\ str' = IF found THEN [after EXCEPT ![o].moved = FALSE] ELSE after
     /\ match' = IF found THEN [s |-> o, from |-> Min(hits), to |-> Min(hits) + Len(entry.prog)] ELSE match
     /\ Says(fn, <<re, o, start>>, found)
     /\ Tally /\ UNCHANGED <<p, q, regexp_cache_limit, crashed>>

\* A position is the difference of two pointers, one of which is into the bytes
\* that were matched: anything if they have been reallocated elsewhere since.
MatchPosition ==
  LET strs == Put(match.s, rep_string_ptr(str[match.s])) IN
  \E fn \in {"match-start", "match-end"} :
    IF match.s = NoStr THEN Answers(fn, <<>>, str, -1)
    ELSE \E val \in {IF fn = "match-start" THEN match.from ELSE match.to} \cup (IF strs[match.s].moved THEN {Stray} ELSE {}) :
           Answers(fn, <<>>, strs, val)

Fregexp_cache_control(limit) ==
  /\ regexp_cache_limit' = limit
  /\ Says("regexp-cache-control", <<limit>>, "undefined")
  /\ Tally /\ UNCHANGED <<str, p, q, cached_regexps, match, crashed>>

------------------------------------------------------------------------------
\* The collector keeps as many patterns as the limit allows and frees the
\* others; what it keeps of strings it trims.  Having read the length of a
\* string, it has written its copy back.

mark_cached_regexps == SubSeq(cached_regexps, 1, Min({regexp_cache_limit, Len(cached_regexps)}))
rep_string_sweep(marked) ==
  [o \in Str |-> IF o = NullString \/ ~str[o].live THEN str[o]
                 ELSE IF o \in marked THEN rep_string_ptr(collect_utf32(str[o]))
                 ELSE Unused]
GarbageCollect ==
  /\ ~crashed /\ uses \in 1 .. MaxUses
  /\ cached_regexps' = mark_cached_regexps
  /\ str' = rep_string_sweep({p, q, match.s} \cup ToSet(walk.args)
                             \cup {cached_regexps'[k].re : k \in DOMAIN cached_regexps'})
  /\ Says("gc", <<>>, "undefined")
  /\ UNCHANGED <<p, q, walk, uses, regexp_cache_limit, match, crashed>>

\* (setq q p), (setq q ""), and the two exchanged
Assign ==
  /\ \E v \in {<<p, p>>, <<p, NullString>>, <<q, p>>} : p' = v[1] /\ q' = v[2] /\ v # <<p, q>>
  /\ said' = Silence /\ Tally /\ Elsewhere /\ UNCHANGED str

------------------------------------------------------------------------------
StringsInit ==
  /\ \E open \in Openings :
       LET o == CHOOSE two \in Str \X Str : two[1] # two[2] /\ NullString \notin {two[1], two[2]}
           start == [s \in Str |-> IF s = NullString THEN rep_null_string ELSE Unused]
       IN IF open = <<>> THEN p = NullString /\ q = NullString /\ str = start /\ uses = MaxUses + 1
          ELSE /\ p = o[1] /\ q = o[2] /\ uses = 0
               /\ str = [start EXCEPT ![o[1]] = rep_box_string(open[1]), ![o[2]] = rep_box_string(open[2])]
  /\ walk = Resting /\ cached_regexps = <<>> /\ match = NoMatch
  /\ regexp_cache_limit = Max(Limits)
  /\ said = Silence /\ crashed = FALSE

ReadString ==
  /\ May(FALSE)
  /\ \/ Fbyte_string_length(p) \/ Fstring_length(p)
     \/ \E i \in Position : Fbyte_string_ref(p, i) \/ Fstring_ref(p, i)
     \/ \E fold \in BOOLEAN : Compare(fold)
     \/ Fstring_head_eq
     \/ \E i \in Position \cup {-1} : rep_stream_put_utf8(p, i)
NewString ==
  /\ May(FALSE)
  /\ \/ \E n \in Position, c \in Chr : Fmake_string(n, c)
     \/ \E i \in Position, j \in Position \cup {-1} :
          substring("substring", p, i, j, TRUE) \/ substring("byte-substring", p, i, j, FALSE)
     \/ \E c \in Chr : \E args \in {<<StringArg(p), StringArg(q)>>, <<CharArgs(<<c>>), StringArg(p)>>, <<StringArg(q), OtherArg>>} :
          Concat(args)
     \/ Fstring_to_immutable_string(p)
     \/ \E list \in {<<>>, <<q>>, <<q, p>>, <<p, q>>}, fold \in BOOLEAN : Fcomplete_string(list, fold)
\* What the function that string-map calls may do, too.
ChangeString ==
  /\ May(TRUE)
  /\ \/ \E i \in Position, c \in Chr : Fstring_set(p, i, c)
     \/ \E i \in Position, c \in Octet : Fbyte_string_set(p, i, c)
ConvertString ==
  /\ May(FALSE)
  /\ Fmake_string_immutable(p) \/ Ftranslate_byte_string(p, q) \/ Ftranslate_string(p, q) \/ Assign
MatchStrings ==
  /\ May(FALSE)
  /\ \/ \E fn \in {"string-match", "string-looking-at"}, start \in {0, 1} :
          StringMatch(fn, q, p, start) \/ StringMatch(fn, p, q, start)
     \/ MatchPosition
     \/ \E limit \in Limits : limit # regexp_cache_limit /\ Fregexp_cache_control(limit)

StringsNext ==
  ReadString \/ NewString \/ ChangeString \/ ConvertString \/ StringWalk \/ WalkReturns \/ WalkFails \/ MatchStrings \/ GarbageCollect
=============================================================================
