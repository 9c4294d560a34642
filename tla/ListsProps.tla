----------------------------- MODULE ListsProps -----------------------------
(***************************************************************************)
(* What the functions of Lists and Vectors promise, with sequences as the  *)
(* reference.                                                              *)
(***************************************************************************)
EXTENDS Vectors

\* The cells of a list in order, up to where it ends or meets itself.
Spine(h, l) ==
  LET walk[n \in 0 .. Cardinality(Cell)] ==
        IF n = 0 THEN <<>>
        ELSE LET s == walk[n - 1]
                 c == IF s = <<>> THEN l ELSE h.cdr[Last(s)]
             IN IF CONSP(c) /\ c \notin ToSet(s) THEN Append(s, c) ELSE s
  IN walk[Cardinality(Cell)]
End(h, l) == LET s == Spine(h, l) IN IF s = <<>> THEN l ELSE h.cdr[Last(s)]
Finite(h, l) == ~CONSP(End(h, l))
Elems(h, l) == LET s == Spine(h, l) IN [i \in 1 .. Len(s) |-> h.car[s[i]]]
IsList(h, l, s) == Finite(h, l) /\ Elems(h, l) = s /\ End(h, l) = Nil

\* The part of s from the first element that Hit holds of.
From(s, Hit(_)) ==
  LET hits == {i \in 1 .. Len(s) : Hit(s[i])} IN
  IF hits = {} THEN <<>> ELSE SubSeq(s, Min(hits), Len(s))
Same(fn, h, v, w) ==
  CASE fn \in {"member", "assoc", "rassoc", "delete!"} -> Equal(h, v, w)
    [] fn \in {"memq", "assq", "rassq", "delq!"} -> v = w
    [] fn \in {"memv", "assv", "rassv"} -> Eqv(v, w)

Reading(r, h, l, s) ==
  CASE r.fn \in {"list-length", "length"} -> r.val = Len(s)
    [] r.fn = "last" -> r.val = IF s = <<>> THEN Nil ELSE Last(s)
    [] r.fn = "list-tail" -> Elems(h, r.val) = SubSeq(s, r.args[2] + 1, Len(s))
    [] r.fn \in {"list-ref", "elt"} -> r.val = IF r.args[2] < Len(s) THEN s[r.args[2] + 1] ELSE Nil
    [] r.fn = "reverse" -> IsList(heap, r.val, Reverse(s))
    [] r.fn = "reverse!" -> IsList(heap, r.val, Reverse(s))
    [] r.fn = "copy-sequence" -> IsList(heap, r.val, s)
    [] r.fn = "list->vector" -> vec = Vector(s, TRUE)
    [] OTHER -> TRUE

Finding(r, h, e, s) ==
  LET Match(v) == Same(r.fn, h, e, v)
      ByKey(v) == CONSP(v) /\ Same(r.fn, h, e, h.car[v])
      ByValue(v) == CONSP(v) /\ Same(r.fn, h, e, h.cdr[v])
      Pairs(Hit(_)) == r.val = IF From(s, Hit) = <<>> THEN Nil ELSE Head(From(s, Hit))
  IN CASE r.fn \in {"member", "memq", "memv"} -> Elems(h, r.val) = From(s, Match)
       [] r.fn \in {"assoc", "assq", "assv"} -> Pairs(ByKey)
       [] r.fn \in {"rassoc", "rassq", "rassv"} -> Pairs(ByValue)
       [] r.fn \in {"delete!", "delq!"} -> Elems(heap, r.val) = SelectSeq(s, LAMBDA v : ~Match(v))
       [] OTHER -> TRUE

Joining(r, h, s, t) ==
  CASE r.fn = "append" /\ Len(r.args) = 2 -> Elems(heap, r.val) = s \o t /\ End(heap, r.val) = End(h, r.args[2])
    [] r.fn = "append" /\ Len(r.args) = 3 -> Elems(heap, r.val) = s \o t \o s
    [] r.fn = "append!" -> Elems(heap, r.val) = s \o t
    [] OTHER -> TRUE

\* What a function that returns has computed.
Returned ==
  LET r == reply h == r.old IN
  /\ r.fn \in {"list-length", "length", "last", "list-tail", "list-ref", "elt", "reverse", "reverse!",
               "copy-sequence"} /\ r.val # Null /\ Finite(h, r.args[1]) =>
       Reading(r, h, r.args[1], Elems(h, r.args[1]))
  /\ r.fn = "list->vector" /\ r.val # Null => Reading(r, h.heap, r.args[1], Elems(h.heap, r.args[1]))
  /\ r.fn = "vector->list" => IsList(heap, r.val, vec.elts)
  /\ r.fn \in {"member", "memq", "memv", "assoc", "assq", "assv", "rassoc", "rassq", "rassv", "delete!",
               "delq!"} /\ r.val # Null /\ Finite(h, r.args[2]) =>
       Finding(r, h, r.args[1], Elems(h, r.args[2]))
  /\ r.fn \in {"append", "append!"} /\ r.val # Null =>
       Joining(r, h, Elems(h, r.args[1]), Elems(h, r.args[2]))
  /\ r.fn \in {"list", "list*"} =>
       Elems(heap, r.val) = IF r.fn = "list" THEN r.args ELSE SubSeq(r.args, 1, 2) \o Elems(h, r.args[3])

\* When a throw ends a function that deletes or joins, every element it had
\* no reason to remove is still in the list the caller holds, in order.
\* reverse! does not promise this: its list is in two pieces by then.
ThrowKeepsElements ==
  LET r == reply h == r.old
      Same2(l, Stays(_)) == SelectSeq(Elems(heap, l), Stays) = SelectSeq(Elems(h, l), Stays)
      Condemned == {r.seen[i][1][1] : i \in {j \in 1 .. Len(r.seen) : (r.seen[j][2] # Nil) = (r.fn = "delete-if!")}}
  IN r.val = Null =>
       /\ r.fn \in {"delete!", "delq!"} /\ Finite(h, r.args[2]) =>
            Same2(r.args[2], LAMBDA v : ~Same(r.fn, h, r.args[1], v))
       /\ r.fn = "append!" =>
            \A i \in {1, 2} : IsPrefix(Elems(h, r.args[i]), Elems(heap, r.args[i]))
       /\ r.fn \in {"delete-if!", "delete-if-not!"} /\ Finite(h, r.args[1]) =>
            LET s == SelectSeq(Elems(h, r.args[1]), LAMBDA v : v \notin Condemned) IN
            IsPrefix(s, SelectSeq(Elems(heap, r.args[1]), LAMBDA v : v \notin Condemned))

\* After (put s p v), (get s p) is v and every other property is as it was,
\* also in a list with an odd number of elements or one used elsewhere.
PutGet ==
  LET r == reply
      Read(h, p, prop) == {IF o.val = Nil THEN Nil ELSE h.car[o.val] : o \in Pair(h, p, prop)}
  IN r.fn = "put" /\ r.val # Null /\ Finite(r.old.heap, r.old.plist) =>
       /\ Read(heap, plist, r.args[1]) = {r.args[2]}
       /\ \A p \in Prop : ~Equal(heap, p, r.args[1]) => Read(heap, plist, p) = Read(r.old.heap, r.old.plist, p)

\* A function that returns has computed what it should from the list it was
\* given, whichever of its cells it has reused; one that a throw ends has lost
\* no element that it had to keep; and what was put is what is got.  (lists.c,
\* vectors.c, sequences.c, plists.c)
RightResult == Returned /\ ThrowKeepsElements /\ PutGet

\* The lists that the call of the last step may destroy, or its own result.
Destroyed(h, r, f) ==
  UNION {ToSet(Spine(h, l)) : l \in CASE r.fn \in {"append!", "reverse!", "set-cdr!"} -> ToSet(r.args)
                                      [] r.fn \in {"delete!", "delq!"} -> {r.args[2]}
                                      [] OTHER -> {f.res}}

\* Of the cells that were there a function changes only the cdrs of the lists
\* that it may destroy; what else can be reached is as it was.
ChangesOwnCells ==
  [][\/ frame # Idle /\ frame'.seen = frame.seen       \* a step of the called function
     \/ \A c \in heap.used :
          /\ reply'.fn \notin {"set-car!", "put"} => heap'.car[c] = heap.car[c]
          /\ heap'.cdr[c] # heap.cdr[c] => c \in Destroyed(heap, reply', frame)]_vars

\* No cell that the program or a function in progress can reach, and no
\* location it writes to, has been given back to the free list.
NoDangling ==
  LET ends == IF CONSP(frame.end) THEN {frame.end} ELSE {} IN
  CellsFrom(heap, {x, y, plist} \cup ToSet(vec.elts) \cup FrameRoots(frame) \cup ToSet(frame.argv) \cup {frame.res} \cup ends)
    \subseteq heap.used

\* Whatever the called function does to its lists and with memory, map returns
\* one value for each call and filter, delete-if! and delete-if-not! exactly
\* the elements that passed, in the order of the calls; and neither they nor
\* the program are left with a cell that has been freed.
CallbackExact ==
  LET Kept2(seen, keep) == LET s == SelectSeq(seen, LAMBDA p : (p[2] # Nil) = keep) IN [i \in 1 .. Len(s) |-> s[i][1][1]]
      Got(fn, seen) ==
        CASE fn = "map" -> [i \in 1 .. Len(seen) |-> seen[i][2]]
          [] fn \in {"filter", "delete-if-not!"} -> Kept2(seen, TRUE)
          [] fn = "delete-if!" -> Kept2(seen, FALSE)
  IN /\ NoDangling
     /\ reply.fn \in {"map", "filter", "delete-if!", "delete-if-not!"} /\ reply.val # Null =>
          Elems(heap, reply.val) = Got(reply.fn, reply.seen)
     /\ frame.fn \in {"map", "filter"} => IsList(heap, frame.res, Got(frame.fn, frame.seen))
     /\ reply.fn = "vector-map" /\ reply.val # Null => vec.elts = [i \in 1 .. Len(reply.seen) |-> reply.seen[i][2]]

=============================================================================
