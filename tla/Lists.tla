------------------------------- MODULE Lists -------------------------------
(***************************************************************************)
(* Lists of librep (src/src/lists.c): cons cells, the functions that read, *)
(* copy and rebuild lists, and those that call a Lisp function for every   *)
(* element, which may change the list and collect garbage meanwhile.       *)
(*                                                                         *)
(* A list is any value: proper, ending in an atom, or circular.  Every     *)
(* loop over a list tests for an interrupt once it has gone round more     *)
(* than Period times, and the function then returns Null, which stands     *)
(* for any throw, with the list as it was at that moment.                  *)
(***************************************************************************)
EXTENDS Integers, SequencesExt

CONSTANTS
  Cell,          \* memory for cons cells
  Atom,          \* values that are not lists
  ClassOf,       \* function from atoms to the atom they are equal? to
  EqvOf,         \* the same for eqv?
  Nil,           \* the empty list
  Null,          \* no value: the function was left by a throw
  Period,        \* rep_TEST_INT_PERIOD
  MaxOps,        \* bound on calls made by the program
  MaxCalls,      \* bound on elements visited by a function with callbacks
  Index,         \* integers passed as indices and lengths
  CallbackOps,   \* what a called function may do
  MaxSteps,      \* bound on what called functions do during one call
  Verdict        \* values they return

ASSUME ListsAssumption ==
  /\ Cell \cap (Atom \cup {Nil, Null}) = {} /\ Atom \cap {Nil, Null} = {}
  /\ ClassOf \in [Atom -> Atom] /\ EqvOf \in [Atom -> Atom]
  /\ Period \in Nat /\ MaxOps \in Nat /\ MaxCalls \in Nat

VARIABLES
  heap,          \* the cells: their car and cdr, and which are in use
  x, y,          \* variables of the program
  frame,         \* the function that is calling back, or Idle
  ops,           \* calls made
  reply          \* the last call: function, arguments, heap before, value

lists == <<heap, x, y, frame, ops, reply>>

CONSP(v) == v \in Cell
LISTP(v) == v = Nil \/ CONSP(v)
Fuel == Cardinality(Cell) + 4

-----------------------------------------------------------------------------
(* Cells *)

Room(h) == h.used # Cell
Fresh(h) == CHOOSE c \in Cell : c \notin h.used
FCons(h, a, d) ==
  LET c == Fresh(h) IN
  [car |-> [h.car EXCEPT ![c] = a], cdr |-> [h.cdr EXCEPT ![c] = d], used |-> h.used \cup {c}]

CellsFrom(h, roots) ==
  LET reach[n \in 0 .. Cardinality(Cell)] ==
        IF n = 0 THEN roots \cap Cell
        ELSE LET r == reach[n - 1] IN r \cup (({h.car[c] : c \in r} \cup {h.cdr[c] : c \in r}) \cap Cell)
  IN reach[Cardinality(Cell)]

\* rep_cons_sweep(): unmarked cells go to the free list.
Sweep(h, roots) == [h EXCEPT !.used = CellsFrom(h, roots)]

\* rep_value_cmp() = 0, for structures without cycles.
Equal(h, v, w) ==
  LET same[n \in 0 .. Fuel, a, b \in Cell \cup Atom \cup {Nil}] ==
        \/ a = b
        \/ a \in Atom /\ b \in Atom /\ ClassOf[a] = ClassOf[b]
        \/ /\ n < Fuel /\ CONSP(a) /\ CONSP(b)
           /\ same[n + 1, h.car[a], h.car[b]]
           /\ same[n + 1, h.cdr[a], h.cdr[b]]
  IN same[0, v, w]
Eqv(v, w) == v = w \/ (v \in Atom /\ w \in Atom /\ EqvOf[v] = EqvOf[w])

-----------------------------------------------------------------------------
(* Loops.  A loop has a state s with a heap; Body is one turn of it, Tests *)
(* says that the turn from s ends in rep_TEST_INT.  What it leaves is one  *)
(* of a set of outcomes.                                                   *)

Outcome(h, v) == [heap |-> h, val |-> v]
One(h, v) == {Outcome(h, v)}
Throw(h) == One(h, Null)

TestedLoop(s0, Going(_), Tests(_), Body(_), Finish(_)) ==
  LET Turn(s) == IF Going(s) /\ (s.heap = s0.heap \/ Room(s.heap)) THEN Body(s) ELSE s
      turns[n \in 0 .. Fuel] ==
        IF n = 0 THEN <<s0>> ELSE LET t == turns[n - 1] IN Append(t, Turn(Last(t)))
      at == turns[Fuel]
      interrupted == {n \in Period + 2 .. Fuel : Going(at[n - 1]) /\ Tests(at[n - 1])}
  IN {Outcome(at[n].heap, Null) : n \in interrupted}
     \cup {Finish(s) : s \in {t \in {at[Fuel]} : ~Going(t)}}
Loop(s0, Going(_), Body(_), Finish(_)) == TestedLoop(s0, Going, LAMBDA s : TRUE, Body, Finish)

\* A location: the cdr of a cell, or, as Nil, the variable with the result.
At(s) == IF s.end = Nil THEN s.res ELSE s.heap.cdr[s.end]
Put(s, v) == IF s.end = Nil THEN [s EXCEPT !.res = v] ELSE [s EXCEPT !.heap.cdr[s.end] = v]
Return(s) == Outcome(s.heap, s.res)
\* Append a new cell with car v and move to its cdr.
PutCell(s, v) ==
  LET c == Fresh(s.heap) IN [Put([s EXCEPT !.heap = FCons(@, v, Nil)], c) EXCEPT !.end = c]

-----------------------------------------------------------------------------
(* Reading lists *)

Car(h, v) == One(h, IF CONSP(v) THEN h.car[v] ELSE Nil)
Cdr(h, v) == One(h, IF CONSP(v) THEN h.cdr[v] ELSE Nil)

ListLength(h, l) ==
  Loop([heap |-> h, list |-> l, n |-> 0],
       LAMBDA s : CONSP(s.list),
       LAMBDA s : [s EXCEPT !.list = h.cdr[@], !.n = @ + 1],
       LAMBDA s : Outcome(h, s.n))
Flist_length(h, l) == IF LISTP(l) THEN ListLength(h, l) ELSE Throw(h)

\* The list from the first cell that Hit holds of, or what ends the list.
Search(h, l, Hit(_), Value(_)) ==
  IF ~LISTP(l) THEN Throw(h)
  ELSE Loop([heap |-> h, list |-> l],
            LAMBDA s : CONSP(s.list) /\ ~Hit(s.list),
            LAMBDA s : [s EXCEPT !.list = h.cdr[@]],
            LAMBDA s : Outcome(h, IF CONSP(s.list) THEN Value(s.list) ELSE Nil))

Member(h, e, l) == Search(h, l, LAMBDA c : Equal(h, e, h.car[c]), LAMBDA c : c)
Memq(h, e, l) == Search(h, l, LAMBDA c : e = h.car[c], LAMBDA c : c)
Memv(h, e, l) == Search(h, l, LAMBDA c : Eqv(e, h.car[c]), LAMBDA c : c)

\* Pairs of an association list, by one side; other elements are passed over.
ByCar(h, l, Same(_)) == Search(h, l, LAMBDA c : CONSP(h.car[c]) /\ Same(h.car[h.car[c]]), LAMBDA c : h.car[c])
ByCdr(h, l, Same(_)) == Search(h, l, LAMBDA c : CONSP(h.car[c]) /\ Same(h.cdr[h.car[c]]), LAMBDA c : h.car[c])
Assoc(h, e, l) == ByCar(h, l, LAMBDA v : Equal(h, e, v))
Assq(h, e, l) == ByCar(h, l, LAMBDA v : e = v)
Assv(h, e, l) == ByCar(h, l, LAMBDA v : Eqv(e, v))
Rassoc(h, e, l) == ByCdr(h, l, LAMBDA v : Equal(h, e, v))
Rassq(h, e, l) == ByCdr(h, l, LAMBDA v : e = v)
Rassv(h, e, l) == ByCdr(h, l, LAMBDA v : Eqv(e, v))

NthTail(h, l, i, Value(_)) ==
  IF ~LISTP(l) \/ i < 0 THEN Throw(h)
  ELSE Loop([heap |-> h, list |-> l, i |-> i],
            LAMBDA s : s.i > 0 /\ CONSP(s.list),
            LAMBDA s : [s EXCEPT !.list = h.cdr[@], !.i = @ - 1],
            LAMBDA s : Outcome(h, Value(s.list)))
ListTail(h, l, i) == NthTail(h, l, i, LAMBDA v : v)
ListRef(h, l, i) == NthTail(h, l, i, LAMBDA v : IF CONSP(v) THEN h.car[v] ELSE Nil)

LastOf(h, l) ==
  IF ~LISTP(l) THEN Throw(h)
  ELSE IF l = Nil THEN One(h, Nil)
  ELSE Loop([heap |-> h, list |-> l],
            LAMBDA s : CONSP(h.cdr[s.list]),
            LAMBDA s : [s EXCEPT !.list = h.cdr[@]],
            LAMBDA s : Outcome(h, h.car[s.list]))

-----------------------------------------------------------------------------
(* Building and copying lists *)

\* The elements of s consed, last first, onto d.
Consed(h, s, d) ==
  LET built[n \in 0 .. Len(s)] ==
        IF n = 0 THEN Outcome(h, d)
        ELSE LET o == built[n - 1]
             IN Outcome(FCons(o.heap, s[Len(s) - n + 1], o.val), Fresh(o.heap))
  IN built[Len(s)]
RoomFor(h, n) == Cardinality(Cell \ h.used) >= n

List(h, args) == {Consed(h, args, Nil)}
ListStar(h, args) == {IF args = <<>> THEN Outcome(h, Nil) ELSE Consed(h, Front(args), Last(args))}
MakeList(h, n, v) == IF n < 0 THEN Throw(h) ELSE {Consed(h, [i \in 1 .. n |-> v], Nil)}

\* append copies all arguments but the last; append! (Fnconc) links them.
\* Either goes to the end of each, the last included, so that the next one
\* replaces what is there: nil, or the atom a dotted list ends with.
Arg(s, args, i) ==
  LET t == [s EXCEPT !.i = i] n == Len(args) IN
  IF i > n THEN t
  ELSE IF i < n /\ ~LISTP(args[i]) THEN [t EXCEPT !.res = Null, !.i = n + 1, !.end = Nil]
  ELSE IF i < n /\ s.copy THEN [Put(t, Nil) EXCEPT !.from = args[i]]
  ELSE [Put(t, args[i]) EXCEPT !.from = Nil]
More(s) == CONSP(s.from) \/ CONSP(At(s))
Concat(h, args, copy) ==
  TestedLoop(Arg([heap |-> h, res |-> Nil, end |-> Nil, i |-> 0, from |-> Nil, copy |-> copy], args, 1),
             LAMBDA s : s.i <= Len(args),
             More,
             LAMBDA s : IF CONSP(s.from) THEN [PutCell(s, h.car[s.from]) EXCEPT !.from = h.cdr[s.from]]
                        ELSE IF CONSP(At(s)) THEN [s EXCEPT !.end = At(s)]
                        ELSE Arg(s, args, s.i + 1),
             Return)
\* Mutant: append links the lists instead of copying them.
FAppend_Links(h, args) == Concat(h, args, FALSE)
FAppend(h, args) == Concat(h, args, TRUE)
Fnconc(h, args) == Concat(h, args, FALSE)

FReverse(h, l) ==
  IF ~LISTP(l) THEN Throw(h)
  ELSE Loop([heap |-> h, res |-> Nil, head |-> l],
            LAMBDA s : CONSP(s.head),
            LAMBDA s : [heap |-> FCons(s.heap, h.car[s.head], s.res), res |-> Fresh(s.heap),
                        head |-> h.cdr[s.head]],
            Return)

CopySequence(h, l) ==
  IF ~LISTP(l) THEN Throw(h)
  ELSE Loop([heap |-> h, res |-> Nil, end |-> Nil, from |-> l],
            LAMBDA s : CONSP(s.from),
            LAMBDA s : [PutCell(s, h.car[s.from]) EXCEPT !.from = h.cdr[s.from]],
            Return)

-----------------------------------------------------------------------------
(* Changing lists *)

SetCar(h, c, v) == IF CONSP(c) THEN One([h EXCEPT !.car[c] = v], Nil) ELSE Throw(h)
SetCdr(h, c, v) == IF CONSP(c) THEN One([h EXCEPT !.cdr[c] = v], Nil) ELSE Throw(h)

Nreverse(h, l) ==
  IF ~LISTP(l) THEN Throw(h)
  ELSE Loop([heap |-> h, res |-> Nil, head |-> l],
            LAMBDA s : CONSP(s.head),
            LAMBDA s : [heap |-> [s.heap EXCEPT !.cdr[s.head] = s.res], res |-> s.head,
                        head |-> s.heap.cdr[s.head]],
            Return)

\* Mutant: the cell after an unlinked one is passed over.
DeleteTurn_SkipsOne(s, unlink) ==
  LET c == At(s) IN
  IF unlink /\ CONSP(s.heap.cdr[c]) THEN [Put(s, s.heap.cdr[c]) EXCEPT !.end = s.heap.cdr[c]]
  ELSE IF unlink THEN Put(s, s.heap.cdr[c]) ELSE [s EXCEPT !.end = c]
\* One cell of a list that elements are deleted from.
DeleteTurn(s, unlink) == IF unlink THEN Put(s, s.heap.cdr[At(s)]) ELSE [s EXCEPT !.end = At(s)]

DeleteAll(h, l, Hit(_, _)) ==
  IF ~LISTP(l) THEN Throw(h)
  ELSE Loop([heap |-> h, res |-> l, end |-> Nil],
            LAMBDA s : CONSP(At(s)),
            LAMBDA s : DeleteTurn(s, Hit(s.heap, h.car[At(s)])),
            Return)
Delete(h, e, l) == DeleteAll(h, l, LAMBDA g, v : Equal(g, e, v))
Delq(h, e, l) == DeleteAll(h, l, LAMBDA g, v : e = v)

-----------------------------------------------------------------------------
(* Calls of the program *)

Idle == [fn |-> "none", args |-> <<>>, argv |-> <<>>, elts |-> <<>>, res |-> Nil, end |-> Nil,
         seen |-> <<>>, old |-> Nil, steps |-> 0]
Quiet == [fn |-> "none", args |-> <<>>, old |-> Nil, val |-> Nil, seen |-> <<>>]

Ready == frame = Idle /\ ops < MaxOps /\ Room(heap)
\* The program keeps a list that it gets.
Kept(v) == IF v \in Cell \cup {Nil} THEN v ELSE x

Call(fn, args, outcomes) ==
  /\ Ready
  /\ \E o \in outcomes :
       /\ heap' = o.heap
       /\ x' = Kept(o.val)
       /\ reply' = [fn |-> fn, args |-> args, old |-> heap, val |-> o.val, seen |-> <<>>]
  /\ ops' = ops + 1
  /\ UNCHANGED <<y, frame>>

Some == {x, y}
Value == Atom \cup {Nil, y}

ReadList ==
  \E l \in Some :
    \/ Call("car", <<l>>, Car(heap, l))
    \/ Call("cdr", <<l>>, Cdr(heap, l))
    \/ Call("list-length", <<l>>, Flist_length(heap, l))
    \/ Call("last", <<l>>, LastOf(heap, l))
    \/ \E i \in Index :
         \/ Call("list-ref", <<l, i>>, ListRef(heap, l, i))
         \/ Call("list-tail", <<l, i>>, ListTail(heap, l, i))

FindInList ==
  \E e \in Value, l \in Some :
    \/ Call("member", <<e, l>>, Member(heap, e, l))
    \/ Call("memq", <<e, l>>, Memq(heap, e, l))
    \/ Call("memv", <<e, l>>, Memv(heap, e, l))
    \/ Call("assoc", <<e, l>>, Assoc(heap, e, l))
    \/ Call("assq", <<e, l>>, Assq(heap, e, l))
    \/ Call("assv", <<e, l>>, Assv(heap, e, l))
    \/ Call("rassoc", <<e, l>>, Rassoc(heap, e, l))
    \/ Call("rassq", <<e, l>>, Rassq(heap, e, l))
    \/ Call("rassv", <<e, l>>, Rassv(heap, e, l))

NewList ==
  \/ \E v \in Value : RoomFor(heap, 1) /\ Call("cons", <<v, x>>, {Outcome(FCons(heap, v, x), Fresh(heap))})
  \/ \E v \in Value : RoomFor(heap, 2) /\ Call("list", <<v, x>>, List(heap, <<v, x>>))
  \/ \E v \in Value : RoomFor(heap, 2) /\ Call("list*", <<v, x, y>>, ListStar(heap, <<v, x, y>>))
  \/ \E n \in Index, v \in Value : RoomFor(heap, n) /\ Call("make-list", <<n, v>>, MakeList(heap, n, v))
  \/ \E args \in {<<x, y>>, <<y, x>>, <<x, x>>, <<x, y, x>>} : Call("append", args, FAppend(heap, args))
  \/ \E l \in Some : Call("reverse", <<l>>, FReverse(heap, l))
  \/ \E l \in Some : Call("copy-sequence", <<l>>, CopySequence(heap, l))

ChangeList ==
  \/ \E l \in Some, v \in Value : Call("set-car!", <<l, v>>, SetCar(heap, l, v))
  \/ \E l \in Some, v \in Value : Call("set-cdr!", <<l, v>>, SetCdr(heap, l, v))
  \/ \E args \in {<<x, y>>, <<y, x>>, <<x, x>>} : Call("append!", args, Fnconc(heap, args))
  \/ \E l \in Some : Call("reverse!", <<l>>, Nreverse(heap, l))
  \/ \E e \in Value, l \in Some : Call("delete!", <<e, l>>, Delete(heap, e, l))
  \/ \E e \in Value, l \in Some : Call("delq!", <<e, l>>, Delq(heap, e, l))

-----------------------------------------------------------------------------
(* Functions that call back.  The frame has the remaining lists (argv, as  *)
(* map and for-each advance them in place), the result and the location    *)
(* where it grows (or, for delete-if!, where a cell may be unlinked), and  *)
(* the elements passed to the function that is running.                    *)

Deleting(f) == f.fn \in {"delete-if!", "delete-if-not!"}
Mapping(f) == f.fn \in {"map", "for-each"}
State == [heap |-> heap] @@ frame
Rest(s) == [k \in DOMAIN Idle |-> s[k]]

\* The elements for the next call, or <<>> when the loop ends.
Elements(s) ==
  IF Deleting(s) THEN IF CONSP(At(s)) THEN <<s.heap.car[At(s)]>> ELSE <<>>
  ELSE IF \A i \in 1 .. Len(s.argv) : CONSP(s.argv[i])
  THEN [i \in 1 .. Len(s.argv) |-> s.heap.car[s.argv[i]]]
  ELSE <<>>
Advanced(s) == [s EXCEPT !.argv = [i \in 1 .. Len(s.argv) |-> s.heap.cdr[s.argv[i]]]]

\* The top of the loop: the next call, or the end.
Enter(s) ==
  LET elts == Elements(s)
      t == [(IF Mapping(s) /\ elts # <<>> THEN Advanced(s) ELSE s) EXCEPT !.elts = elts]
  IN /\ heap' = s.heap
     /\ IF elts # <<>>
        THEN frame' = Rest(t) /\ x' = x /\ reply' = Quiet
        ELSE /\ frame' = Idle
             /\ x' = Kept(s.res)
             /\ reply' = [fn |-> s.fn, args |-> s.args, old |-> s.old, val |-> s.res, seen |-> s.seen]

Start(fn, args, res) ==
  /\ Ready
  /\ IF \A i \in 1 .. Len(args) : LISTP(args[i])
     THEN Enter([Idle EXCEPT !.fn = fn, !.args = args, !.argv = args, !.res = res, !.old = heap]
                @@ [heap |-> heap])
     ELSE /\ reply' = [fn |-> fn, args |-> args, old |-> heap, val |-> Null, seen |-> <<>>]
          /\ UNCHANGED <<heap, x, frame>>
  /\ ops' = ops + 1
  /\ UNCHANGED y

Fmap == \E args \in {<<x>>, <<x, y>>} : Start("map", args, Nil)
Ffor_each == \E args \in {<<x>>, <<y, x>>} : Start("for-each", args, Nil)
Ffilter == Start("filter", <<x>>, Nil)
Fdelete_if == Start("delete-if!", <<x>>, x)
Fdelete_if_not == Start("delete-if-not!", <<x>>, x)

\* What the rest of a turn does with the value the function returned.
MapTurn(s, v) == PutCell(s, v)
\* Mutant: the value of the predicate is kept, not the element.
FilterTurn_Value(s, v) == Advanced(IF v # Nil THEN PutCell(s, v) ELSE s)
FilterTurn(s, v) == Advanced(IF v # Nil THEN PutCell(s, s.heap.car[s.argv[1]]) ELSE s)

Turned(s, v) ==
  CASE s.fn = "map" -> MapTurn(s, v)
    [] s.fn = "for-each" -> s
    [] s.fn = "filter" -> FilterTurn(s, v)
    [] s.fn = "delete-if!" -> DeleteTurn(s, v # Nil)
    [] s.fn = "delete-if-not!" -> DeleteTurn(s, v = Nil)

CallbackReturns(v) ==
  /\ frame # Idle /\ Len(frame.seen) < MaxCalls /\ Room(heap)
  /\ Enter([Turned(State, v) EXCEPT !.seen = Append(@, <<frame.elts, v>>)])
  /\ UNCHANGED <<y, ops>>

Unwind ==
  /\ frame' = Idle
  /\ reply' = [fn |-> frame.fn, args |-> frame.args, old |-> frame.old, val |-> Null, seen |-> frame.seen]
  /\ UNCHANGED <<heap, x, y, ops>>
CallbackThrows == frame # Idle /\ Unwind
Interrupted == frame # Idle /\ Len(frame.seen) >= Period /\ Unwind

-----------------------------------------------------------------------------
(* The program, between calls and in a function that was called *)

May(op) ==
  IF frame = Idle THEN ops < MaxOps /\ op = "gc" ELSE op \in CallbackOps /\ frame.steps < MaxSteps
Counted == IF frame = Idle THEN frame' = Idle ELSE frame' = [frame EXCEPT !.steps = @ + 1]

\* The values the interpreter protects for the function in progress.
FrameRoots(f) ==
  ToSet(f.elts) \cup CASE f.fn = "none" -> {}
                       [] f.fn = "map" -> ToSet(f.argv) \cup {f.res}
                       [] f.fn = "for-each" -> ToSet(f.argv)
                       [] f.fn = "filter" -> ToSet(f.argv) \cup {f.res}
                       [] Deleting(f) -> {f.res}

\* others: values that are protected elsewhere.
GarbageCollect(others) ==
  /\ May("gc")
  /\ heap' = Sweep(heap, {x, y} \cup FrameRoots(frame) \cup others)
  /\ reply' = Quiet /\ Counted
  /\ UNCHANGED <<x, y, ops>>

\* (setq x nil): only the function in progress still has the list.
Forget == May("forget") /\ x # Nil /\ x' = Nil /\ reply' = Quiet /\ Counted /\ UNCHANGED <<heap, y, ops>>

\* (append! l (list v)), for a list in x.
Extend ==
  /\ May("extend") /\ RoomFor(heap, 2)
  /\ \E c \in CellsFrom(heap, {x}), v \in Atom :
       heap.cdr[c] = Nil /\ heap' = [FCons(heap, v, Nil) EXCEPT !.cdr[c] = Fresh(heap)]
  /\ reply' = Quiet /\ Counted
  /\ UNCHANGED <<x, y, ops>>

\* (set-cdr! c (cddr c)), which takes an element out of a list.  delete-if!
\* holds a location in the list and is not given such a function.
Unlink ==
  /\ May("unlink")
  /\ Deleting(frame) => "unlink-held" \in CallbackOps
  /\ \E c \in CellsFrom(heap, {x}) :
       CONSP(heap.cdr[c]) /\ heap' = [heap EXCEPT !.cdr[c] = heap.cdr[heap.cdr[c]]]
  /\ reply' = Quiet /\ Counted
  /\ UNCHANGED <<x, y, ops>>

Callback == (\E v \in Verdict : CallbackReturns(v)) \/ CallbackThrows \/ Interrupted
Program == Forget \/ Extend \/ Unlink

ListsNext ==
  \/ ReadList \/ FindInList \/ NewList \/ ChangeList
  \/ Fmap \/ Ffor_each \/ Ffilter \/ Fdelete_if \/ Fdelete_if_not
  \/ Callback \/ Program
=============================================================================
