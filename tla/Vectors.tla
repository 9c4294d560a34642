------------------------------ MODULE Vectors ------------------------------
(***************************************************************************)
(* Vectors (src/src/vectors.c), the functions for any array or sequence    *)
(* (src/src/arrays.c, src/src/sequences.c) and property lists of symbols   *)
(* (src/src/plists.c), over the lists of Lists.  The program has one       *)
(* vector at a time; vectors are not elements of lists here.               *)
(***************************************************************************)
EXTENDS Lists

CONSTANTS
  MaxLen,        \* bound on the length of vectors
  Prop,          \* atoms used as names of properties
  Void,          \* no property list
  Starts         \* states of the program's variables to start from

VARIABLES
  vec,           \* the program's vector: its elements, and whether writable
  vframe,        \* vector-map or vector-for-each in progress, or VIdle
  plist          \* the property list of a symbol, in plist_structure

vectors == <<vec, vframe, plist>>
vars == <<heap, x, y, frame, ops, reply, vec, vframe, plist>>

VIdle == [fn |-> "none", v |-> <<>>, j |-> 0, ret |-> <<>>, seen |-> <<>>]
Vector(s, writable) == [elts |-> s, writable |-> writable]
VOutcome(v, val) == [vec |-> v, heap |-> heap, val |-> val]
VThrow == {VOutcome(vec, Null)}

\* A call with the vector; a function that returns one gives it to the program.
VCall(fn, args, outcomes) ==
  /\ Ready /\ vframe = VIdle
  /\ \E o \in outcomes :
       /\ heap' = o.heap
       /\ vec' = o.vec
       /\ x' = Kept(o.val)
       /\ reply' = [fn |-> fn, args |-> args, old |-> [heap |-> heap, vec |-> vec], val |-> o.val,
                    seen |-> <<>>]
  /\ ops' = ops + 1
  /\ UNCHANGED <<y, frame, vframe, plist>>

-----------------------------------------------------------------------------
MakeVector(n, v) ==
  IF n < 0 THEN VThrow ELSE {VOutcome(Vector([i \in 1 .. n |-> v], TRUE), Nil)}
FVector(s) == {VOutcome(Vector(s, TRUE), Nil)}
VectorLength == {VOutcome(vec, Len(vec.elts))}

VectorRef(i) ==
  IF i < 0 \/ i >= Len(vec.elts) THEN VThrow ELSE {VOutcome(vec, vec.elts[i + 1])}
VectorSet(i, v) ==
  IF i < 0 \/ ~vec.writable \/ i >= Len(vec.elts) THEN VThrow
  ELSE {VOutcome([vec EXCEPT !.elts[i + 1] = v], Nil)}
MakeVectorImmutable == {VOutcome([vec EXCEPT !.writable = FALSE], Nil)}

\* The length is counted first; the elements are stored in a second walk.
ListToVector(l) ==
  LET cell[n \in 1 .. Fuel] == IF n = 1 THEN l ELSE heap.cdr[cell[n - 1]]
      Made(n) == Vector([i \in 1 .. n |-> heap.car[cell[i]]], TRUE)
  IN IF ~LISTP(l) THEN VThrow
     ELSE {IF o.val = Null THEN VOutcome(vec, Null) ELSE VOutcome(Made(o.val), Nil) : o \in ListLength(heap, l)}

VectorToList == LET o == Consed(heap, vec.elts, Nil) IN {[vec |-> vec, heap |-> o.heap, val |-> o.val]}

\* copy-sequence copies the header of a vector too, so that it stays constant.
CopyVector == {VOutcome(Vector(vec.elts, vec.writable), Nil)}

\* The functions for arrays and sequences choose by the type of the object.
ArrayLength == VectorLength
ArrayRef(i) == VectorRef(i)
ArraySet(i, v) == VectorSet(i, v)
Elt(l, i) == IF LISTP(l) THEN ListRef(heap, l, i) ELSE Throw(heap)
Length(l) == IF l = Nil THEN One(heap, 0) ELSE IF CONSP(l) THEN ListLength(heap, l) ELSE Throw(heap)

VectorCall ==
  \/ \E n \in Index, v \in Atom : n <= MaxLen /\ VCall("make-vector", <<n, v>>, MakeVector(n, v))
  \/ \E v, w \in Atom : VCall("vector", <<v, w>>, FVector(<<v, w>>))
  \/ VCall("vector-length", <<>>, VectorLength)
  \/ VCall("array-length", <<>>, ArrayLength)
  \/ \E i \in Index : VCall("vector-ref", <<i>>, VectorRef(i)) \/ VCall("array-ref", <<i>>, ArrayRef(i))
  \/ \E i \in Index, v \in Atom :
       VCall("vector-set!", <<i, v>>, VectorSet(i, v)) \/ VCall("array-set!", <<i, v>>, ArraySet(i, v))
  \/ VCall("make-vector-immutable!", <<>>, MakeVectorImmutable)
  \/ \E l \in Some : VCall("list->vector", <<l>>, ListToVector(l))
  \/ RoomFor(heap, Len(vec.elts)) /\ VCall("vector->list", <<>>, VectorToList)
  \/ VCall("copy-vector", <<>>, CopyVector)

SequenceCall ==
  /\ vframe = VIdle
  /\ \E l \in Some :
       \/ Call("length", <<l>>, Length(l))
       \/ \E i \in Index : Call("elt", <<l, i>>, Elt(l, i))
  /\ UNCHANGED vectors

-----------------------------------------------------------------------------
(* vector-map and vector-for-each, over a vector and itself again.  The     *)
(* number of calls is fixed at the start, from the shortest vector.         *)

VectorWalk ==
  /\ Ready /\ vframe = VIdle
  /\ \E fn \in {"vector-map", "vector-for-each"} :
       IF vec.elts = <<>>
       THEN /\ reply' = [Quiet EXCEPT !.fn = fn, !.old = [heap |-> heap, vec |-> vec]]
            /\ UNCHANGED <<vframe, vec>>
       ELSE /\ vframe' = [VIdle EXCEPT !.fn = fn, !.v = vec.elts, !.ret = [i \in 1 .. Len(vec.elts) |-> Null]]
            /\ reply' = Quiet /\ vec' = vec
  /\ ops' = ops + 1
  /\ UNCHANGED <<heap, x, y, frame, plist>>

\* Slots of the new vector that no call has filled yet are uninitialised.
WalkReturns(v) ==
  LET j == vframe.j + 1
      f == [vframe EXCEPT !.j = j, !.ret[j] = v, !.seen = Append(@, <<vec.elts[j], v>>)]
  IN /\ vframe # VIdle
     /\ IF j < Len(vec.elts) THEN vframe' = f /\ vec' = vec /\ reply' = Quiet
        ELSE /\ vframe' = VIdle
             /\ vec' = IF f.fn = "vector-map" THEN Vector(f.ret, TRUE) ELSE vec
             /\ reply' = [Quiet EXCEPT !.fn = f.fn, !.seen = f.seen, !.old = [heap |-> heap, vec |-> vec]]
     /\ UNCHANGED <<heap, x, y, frame, ops, plist>>
WalkThrows ==
  /\ vframe # VIdle
  /\ vframe' = VIdle
  /\ reply' = [Quiet EXCEPT !.fn = vframe.fn, !.val = Null]
  /\ UNCHANGED <<heap, x, y, frame, ops, vec, plist>>
\* The function writes into the vector that is being walked.
WalkSets ==
  /\ vframe # VIdle /\ "vector-set!" \in CallbackOps
  /\ \E i \in 0 .. Len(vec.elts) - 1, v \in Atom :
       \E o \in VectorSet(i, v) : vec # o.vec /\ vec' = o.vec
  /\ reply' = Quiet
  /\ UNCHANGED <<heap, x, y, frame, ops, vframe, plist>>

-----------------------------------------------------------------------------
(* Property lists.  The loops do not test for interrupts: on a circular     *)
(* list without the property they never return, and have no outcome.        *)

Pair(h, p, prop) ==
  TestedLoop([heap |-> h, list |-> p],
             LAMBDA s : CONSP(s.list) /\ CONSP(h.cdr[s.list]) /\ ~Equal(h, h.car[s.list], prop),
             LAMBDA s : FALSE,
             LAMBDA s : [s EXCEPT !.list = h.cdr[h.cdr[@]]],
             LAMBDA s : Outcome(h, IF CONSP(s.list) /\ CONSP(h.cdr[s.list]) THEN h.cdr[s.list] ELSE Nil))
Plist == IF plist = Void THEN Nil ELSE plist

PCall(fn, args, h, p, val) ==
  /\ Ready /\ vframe = VIdle
  /\ heap' = h /\ plist' = p
  /\ reply' = [fn |-> fn, args |-> args, old |-> [heap |-> heap, plist |-> Plist], val |-> val, seen |-> <<>>]
  /\ ops' = ops + 1
  /\ UNCHANGED <<x, y, frame, vec, vframe>>

Fget(prop) ==
  \E o \in Pair(heap, Plist, prop) :
    PCall("get", <<prop>>, heap, plist, IF o.val = Nil THEN Nil ELSE heap.car[o.val])
Fput(prop, v) ==
  \E o \in Pair(heap, Plist, prop) :
    IF o.val # Nil
    THEN PCall("put", <<prop, v>>, [heap EXCEPT !.car[o.val] = v], plist, v)
    ELSE LET new == Consed(heap, <<prop, v>>, Plist) IN
         RoomFor(heap, 2) /\ PCall("put", <<prop, v>>, new.heap, new.val, v)
Fsetplist(l) == PCall("setplist", <<l>>, heap, l, l)
Fsymbol_plist == PCall("symbol-plist", <<>>, heap, plist, Plist)

\* A symbol that a restricted environment hides; only get does not look.
Inaccessible(fn) == PCall(fn, <<>>, heap, plist, Null)

PlistCall ==
  \/ \E p \in Prop : Fget(p) \/ \E v \in Atom : Fput(p, v)
  \/ Fsetplist(x)
  \/ Fsymbol_plist
  \/ \E fn \in {"put", "setplist", "symbol-plist"} : Inaccessible(fn)

-----------------------------------------------------------------------------
Init ==
  \E s \in Starts :
    /\ heap = s.heap /\ x = s.x /\ y = s.y /\ ops = 0
    /\ plist = s.plist
    /\ vec = Vector(s.vec, s.writable)
    /\ frame = Idle /\ vframe = VIdle /\ reply = Quiet

Next ==
  \/ vframe = VIdle /\ ListsNext /\ UNCHANGED vectors
  \/ vframe = VIdle /\ GarbageCollect(ToSet(vec.elts) \cup {plist}) /\ UNCHANGED vectors
  \/ VectorCall \/ SequenceCall \/ VectorWalk \/ WalkSets \/ WalkThrows
  \/ \E v \in Verdict : WalkReturns(v)
  \/ PlistCall

Spec == Init /\ [][Next]_vars
=============================================================================
