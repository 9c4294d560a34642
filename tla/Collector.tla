------------------------------ MODULE Collector ------------------------------
(***************************************************************************)
(* The mark-and-sweep garbage collector of src/src/gc.c with the objects   *)
(* that it treats specially: guardians (src/src/guardians.c), weak         *)
(* references (src/src/weak-refs.c), the lexical origins of forms          *)
(* (src/src/origin.c) and the cache of macro expansions (src/src/macros.c).*)
(*                                                                         *)
(* An object is a cell with two fields.  A pair uses both; a weak          *)
(* reference holds its object in car; a guardian holds the heads of its    *)
(* accessible and inaccessible lists in car and cdr, and those lists are   *)
(* made of pairs.  The collector stops the program, so its steps           *)
(* interleave with nothing; they are separate because what one loop leaves *)
(* marked decides where the next one stops.                                *)
(***************************************************************************)
EXTENDS Naturals, FiniteSets

CONSTANTS
  Obj,         \* the cells of the heap
  Nil,         \* the empty list: no cell
  Static,      \* statically allocated cells (subrs): neither marked nor swept
  MaxTracked,  \* bound on weak references, origins and cached expansions together
  MaxRoots,    \* bound on the cells, weak references apart, the roots refer to
  LispOps      \* what the Lisp program does

ASSUME CollectorAssumption ==
  /\ Nil \notin Obj
  /\ IsFiniteSet(Obj)
  /\ Static \subseteq Obj
  /\ MaxTracked \in Nat
  /\ MaxRoots \in Nat

VARIABLES
  kind,      \* what the cell holds, "free" when it is on a free list
  car, cdr,  \* its fields
  roots,     \* cells the roots refer to: static roots, rep_gc_root_stack,
             \* the call stack and the types' own roots
  weakRefs,  \* the list weak_refs
  origins,   \* recorded (form, file) pairs
  history,   \* (form, expansion) pairs of macroexpand
  phase,     \* what the collector does, "idle" while the program runs
  marked,    \* cells whose mark bit is set
  grey,      \* values for which rep_MARKVAL() is still to be called
  guard,     \* the guardian rep_run_guardians() is at
  todo,      \* the guardians after it in the list guardians
  ptr,       \* the cell that holds *ptr
  changed    \* changed_list

heapVars == <<kind, car, cdr>>
lispVars == <<roots, weakRefs, origins, history>>
gcVars == <<phase, marked, grey, guard, todo, ptr, changed>>
vars == <<heapVars, lispVars, gcVars>>

Ref == Obj \cup {Nil}
Kinds == {"free", "pair", "weak", "guardian", "subr"}
Phases == {"idle", "mark", "scan", "remark", "weak", "origins", "sweep"}

Allocated == {o \in Obj : kind[o] # "free"}
Of(k) == {o \in Obj : kind[o] = k}

TypeOK ==
  /\ kind \in [Obj -> Kinds]
  /\ car \in [Obj -> Ref]
  /\ cdr \in [Obj -> Ref]
  /\ roots \subseteq Obj
  /\ weakRefs \subseteq Obj
  /\ origins \subseteq Obj \X Obj
  /\ history \subseteq Obj \X Obj
  /\ phase \in Phases
  /\ marked \subseteq Obj \ Static
  /\ grey \subseteq Obj \ Static
  /\ guard \in Ref
  /\ todo \subseteq Obj
  /\ ptr \in Ref
  /\ changed \subseteq Obj

Init ==
  /\ kind = [o \in Obj |-> IF o \in Static THEN "subr" ELSE "free"]
  /\ car = [o \in Obj |-> Nil]
  /\ cdr = [o \in Obj |-> Nil]
  /\ roots = {}
  /\ weakRefs = {}
  /\ origins = {}
  /\ history = {}
  /\ phase = "idle"
  /\ marked = {}
  /\ grey = {}
  /\ guard = Nil
  /\ todo = {}
  /\ ptr = Nil
  /\ changed = {}

-----------------------------------------------------------------------------
(* The Lisp program.  It works on the values its variables refer to; a      *)
(* result goes to a variable.                                               *)

(* A value is bound to a variable. *)
Bind(v) ==
  /\ roots' = roots \cup ({v} \ Static)
  /\ Cardinality(roots' \ weakRefs') <= MaxRoots

Lisp(op) == phase = "idle" /\ op \in LispOps

Values == roots \cup Static

(* Where guardians and subrs may end up: a guardian is stored in another    *)
(* object, and a subr handed to a guardian or a weak reference, only when   *)
(* "nest" and "static" are among LispOps.                                   *)
Storable == {v \in Values : kind[v] = "guardian" => "nest" \in LispOps}
Guardable == {v \in Storable : kind[v] = "subr" => "static" \in LispOps}

Room == Cardinality(weakRefs) + Cardinality(origins) + Cardinality(history) < MaxTracked

Alloc(o, k, a, d) ==
  /\ kind[o] = "free"
  /\ kind' = [kind EXCEPT ![o] = k]
  /\ car' = [car EXCEPT ![o] = a]
  /\ cdr' = [cdr EXCEPT ![o] = d]

(* Pairs.  "tree" lets them have two fields in use. *)
Cons(o, a, d) ==
  /\ Lisp("cons")
  /\ d # Nil => "tree" \in LispOps
  /\ Alloc(o, "pair", a, d)
  /\ UNCHANGED <<weakRefs, origins, history, gcVars>>
  /\ Bind(o)

SetCar(p, v) ==
  /\ Lisp("set")
  /\ kind[p] = "pair"
  /\ car' = [car EXCEPT ![p] = v]
  /\ UNCHANGED <<kind, cdr, lispVars, gcVars>>

Car(p) ==
  /\ Lisp("car")
  /\ kind[p] = "pair" /\ car[p] # Nil
  /\ UNCHANGED <<heapVars, weakRefs, origins, history, gcVars>>
  /\ Bind(car[p])

DropRoot(o) ==
  /\ phase = "idle"
  /\ roots' = roots \ {o}
  /\ UNCHANGED <<heapVars, weakRefs, origins, history, gcVars>>

MakeWeak(o, v) ==
  /\ Lisp("weak") /\ Room
  /\ Alloc(o, "weak", v, Nil)
  /\ weakRefs' = weakRefs \cup {o}
  /\ Bind(o)
  /\ UNCHANGED <<origins, history, gcVars>>

WeakRef(w) ==
  /\ Lisp("weak")
  /\ kind[w] = "weak" /\ car[w] # Nil
  /\ UNCHANGED <<heapVars, weakRefs, origins, history, gcVars>>
  /\ Bind(car[w])

WeakSet(w, v) ==
  /\ Lisp("weak")
  /\ kind[w] = "weak"
  /\ car' = [car EXCEPT ![w] = v]
  /\ UNCHANGED <<kind, cdr, lispVars, gcVars>>

MakeGuardian(o) ==
  /\ Lisp("guardian")
  /\ Alloc(o, "guardian", Nil, Nil)
  /\ UNCHANGED <<weakRefs, origins, history, gcVars>>
  /\ Bind(o)

GuardianPush(g, v, c) ==
  /\ Lisp("guardian")
  /\ kind[g] = "guardian" /\ kind[c] = "free"
  /\ kind' = [kind EXCEPT ![c] = "pair"]
  /\ car' = [car EXCEPT ![c] = v, ![g] = c]
  /\ cdr' = [cdr EXCEPT ![c] = car[g]]
  /\ UNCHANGED <<lispVars, gcVars>>

GuardianPop(g) ==
  /\ Lisp("guardian")
  /\ kind[g] = "guardian" /\ cdr[g] # Nil
  /\ cdr' = [cdr EXCEPT ![g] = cdr[cdr[g]]]
  /\ UNCHANGED <<kind, car, weakRefs, origins, history, gcVars>>
  /\ Bind(car[cdr[g]])

(* The reader notes where a form comes from. *)
RecordOrigin(form, file) ==
  /\ Lisp("origin")
  /\ kind[form] = "pair"
  /\ Room
  /\ origins' = origins \cup {<<form, file>>}
  /\ UNCHANGED <<heapVars, roots, weakRefs, history, gcVars>>

Macroexpand(form, expansion) ==
  /\ Lisp("macro")
  /\ kind[form] = "pair"
  /\ Room
  /\ \A e \in history : e[1] # form
  /\ history' = history \cup {<<form, expansion>>}
  /\ UNCHANGED <<heapVars, roots, weakRefs, origins, gcVars>>

-----------------------------------------------------------------------------
(* Marking.                                                                 *)

(* Mutant of MarkedFields: a weak reference marks its object. *)
MarkedFields_Weak(o) ==
  CASE kind[o] \in {"pair", "weak"} -> {car[o], cdr[o]}
    [] kind[o] = "guardian" -> {cdr[o]}
    [] OTHER -> {}

(* What rep_mark_value() goes on to from o. *)
MarkedFields(o) ==
  CASE kind[o] = "pair" -> {car[o], cdr[o]}
    [] kind[o] = "guardian" -> {cdr[o]}
    [] OTHER -> {}

(* rep_MARKVAL() for each value of S, but for those null or marked. *)
MarkVal(S) == S \ (marked \cup Static \cup {Nil})

(* Mutant of BeforeGC: the cache is kept. *)
BeforeGC_KeepHistory == UNCHANGED history

(* rep_macros_before_gc() *)
BeforeGC == history' = {}

(* rep_mark_origins(): the files of origins are roots, their forms are not. *)
MarkOrigins == {e[2] : e \in origins}

GarbageCollect ==
  /\ phase = "idle"
  /\ "gc" \in LispOps
  /\ BeforeGC
  /\ phase' = "mark"
  /\ grey' = MarkVal(roots \cup MarkOrigins)
  /\ UNCHANGED <<heapVars, roots, weakRefs, origins, marked, guard, todo, ptr, changed>>

MarkValue(o) ==
  /\ phase \in {"mark", "remark"}
  /\ o \in grey
  /\ marked' = marked \cup {o}
  /\ grey' = (grey \cup MarkVal(MarkedFields(o))) \ {o}
  /\ UNCHANGED <<heapVars, lispVars, phase, guard, todo, ptr, changed>>

(* The fields once weak references to unmarked cells are cleared. *)
ClearedWeak ==
  [o \in Obj |-> IF o \in weakRefs \cap marked /\ car[o] \notin marked THEN Nil ELSE car[o]]

(* Mutant of MarkDone: weak references are cleared before guardians run. *)
MarkDone_WeakFirst ==
  /\ phase = "mark" /\ grey = {}
  /\ phase' = "scan"
  /\ car' = ClearedWeak
  /\ todo' = Of("guardian")
  /\ guard' = Nil
  /\ changed' = {}
  /\ UNCHANGED <<kind, cdr, lispVars, marked, grey, ptr>>

MarkDone ==
  /\ phase = "mark" /\ grey = {}
  /\ phase' = "scan"
  /\ todo' = Of("guardian")
  /\ guard' = Nil
  /\ changed' = {}
  /\ UNCHANGED <<heapVars, lispVars, marked, grey, ptr>>

-----------------------------------------------------------------------------
(* rep_run_guardians()                                                      *)

NextGuardian(g) ==
  /\ phase = "scan" /\ guard = Nil
  /\ g \in todo
  /\ guard' = g
  /\ ptr' = g
  /\ todo' = todo \ {g}
  /\ UNCHANGED <<heapVars, lispVars, phase, marked, grey, changed>>

(* The cell that *ptr refers to. *)
Cell == IF ptr = guard THEN car[ptr] ELSE cdr[ptr]

GuardianDone ==
  /\ phase = "scan" /\ guard # Nil
  /\ Cell = Nil
  /\ guard' = Nil
  /\ ptr' = Nil
  /\ UNCHANGED <<heapVars, lispVars, phase, marked, grey, todo, changed>>

KeepAccessible ==
  /\ phase = "scan" /\ guard # Nil
  /\ Cell # Nil /\ car[Cell] \in marked
  /\ marked' = marked \cup {Cell}
  /\ ptr' = Cell
  /\ UNCHANGED <<heapVars, lispVars, phase, grey, guard, todo, changed>>

MoveInaccessible ==
  /\ phase = "scan" /\ guard # Nil
  /\ Cell # Nil /\ car[Cell] \notin marked
  /\ LET c == Cell IN
       /\ car' = IF ptr = guard THEN [car EXCEPT ![guard] = cdr[c]] ELSE car
       /\ cdr' = IF ptr = guard THEN [cdr EXCEPT ![c] = cdr[guard], ![guard] = c]
                 ELSE [cdr EXCEPT ![ptr] = cdr[c], ![c] = cdr[guard], ![guard] = c]
       /\ changed' = changed \cup {car[c]}
       /\ marked' = marked \cup {c}
  /\ UNCHANGED <<kind, lispVars, phase, grey, guard, todo, ptr>>

(* "Mark any objects that changed state." *)
MarkChanged ==
  /\ phase = "scan" /\ guard = Nil /\ todo = {}
  /\ phase' = "remark"
  /\ grey' = MarkVal(changed)
  /\ changed' = {}
  /\ UNCHANGED <<heapVars, lispVars, marked, guard, todo, ptr>>

RemarkDone ==
  /\ phase = "remark" /\ grey = {}
  /\ phase' = "weak"
  /\ UNCHANGED <<heapVars, lispVars, marked, grey, guard, todo, ptr, changed>>

-----------------------------------------------------------------------------
(* rep_scan_weak_refs() *)
ScanWeakRefs ==
  /\ phase = "weak"
  /\ weakRefs' = weakRefs \cap marked
  /\ car' = ClearedWeak
  /\ phase' = "origins"
  /\ UNCHANGED <<kind, cdr, roots, origins, history, marked, grey, guard, todo, ptr,
                 changed>>

(* rep_scan_origins() *)
ScanOrigins ==
  /\ phase = "origins"
  /\ origins' = {e \in origins : e[1] \in marked}
  /\ phase' = "sweep"
  /\ UNCHANGED <<heapVars, roots, weakRefs, history, marked, grey, guard, todo, ptr, changed>>

(* rep_sweep_tuples(), then the sweep function of every type: unmarked      *)
(* cells go to the free lists, the marks of the others are cleared.         *)
Sweep ==
  /\ phase = "sweep"
  /\ kind' = [o \in Obj |-> IF o \in marked \cup Static THEN kind[o] ELSE "free"]
  /\ car' = [o \in Obj |-> IF o \in marked THEN car[o] ELSE Nil]
  /\ cdr' = [o \in Obj |-> IF o \in marked THEN cdr[o] ELSE Nil]
  /\ marked' = {}
  /\ phase' = "idle"
  /\ UNCHANGED <<lispVars, grey, guard, todo, ptr, changed>>

-----------------------------------------------------------------------------
Program ==
  \/ \E o \in Obj, a, d \in Storable \cup {Nil} : Cons(o, a, d)
  \/ \E p \in roots : Car(p) \/ WeakRef(p) \/ GuardianPop(p) \/ DropRoot(p)
  \/ \E p \in roots, v \in Storable \cup {Nil} : SetCar(p, v)
  \/ \E o \in Obj, v \in Guardable : MakeWeak(o, v)
  \/ \E p \in roots, v \in Guardable : WeakSet(p, v)
  \/ \E o \in Obj : MakeGuardian(o)
  \/ \E p \in roots, v \in Guardable, c \in Obj : GuardianPush(p, v, c)
  \/ \E p, q \in roots : RecordOrigin(p, q) \/ Macroexpand(p, q)

Collection ==
  \/ GarbageCollect
  \/ \E o \in grey : MarkValue(o)
  \/ MarkDone
  \/ \E g \in todo : NextGuardian(g)
  \/ GuardianDone \/ KeepAccessible \/ MoveInaccessible
  \/ MarkChanged \/ RemarkDone
  \/ ScanWeakRefs \/ ScanOrigins \/ Sweep

Next == Program \/ Collection

Spec == Init /\ [][Next]_vars

=============================================================================
