--------------------------- MODULE CollectorProps ---------------------------
(***************************************************************************)
(* Correctness properties of the garbage collector.                        *)
(***************************************************************************)
EXTENDS Collector

(* Cells reached from S by following Next(o) from each cell o. *)
Reach(S, Succ(_)) ==
  LET step[n \in 0 .. Cardinality(Obj)] ==
        IF n = 0 THEN S
        ELSE step[n - 1] \cup UNION {Succ(o) : o \in step[n - 1]}
  IN step[Cardinality(Obj)]

Fields(o) == {car[o], cdr[o]} \ {Nil}

(* Everything Lisp or the C code can still get at: strong references, what  *)
(* guardians hold, weak references, origins and cached expansions.          *)
Usable ==
  Reach(roots \cup weakRefs \cup UNION {{e[1], e[2]} : e \in origins \cup history}, Fields)

PairFields(o) == IF kind[o] = "pair" THEN Fields(o) ELSE {}
StrongFields(o) == IF kind[o] = "weak" THEN {} ELSE Fields(o)

(* What the program can get at without a guardian or a weak reference. *)
Accessible == Reach(roots, PairFields)

(* The collector frees nothing that can still be used: after any number of  *)
(* collections every field, list and cache refers to allocated cells.       *)
NoDangling == phase = "idle" => Usable \subseteq Allocated

(* What the collector reports as gone is gone.  A guardian returns only     *)
(* objects "proved to be inaccessible": one still accessible when the       *)
(* collector runs is not moved to the list of inaccessible ones, whichever  *)
(* guardians and lists precede it.  A weak reference is cleared only when   *)
(* the same collection frees its object: not while the object is            *)
(* accessible, and not when a guardian has just brought it back.            *)
ReportedGone ==
  [][/\ MoveInaccessible => car[Cell] \notin Accessible
     /\ phase # "idle" /\ kind' = kind =>
          \A w \in weakRefs : car'[w] # car[w] =>
            car[w] \notin Reach(roots \cup (Of("guardian") \cap marked), StrongFields)]_vars

(* What survives a collection is referred to by the program, by an origin   *)
(* or by some guardian: no other garbage is kept.                           *)
GarbageFreed ==
  phase = "origins" =>
    marked \subseteq Reach(roots \cup Of("guardian") \cup {e[2] : e \in origins},
                          StrongFields)

=============================================================================
