--------------------------- MODULE StructuresProps ---------------------------
(***************************************************************************)
(* Correctness properties of structures and of the cache of searches.      *)
(***************************************************************************)
EXTENDS Structures

(* What a search of the structures s has opened finds, without any cache:   *)
(* the first of them that exports v gives the binding, its own or one that  *)
(* it exports but inherits.  A structure is not searched from within itself.*)
RECURSIVE Resolve(_, _, _)
Resolve(s, v, excl) ==
  LET From(e) ==
        LET t == FindStructure(e) IN
        IF t \in excl \cup {None} THEN None
        ELSE IF <<t, v>> \in bound THEN IF Visible(t, v) THEN <<t, v>> ELSE None
        ELSE IF StructureExportsInherited(t, v) THEN Resolve(t, v, excl \cup {t})
        ELSE None
      found == SelectSeq(imports[s], LAMBDA e : From(e) # None)
  IN IF found = <<>> THEN None ELSE From(Head(found))

(* Whatever was defined, removed, exported, opened, loaded or collected     *)
(* since a result was cached, searching again would give the same one; only *)
(* while open-structures is at work, and before it flushes the cache, may a *)
(* line be out of date.  Even then the cache never gives a freed node, one  *)
(* of a freed structure, or one that its structure keeps private.           *)
CacheCoherent ==
  /\ (\A i \in 1 .. Len(stack) : stack[i].k # "open")
       => \A l \in ToSet(cache) : l.n = Resolve(l.s, l.v, {})
  /\ \A l \in ToSet(cache) :
       l.s \in live /\ (l.n # None => l.n \in bound /\ Visible(l.n[1], l.n[2]))

Exports(s) ==
  {v \in Vars : IF <<s, v>> \in bound THEN Visible(s, v) ELSE StructureExportsInherited(s, v)}

(* A structure goes on exporting the symbols of its interface, whether it   *)
(* comes to define them itself or not and whatever other structures do;     *)
(* only set-structure-interface! takes a symbol away.                       *)
ExportsKept ==
  [][\A s \in live \cap live' :
       Exports(s) \subseteq Exports(s)' \/ \E sig \in SUBSET Vars : SetStructureInterface(s, sig)]_vars
=============================================================================
