----------------------------- MODULE TablesProps -----------------------------
(***************************************************************************)
(* Properties of a hash table (module Tables), and the proof obligation    *)
(* that it implements a map (module Map).                                  *)
(***************************************************************************)
EXTENDS Tables

\* A node in a bucket was filed under the hash code of its key, no two nodes
\* stand for one key and the count is right, also while functions called by
\* an operation use the table and when the buckets have been reallocated.
\* No operation in progress points to a node that has been freed, and no node
\* holds a key that has been collected: a weak table loses the entry before
\* the memory of its key is used again.  (tables.c:411 table-set!, 373 lookup,
\* 128 table_after_gc)
WellFormed ==
  /\ \A b \in 1 .. Len(bins) : \A i \in 1 .. Len(bins[b]) :
       LET n == bins[b][i]
       IN node[n] # FreeNode /\ node[n].hash = HashKey(node[n].key) /\ Bin(node[n].hash, Len(bins)) = b
  /\ \A m, n \in Linked : Same(node[m].key, node[n].key) => m = n
  /\ total_nodes = Cardinality(Linked)
  /\ \A n \in Held : node[n] # FreeNode
  /\ \A n \in Linked : object[node[n].key] # "free"

\* A collection takes from a weak table only entries whose key Lisp code has
\* dropped, or is equal? to a key that it has dropped and that was stored in
\* the table earlier.  (tables.c:128 table_after_gc)
WeakKept ==
  [][\A n \in Linked \cap Cleared :
       GarbageCollect =>
         \/ object[node[n].key] = "dropped"
         \/ test = "equal" /\ \E k \in Popped : k # node[n].key]_vars

\* table-for-each calls its function once for every entry that is there from
\* the beginning to the end of the walk, if the function does not fail, and
\* never twice for one entry.  (tables.c:513 table-for-each)
WalkComplete ==
  [][\A i \in 1 .. Len(stack) :
       stack[i].op = "walk" =>
         /\ IsInjective(stack[i].seen)
         /\ Len(stack') < i /\ ~stack[i].threw /\ reply'.r # Failed
              => Linked \subseteq ToSet(stack[i].seen)]_vars

Entry(k) ==
  LET ns == {n \in Linked : Same(k, node[n].key)}
  IN IF ns = {} THEN Nil ELSE node[CHOOSE n \in ns : TRUE].value

KindOf == [k \in Key |-> CHOOSE l \in Key : Same(k, l)]

Abstract == INSTANCE Map WITH kind <- KindOf, map <- [k \in Key |-> Entry(k)]

\* However its operations are nested, a table behaves as a map does: each
\* operation takes effect at one instant between its call and its return, and
\* what the collector takes from it is what WeakKept allows.
\* (tables.c:363 lookup, 382 table-ref, 411 table-set!, 484 table-delete!)
ImplementsMap == Abstract!Spec /\ WeakKept
=============================================================================
