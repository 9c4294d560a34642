------------------------------- MODULE Tables -------------------------------
(***************************************************************************)
(* A hash table of librep (src/src/tables.c): chained buckets that grow, a *)
(* hash and a comparison function that are Lisp code and may use the table *)
(* again, the walk of table-for-each, and weak tables, which leave it to a *)
(* guardian to tell which keys are gone.                                   *)
(*                                                                         *)
(* The functions called keep to one class of keys: two keys are the same   *)
(* to the comparison if they are one object (eq) or in one class (equal).  *)
(* The hash function does not fail; the comparison may.                    *)
(***************************************************************************)
EXTENDS Integers, SequencesExt

CONSTANTS
  Key,           \* objects used as keys
  Class,         \* classes of keys that are equal? to each other
  ClassOf,       \* function from keys to classes
  Hash,          \* function from classes to hash codes
  Value,         \* values stored
  Node,          \* memory for nodes
  Nil,           \* the null pointer, and no value
  Failed,        \* the reply of an operation that was left by a throw
  FirstSize,     \* buckets of the first allocation (31 in the code)
  CallbackOps,   \* what Lisp code called from an operation may do
  MaxDepth,      \* bound on nested operations
  MaxGone        \* bound on keys that are not live

ASSUME TablesAssumption ==
  /\ ClassOf \in [Key -> Class] /\ Hash \in [Class -> Nat]
  /\ FirstSize \in Nat \ {0} /\ MaxDepth \in Nat /\ MaxGone \in Nat
  /\ Nil \notin Node \cup Value /\ Failed \notin Value \cup {Nil}

VARIABLES
  test,          \* the comparison function: "eq" or "equal"
  weak,          \* the table was made by make-weak-table
  bins,          \* buckets: sequences of nodes, in the order of the links
  node,          \* the contents of the nodes, or FreeNode
  total_nodes,
  guardian,      \* keys under the protection of the table's guardian
  object,        \* "live", "dropped" by Lisp code, or "free"
  stack,         \* operations in progress, the innermost last
  reply          \* what the operation that ended in the last step returned

vars == <<test, weak, bins, node, total_nodes, guardian, object, stack, reply>>
table == <<bins, node, total_nodes, guardian>>

FreeNode == [key |-> Nil, value |-> Nil, hash |-> 0]

Same(k, l) == IF test = "eq" THEN k = l ELSE ClassOf[k] = ClassOf[l]
HashKey(k) == Hash[ClassOf[k]]
Bin(h, size) == (h % size) + 1

Linked == UNION {ToSet(bins[b]) : b \in 1 .. Len(bins)}

\* The nodes of s that are in S, in their order.
Keep(s, S) ==
  LET kept[i \in 0 .. Len(s)] ==
        IF i = 0 THEN <<>> ELSE IF s[i] \in S THEN Append(kept[i - 1], s[i]) ELSE kept[i - 1]
  IN kept[Len(s)]

\* The nodes after ptr, as the links have them, and those from bin i on.
After(ptr) ==
  LET b == CHOOSE c \in 1 .. Len(bins) : ptr \in ToSet(bins[c])
      p == CHOOSE q \in 1 .. Len(bins[b]) : bins[b][q] = ptr
  IN SubSeq(bins[b], p + 1, Len(bins[b]))
From(i) == FlattenSeq(SubSeq(bins, i, Len(bins)))
First(s) == IF s = <<>> THEN Nil ELSE Head(s)

-----------------------------------------------------------------------------
(* Operations in progress *)

Frame(op, key, value, pc, ptr) ==
  [op |-> op, key |-> key, value |-> value, pc |-> pc, ptr |-> ptr,
   seen |-> <<>>, threw |-> FALSE]

Busy == stack # <<>>
Top == Last(stack)
Lisp == ~Busy \/ Len(stack) <= MaxDepth
May(op) == Lisp /\ (Busy => op \in CallbackOps)

Push(f) == stack' = Append(stack, f)
Become(f) == stack' = Append(Front(stack), f)
Answer(op, k, r) == [op |-> op, key |-> k, r |-> r]
Quiet == reply' = Answer("none", Nil, Nil)
Return(r) == stack' = Front(stack) /\ reply' = Answer(Top.op, Top.key, r)

\* Nodes an operation in progress points to, and the keys they hold: these
\* are the arguments of the functions that are running.
Held == {stack[i].ptr : i \in 1 .. Len(stack)} \ {Nil}
InUse == {stack[i].key : i \in 1 .. Len(stack)} \cup {node[n].key : n \in Held \ {m \in Node : node[m] = FreeNode}}

Init ==
  /\ test \in {"eq", "equal"}
  /\ weak \in BOOLEAN
  /\ bins = <<>>
  /\ node = [n \in Node |-> FreeNode]
  /\ total_nodes = 0
  /\ guardian = {}
  /\ object = [k \in Key |-> "live"]
  /\ stack = <<>>
  /\ reply = Answer("none", Nil, Nil)

\* lookup(): without buckets no key is hashed.
Start(op, key, value) ==
  IF bins # <<>>
  THEN Push(Frame(op, key, value, "hash", Nil)) /\ Quiet /\ UNCHANGED table
  ELSE IF op = "set"
  THEN Push(Frame(op, key, value, "rehash", Nil)) /\ Quiet /\ UNCHANGED table
  ELSE reply' = Answer(op, key, Nil) /\ UNCHANGED <<table, stack>>

TableRef(key) == May("ref") /\ Start("ref", key, Nil)

\* A function called from an operation sets keys that are in the table unless
\* it may make the table grow.
TableSet(key, value) ==
  /\ May("set")
  /\ Busy /\ "grow" \notin CallbackOps => \E n \in Linked : Same(key, node[n].key)
  /\ Start("set", key, value)

\* ... and deletes keys no operation in progress points to, likewise.
TableDelete(key) ==
  /\ May("delete")
  /\ Busy /\ "delete-held" \notin CallbackOps => \A n \in Held : ~Same(key, node[n].key)
  /\ Start("delete", key, Nil)

Without(n) == [b \in 1 .. Len(bins) |-> Keep(bins[b], Node \ {n})]

Unlink(n) ==
  /\ bins' = Without(n)
  /\ node' = [node EXCEPT ![n] = FreeNode]
  /\ total_nodes' = total_nodes - 1
  /\ UNCHANGED guardian

\* lookup() has found n, or nothing.
Found(f, n) ==
  CASE f.op = "ref" -> Return(IF n = Nil THEN Nil ELSE node[n].value) /\ UNCHANGED table
    [] f.op = "delete" ->
         Return(Nil) /\ IF n = Nil THEN UNCHANGED table ELSE Unlink(n)
    [] f.op = "set" /\ n = Nil ->
         Become([f EXCEPT !.pc = "rehash", !.ptr = Nil]) /\ Quiet /\ UNCHANGED table
    [] f.op = "set" /\ n # Nil ->
         /\ node' = [node EXCEPT ![n].value = f.value]
         /\ Return(Nil) /\ UNCHANGED <<bins, total_nodes, guardian>>

\* Only nodes with the same hash code are compared.
GoOn(f, nodes) ==
  LET rest == Keep(nodes, {n \in Node : node[n].hash = HashKey(f.key)})
  IN IF rest = <<>> THEN Found(f, Nil)
     ELSE Become([f EXCEPT !.pc = "compare", !.ptr = Head(rest)]) /\ Quiet /\ UNCHANGED table

HashReturns ==
  /\ Busy /\ Top.pc = "hash"
  /\ GoOn(Top, bins[Bin(HashKey(Top.key), Len(bins))])

\* Mutant: nodes with the same hash code are taken for the same.
CompareReturns_HashOnly == Busy /\ Top.pc = "compare" /\ Found(Top, Top.ptr)

CompareReturns ==
  /\ Busy /\ Top.pc = "compare"
  /\ IF Same(Top.key, node[Top.ptr].key) THEN Found(Top, Top.ptr)
     ELSE GoOn(Top, After(Top.ptr))

\* A null result is not nil: the node counts as found.
CompareThrows ==
  /\ Busy /\ Top.pc = "compare"
  /\ Top.op = "delete" /\ "delete-held" \notin CallbackOps
       => \A i \in 1 .. Len(stack) - 1 : stack[i].ptr # Top.ptr
  /\ IF Top.op = "ref" THEN Return(Failed) /\ UNCHANGED table
     ELSE IF Top.op = "delete" THEN Return(Failed) /\ Unlink(Top.ptr)
     ELSE /\ node' = [node EXCEPT ![Top.ptr].value = Top.value]
          /\ Return(Failed) /\ UNCHANGED <<bins, total_nodes, guardian>>

\* The nodes are moved one by one to the head of their new bucket.
Grown(size) ==
  LET all == From(1)
  IN [b \in 1 .. size |-> Reverse(Keep(all, {n \in Node : Bin(node[n].hash, size) = b}))]

Unused == {m \in Node : node[m] = FreeNode}

\* Mutant: the new node is filed by the size the table had.
RehashReturns_OldSize ==
  /\ Busy /\ Top.pc = "rehash"
  /\ \E n \in Unused :
       LET f == Top
           old == Len(bins)
           size == IF total_nodes + 1 < 2 * old THEN old
                   ELSE IF old = 0 THEN FirstSize ELSE 2 * (old + 1) - 1
           new == IF size = old THEN bins ELSE Grown(size)
           bin == Bin(HashKey(f.key), IF old = 0 THEN size ELSE old)
       IN /\ bins' = [new EXCEPT ![bin] = <<n>> \o @]
          /\ node' = [node EXCEPT ![n] = [key |-> f.key, value |-> f.value, hash |-> HashKey(f.key)]]
          /\ total_nodes' = total_nodes + 1
          /\ guardian' = IF weak THEN guardian \cup {f.key} ELSE guardian
          /\ Return(Nil)

RehashReturns ==
  /\ Busy /\ Top.pc = "rehash"
  /\ \E n \in Unused :
       LET f == Top
           old == Len(bins)
           size == IF total_nodes + 1 < 2 * old THEN old
                   ELSE IF old = 0 THEN FirstSize ELSE 2 * (old + 1) - 1
           new == IF size = old THEN bins ELSE Grown(size)
       IN /\ bins' = [new EXCEPT ![Bin(HashKey(f.key), size)] = <<n>> \o @]
          /\ node' = [node EXCEPT ![n] = [key |-> f.key, value |-> f.value, hash |-> HashKey(f.key)]]
          /\ total_nodes' = total_nodes + 1
          /\ guardian' = IF weak THEN guardian \cup {f.key} ELSE guardian
          /\ Return(Nil)

-----------------------------------------------------------------------------
(* table-for-each *)

\* The function is called for the node, or the walk is over.
Visit(f, n, i, threw) ==
  IF n = Nil THEN Return(IF threw THEN Failed ELSE Nil)
  ELSE /\ Become([f EXCEPT !.ptr = n, !.seen = Append(@, n), !.value = i, !.threw = threw])
       /\ Quiet

\* The loop variable of a walk is kept in the field value.
BinOf(n) == CHOOSE b \in 1 .. Len(bins) : n \in ToSet(bins[b])

TableForEach ==
  /\ ~Busy /\ From(1) # <<>>
  /\ LET n == Head(From(1))
     IN Push([Frame("walk", Nil, BinOf(n), "call", n) EXCEPT !.seen = <<n>>])
  /\ Quiet /\ UNCHANGED table

\* Mutant: the walk goes on with the next bucket.
WalkReturns_OnePerBin ==
  /\ Busy /\ Top.pc = "call"
  /\ LET rest == From(Top.value + 1)
     IN Visit(Top, First(rest), IF rest = <<>> THEN 0 ELSE BinOf(First(rest)), Top.threw)
  /\ UNCHANGED table

WalkReturns ==
  /\ Busy /\ Top.pc = "call"
  /\ LET rest == After(Top.ptr) \o From(Top.value + 1)
     IN Visit(Top, First(rest), IF rest = <<>> THEN 0 ELSE BinOf(First(rest)), Top.threw)
  /\ UNCHANGED table

\* break leaves the inner loop only.
WalkThrows ==
  /\ Busy /\ Top.pc = "call"
  /\ LET rest == From(Top.value + 1)
     IN Visit(Top, First(rest), IF rest = <<>> THEN 0 ELSE BinOf(First(rest)), TRUE)
  /\ UNCHANGED table

-----------------------------------------------------------------------------
(* Garbage *)

Drop ==
  \E k \in Key :
    /\ Lisp /\ object[k] = "live" /\ k \notin InUse
    /\ Cardinality({l \in Key : object[l] # "live"}) < MaxGone
    /\ object' = [object EXCEPT ![k] = "dropped"]
    /\ Quiet /\ UNCHANGED <<table, stack>>

\* A function keeps the key it was called with.
Retain ==
  \E k \in InUse \cap Key :
    /\ Lisp /\ object[k] = "dropped"
    /\ object' = [object EXCEPT ![k] = "live"]
    /\ Quiet /\ UNCHANGED <<table, stack>>

\* The keys the guardian gives back, and the nodes table_after_gc() deletes.
Unreachable == {k \in Key : object[k] = "dropped" /\ k \notin InUse}
Popped == guardian \cap Unreachable
Cleared == {n \in Linked : \E k \in Popped : Same(k, node[n].key)}

\* The keys of a table that is not weak are marked.
Unmarked ==
  {k \in Unreachable \ guardian : weak \/ \A n \in Linked : node[n].key # k}

GarbageCollect ==
  /\ Lisp
  /\ Busy => "gc" \in CallbackOps /\ (test = "eq" \/ "equal-gc" \in CallbackOps)
  /\ Unreachable # {}
  /\ bins' = [b \in 1 .. Len(bins) |-> Keep(bins[b], Node \ Cleared)]
  /\ node' = [n \in Node |-> IF n \in Cleared THEN FreeNode ELSE node[n]]
  /\ total_nodes' = total_nodes - Cardinality(Cleared)
  /\ guardian' = guardian \ Popped
  /\ object' = [k \in Key |-> IF k \in Unmarked THEN "free" ELSE object[k]]
  /\ Quiet /\ UNCHANGED stack

Allocate ==
  \E k \in Key :
    /\ Lisp /\ object[k] = "free"
    /\ object' = [object EXCEPT ![k] = "live"]
    /\ Quiet /\ UNCHANGED <<table, stack>>

Call ==
  \E k \in Key :
    /\ object[k] = "live"
    /\ TableRef(k) \/ TableDelete(k) \/ \E v \in Value : TableSet(k, v)

Operation ==
  \/ Call
  \/ HashReturns
  \/ CompareReturns
  \/ CompareThrows
  \/ RehashReturns
  \/ TableForEach
  \/ WalkReturns
  \/ WalkThrows

Next ==
  \/ Operation /\ UNCHANGED <<test, weak, object>>
  \/ (Drop \/ Retain \/ GarbageCollect \/ Allocate) /\ UNCHANGED <<test, weak>>

Spec == Init /\ [][Next]_vars
=============================================================================
