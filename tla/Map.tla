-------------------------------- MODULE Map --------------------------------
(***************************************************************************)
(* What a table promises: a partial function on keys that does not tell    *)
(* keys of one kind apart.  Each operation takes effect at one instant, on *)
(* the entry of its own key, and answers from that entry; the entries of a *)
(* weak table may vanish; an operation that fails may have changed one     *)
(* entry, not necessarily its own.                                         *)
(***************************************************************************)
CONSTANTS Key, Value, Nil, Failed

VARIABLES
  kind,    \* function from keys to what the comparison tells apart
  weak,
  map,     \* function from keys to values, or Nil
  reply    \* the operation that has just ended and what it returned

Put(k, v) == [l \in Key |-> IF kind[l] = kind[k] THEN v ELSE map[l]]
Answer(op, k, r) == [op |-> op, key |-> k, r |-> r]

None == Answer("none", Nil, Nil)

Init ==
  /\ kind \in [Key -> Key] /\ weak \in BOOLEAN
  /\ map = [k \in Key |-> Nil]
  /\ reply = None

Ref == \E k \in Key : reply' = Answer("ref", k, map[k]) /\ UNCHANGED map
Set == \E k \in Key, v \in Value : reply' = Answer("set", k, Nil) /\ map' = Put(k, v)
Delete == \E k \in Key : reply' = Answer("delete", k, Nil) /\ map' = Put(k, Nil)
Walk == \E r \in {Nil, Failed} : reply' = Answer("walk", Nil, r) /\ UNCHANGED map
Fail ==
  \E k \in Key, op \in {"ref", "set", "delete"} :
    /\ reply' = Answer(op, k, Failed)
    /\ map' = map \/ \E l \in Key, v \in Value \cup {Nil} : op # "ref" /\ map' = Put(l, v)
Vanish ==
  /\ weak /\ reply' = None
  /\ DOMAIN map' = Key /\ \A k \in Key : map'[k] \in {map[k], Nil}

Quiet == reply' = None /\ UNCHANGED map

Next == (Quiet \/ Ref \/ Set \/ Delete \/ Walk \/ Fail \/ Vanish) /\ UNCHANGED <<kind, weak>>

Spec == Init /\ [][Next]_<<kind, weak, map, reply>>
=============================================================================
