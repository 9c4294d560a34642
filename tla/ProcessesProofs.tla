-------------------------- MODULE ProcessesProofs --------------------------
(***************************************************************************)
(* Proofs about Processes, for any number of processes, descriptors,       *)
(* children and nested callbacks.                                          *)
(***************************************************************************)
EXTENDS ProcessesProps, SequenceTheorems, FiniteSetTheorems, WellFoundedInduction, TLAPS

----------------------------------------------------------------------------
(* Numbers and finite sets *)

\* A set of numbers that is not empty has a least one.
LEMMA Least ==
  ASSUME NEW T, T \subseteq Nat, T # {}
  PROVE  /\ Min(T) \in T
         /\ \A y \in T : Min(T) <= y
<1>1. PICK x \in T : \A y \in T : ~(<<y, x>> \in OpToRel(<, Nat))
  BY NatLessThanWellFounded, WFMin
<1>2. \A y \in T : x <= y
  <2> TAKE y \in T
  <2>1. ~(y < x)
    BY <1>1 DEF OpToRel
  <2> QED
    BY <2>1
<1> QED
  BY <1>2 DEF Min

\* A set that holds 0, and n + 1 whenever it holds n, up to a bound, holds all
\* numbers up to the bound.
LEMMA Climb ==
  ASSUME NEW b \in Nat, NEW S, 0 \in S, \A n \in 0 .. b : n \in S /\ n < b => n + 1 \in S
  PROVE  0 .. b \subseteq S
<1> SUFFICES ASSUME 0 .. b \ S # {} PROVE FALSE
  OBVIOUS
<1> DEFINE T == 0 .. b \ S
           x == Min(T)
<1>1. T \subseteq Nat /\ T # {}
  OBVIOUS
<1>2. x \in T /\ \A y \in T : x <= y
  BY <1>1, Least
<1> HIDE DEF x
<1>3. x \in 0 .. b /\ x \notin S /\ x # 0
  BY <1>2
<1>4. x - 1 \in 0 .. b /\ x - 1 < b /\ x - 1 \notin T
  BY <1>2, <1>3
<1> QED
  BY <1>3, <1>4

----------------------------------------------------------------------------
(* The list of notifications *)

Link == Proc \cup {NoProc}

\* W follows the links of the list that begins with head.
Follows(W, head, next) ==
  /\ W \in [0 .. Size -> Link]
  /\ W[0] = head
  /\ \A k \in 1 .. Size : W[k] = IF W[k - 1] = NoProc THEN NoProc ELSE next[W[k - 1]]

LEMMA SizeType == Size \in Nat
  BY ProcessesAssumption, FS_CardinalityType DEF Size

\* The definition of Walk by recursion has a solution.
LEMMA WalkExists ==
  ASSUME NEW head \in Link, NEW next \in [Proc -> Link]
  PROVE  \E W \in [0 .. Size -> Link] :
           W = [k \in 0 .. Size |-> IF k = 0 THEN head
                                    ELSE IF W[k - 1] = NoProc THEN NoProc ELSE next[W[k - 1]]]
<1> DEFINE Upto(W, n) ==
             W = [k \in 0 .. n |-> IF k = 0 THEN head
                                   ELSE IF W[k - 1] = NoProc THEN NoProc ELSE next[W[k - 1]]]
           S == {n \in Nat : \E W \in [0 .. n -> Link] : Upto(W, n)}
<1>1. 0 \in S
  <2> DEFINE W == [k \in 0 .. 0 |-> head]
  <2>1. W \in [0 .. 0 -> Link] /\ Upto(W, 0)
    OBVIOUS
  <2> QED
    BY <2>1
<1>2. ASSUME NEW n \in 0 .. Size, n \in S PROVE n + 1 \in S
  <2>1. n \in Nat
    BY SizeType
  <2>2. PICK W \in [0 .. n -> Link] : Upto(W, n)
    BY <1>2
  <2> DEFINE last == IF W[n] = NoProc THEN NoProc ELSE next[W[n]]
             V == [k \in 0 .. n + 1 |-> IF k = n + 1 THEN last ELSE W[k]]
  <2>3. W[n] \in Link /\ last \in Link
    <3>1. n \in 0 .. n
      BY <2>1
    <3>2. W[n] \in Link
      BY <3>1
    <3> QED
      BY <3>2 DEF Link
  <2> HIDE DEF last
  <2>4. V \in [0 .. n + 1 -> Link]
    BY <2>1, <2>3
  <2>5. ASSUME NEW k \in 0 .. n + 1
        PROVE  V[k] = IF k = 0 THEN head ELSE IF V[k - 1] = NoProc THEN NoProc ELSE next[V[k - 1]]
    <3>1. CASE k = n + 1
      <4>1. k # 0 /\ V[k] = last /\ k - 1 = n /\ V[k - 1] = W[n]
        BY <2>1, <3>1
      <4> QED
        BY <4>1 DEF last
    <3>2. CASE k \in 0 .. n
      <4>1. V[k] = W[k] /\ (k # 0 => V[k - 1] = W[k - 1])
        BY <2>1, <3>2
      <4>2. W[k] = IF k = 0 THEN head ELSE IF W[k - 1] = NoProc THEN NoProc ELSE next[W[k - 1]]
        BY <2>2, <3>2
      <4> HIDE DEF V
      <4> QED
        BY <4>1, <4>2
    <3> QED
      BY <2>1, <3>1, <3>2
  <2> HIDE DEF V
  <2>6. Upto(V, n + 1)
    BY <2>4, <2>5
  <2> QED
    BY <2>1, <2>4, <2>6
<1> HIDE DEF S
<1>3. Size \in S
  BY <1>1, <1>2, Climb, SizeType
<1> QED
  BY <1>3 DEF S

\* Walk follows notify_list.
LEMMA WalkFollows ==
  ASSUME NEW head \in Link, NEW next \in [Proc -> Link], NEW W,
         W = CHOOSE U : U = [k \in 0 .. Size |-> IF k = 0 THEN head
                                                 ELSE IF U[k - 1] = NoProc THEN NoProc ELSE next[U[k - 1]]]
  PROVE  Follows(W, head, next)
<1>1. W = [k \in 0 .. Size |-> IF k = 0 THEN head
                               ELSE IF W[k - 1] = NoProc THEN NoProc ELSE next[W[k - 1]]]
  <2> DEFINE P(U) == U = [k \in 0 .. Size |-> IF k = 0 THEN head
                                              ELSE IF U[k - 1] = NoProc THEN NoProc ELSE next[U[k - 1]]]
  <2>1. \E U : P(U)
    BY WalkExists
  <2>2. W = CHOOSE U : P(U)
    OBVIOUS
  <2> HIDE DEF P
  <2>3. P(W)
    BY <2>1, <2>2
  <2> QED
    BY <2>3 DEF P
<1>2. \A k \in 0 .. Size : W[k] = IF k = 0 THEN head
                                  ELSE IF W[k - 1] = NoProc THEN NoProc ELSE next[W[k - 1]]
  BY <1>1
<1>3. 0 .. Size \subseteq {k \in Nat : W[k] \in Link}
  <2> DEFINE S == {k \in Nat : W[k] \in Link}
  <2>1. 0 \in S
    BY <1>2, SizeType
  <2>2. ASSUME NEW n \in 0 .. Size, n \in S, n < Size PROVE n + 1 \in S
    <3>1. n + 1 \in 0 .. Size /\ n + 1 # 0 /\ (n + 1) - 1 = n /\ n + 1 \in Nat
      BY <2>2, SizeType
    <3>2. W[n + 1] = IF W[n] = NoProc THEN NoProc ELSE next[W[n]]
      BY <1>2, <3>1
    <3> QED
      BY <2>2, <3>1, <3>2 DEF Link
  <2> HIDE DEF S
  <2>3. 0 .. Size \subseteq S
    BY <2>1, <2>2, Climb, SizeType
  <2> QED
    BY <2>3 DEF S
<1>4. W \in [0 .. Size -> Link]
  BY <1>1, <1>3
<1>5. \A k \in 1 .. Size : k \in 0 .. Size /\ k # 0
  BY SizeType
<1>6. W[0] = head
  BY <1>2, SizeType
<1>7. \A k \in 1 .. Size : W[k] = IF W[k - 1] = NoProc THEN NoProc ELSE next[W[k - 1]]
  BY <1>2, <1>5
<1> QED
  BY <1>4, <1>6, <1>7 DEF Follows

Members(W) == {W[k] : k \in 0 .. Size} \ {NoProc}
Has(S, x) == x \in S \cup {NoProc}

\* The list is the least set that holds its head and follows the links, even
\* if the links lead back into the list.
LEMMA MembersLeast ==
  ASSUME NEW head \in Link, NEW next \in [Proc -> Link], NEW W, Follows(W, head, next)
  PROVE  /\ Members(W) \subseteq Proc
         /\ Has(Members(W), head)
         /\ \A x \in Members(W) : Has(Members(W), next[x])
         /\ \A S : Has(S, head) /\ (\A x \in S \cap Proc : Has(S, next[x])) => Members(W) \subseteq S
<1> USE SizeType DEF Follows
<1>1. Members(W) \subseteq Proc
  BY DEF Members, Link
<1>2. Has(Members(W), head)
  <2>1. 0 \in 0 .. Size
    OBVIOUS
  <2> QED
    BY <2>1 DEF Members, Has
<1>3. ASSUME NEW x \in Members(W) PROVE Has(Members(W), next[x])
  \* A step follows the first place where the process is found.
  <2>1. PICK k \in 0 .. Size : W[k] = x /\ x # NoProc
    BY DEF Members
  <2>2. CASE k < Size
    <3>1. k + 1 \in 1 .. Size /\ k + 1 \in 0 .. Size /\ (k + 1) - 1 = k
      BY <2>2
    <3>2. W[k + 1] = next[x]
      BY <2>1, <3>1
    <3> QED
      BY <3>1, <3>2 DEF Members, Has
  <2>3. CASE k = Size
    \* W meets something twice, or it meets everything.
    <3>1. CASE \E i, j \in 0 .. Size : i # j /\ W[i] = W[j]
      <4>1. PICK i \in 0 .. Size, j \in 0 .. Size : i < j /\ W[i] = W[j]
        BY <3>1
      <4> DEFINE T == {m \in Nat : W[i + m] = W[j + m]}
                 b == Size - j
      <4>2. b \in Nat /\ 0 \in T
        BY <4>1
      <4>3. ASSUME NEW m \in 0 .. b, m \in T, m < b PROVE m + 1 \in T
        <5>1. /\ i + (m + 1) \in 1 .. Size /\ (i + (m + 1)) - 1 = i + m
              /\ j + (m + 1) \in 1 .. Size /\ (j + (m + 1)) - 1 = j + m
              /\ m + 1 \in Nat
          BY <4>1, <4>3
        <5>2. W[i + m] = W[j + m]
          BY <4>3
        <5> QED
          BY <5>1, <5>2
      <4> HIDE DEF T
      <4>4. 0 .. b \subseteq T
        BY <4>2, <4>3, Climb
      <4>5. W[i + b] = W[j + b] /\ j + b = Size
        <5>1. b \in 0 .. b /\ j + b = Size
          BY <4>2
        <5>2. b \in T
          BY <4>4, <5>1
        <5> QED
          BY <5>1, <5>2 DEF T
      <4>6. (i + b) + 1 \in 1 .. Size /\ ((i + b) + 1) - 1 = i + b /\ (i + b) + 1 \in 0 .. Size
        BY <4>1, <4>2
      <4>7. W[(i + b) + 1] = next[x]
        BY <2>1, <2>3, <4>5, <4>6
      <4> QED
        BY <4>6, <4>7 DEF Members, Has
    <3>2. CASE ~\E i, j \in 0 .. Size : i # j /\ W[i] = W[j]
      <4>1. W \in Injection(0 .. Size, Link)
        BY <3>2 DEF Injection, IsInjective
      <4>2. IsFiniteSet(Link) /\ Cardinality(Link) = Size + 1
        BY ProcessesAssumption, FS_AddElement DEF Link, Size
      <4>3. IsFiniteSet(0 .. Size) /\ Cardinality(0 .. Size) = Size + 1
        BY FS_Interval
      <4>4. W \in Surjection(0 .. Size, Link)
        BY <4>1, <4>2, <4>3, FS_Injection
      <4>5. PICK m \in 0 .. Size : W[m] = NoProc
        BY <4>4 DEF Surjection, Link
      <4>6. m < Size
        BY <2>1, <2>3, <4>5
      <4>7. m + 1 \in 1 .. Size /\ (m + 1) - 1 = m /\ m + 1 \in 0 .. Size /\ m + 1 # m
        BY <4>6
      <4>8. W[m + 1] = NoProc
        BY <4>5, <4>7
      <4> QED
        BY <3>2, <4>5, <4>7, <4>8
    <3> QED
      BY <3>1, <3>2
  <2> QED
    BY <2>2, <2>3
<1>4. ASSUME NEW S, Has(S, head), \A x \in S \cap Proc : Has(S, next[x])
      PROVE  Members(W) \subseteq S
  <2> DEFINE T == {k \in Nat : Has(S, W[k])}
  <2>1. 0 \in T
    BY <1>4
  <2>2. ASSUME NEW n \in 0 .. Size, n \in T, n < Size PROVE n + 1 \in T
    <3>1. n + 1 \in 1 .. Size /\ (n + 1) - 1 = n /\ n + 1 \in Nat
      BY <2>2
    <3>2. W[n + 1] = IF W[n] = NoProc THEN NoProc ELSE next[W[n]]
      BY <3>1
    <3>3. W[n] \in Link /\ Has(S, W[n])
      BY <2>2
    <3> QED
      BY <1>4, <3>1, <3>2, <3>3 DEF Has, Link
  <2> HIDE DEF T
  <2>3. 0 .. Size \subseteq T
    BY <2>1, <2>2, Climb
  <2> QED
    BY <2>3 DEF T, Members, Has
<1> QED
  BY <1>1, <1>2, <1>3, <1>4

ListTyped == notifyList \in Link /\ notifyNext \in [Proc -> Link]

\* Walk is what its definition says.
LEMMA ListWalk ==
  ASSUME ListTyped PROVE Follows(Walk, notifyList, notifyNext) /\ InList = Members(Walk)
<1>1. Walk = CHOOSE U : U = [k \in 0 .. Size |-> IF k = 0 THEN notifyList
                               ELSE IF U[k - 1] = NoProc THEN NoProc ELSE notifyNext[U[k - 1]]]
  BY DEF Walk
<1> QED
  BY <1>1, WalkFollows DEF InList, Members, ListTyped

\* What is known of the list, in one state and in the next.
ListIs ==
  ListTyped => /\ InList \subseteq Proc
               /\ Has(InList, notifyList)
               /\ \A x \in InList : Has(InList, notifyNext[x])
               /\ \A S : Has(S, notifyList) /\ (\A x \in S \cap Proc : Has(S, notifyNext[x])) => InList \subseteq S

LEMMA ListFacts == ListIs
  BY ListWalk, MembersLeast DEF ListTyped, ListIs

LEMMA ListFactsNext == ListIs'
  BY ListFacts, PTL

\* A process with a link is on the list.
Linked == \A p \in Proc : Queued(p) => p \in InList

\* queue_notification() loses nobody, even where it ties the list into a ring.
LEMMA QueueKeeps ==
  ASSUME ListTyped, Linked, NEW p \in Proc, QueueNotification(p)
  PROVE  /\ ListTyped'
         /\ InList \cup {p} \subseteq InList'
         /\ Linked'
<1>1. ListTyped'
  <2>1. p \in Link
    BY DEF Link
  <2>2. CASE Queued(p)
    BY <2>2 DEF QueueNotification, notifyVars, ListTyped
  <2>3. CASE ~Queued(p)
    BY <2>1, <2>3 DEF QueueNotification, ListTyped
  <2> QED
    BY <2>2, <2>3
<1>2. CASE Queued(p)
  <2>1. notifyNext' = notifyNext /\ notifyList' = notifyList
    BY <1>2 DEF QueueNotification, notifyVars
  <2>2. InList' = InList /\ \A q \in Proc : Queued(q)' <=> Queued(q)
    BY <2>1 DEF InList, Walk, Queued
  <2> QED
    BY <1>1, <1>2, <2>2 DEF Linked
<1>3. CASE ~Queued(p)
  <2>1. /\ notifyList' = p /\ notifyNext'[p] = notifyList /\ notifyNext[p] = NoProc
        /\ \A q \in Proc \ {p} : notifyNext'[q] = notifyNext[q]
    BY <1>3 DEF QueueNotification, Queued, ListTyped
  <2>2. p \in InList'
    BY <1>1, <2>1, ListFactsNext, ProcessesAssumption DEF Has, ListIs
  <2>3. Has(InList', notifyList)
    BY <1>1, <2>1, <2>2, ListFactsNext DEF ListIs
  <2>4. \A x \in InList' \cap Proc : Has(InList', notifyNext[x])
    BY <1>1, <2>1, ListFactsNext DEF Has, ListIs
  <2>5. InList \subseteq InList'
    BY <2>3, <2>4, ListFacts DEF ListIs
  <2>6. Linked'
    BY <2>1, <2>2, <2>5 DEF Linked, Queued
  <2> QED
    BY <1>1, <2>2, <2>5, <2>6
<1> QED
  BY <1>2, <1>3

\* dispatch_notifications() takes the first process off and no other.
LEMMA DispatchKeeps ==
  ASSUME ListTyped, Linked, notifyList # NoProc,
         notifyList' = notifyNext[notifyList],
         notifyNext' = [notifyNext EXCEPT ![notifyList] = NoProc]
  PROVE  /\ ListTyped'
         /\ InList \subseteq InList' \cup {notifyList}
         /\ Linked'
<1> DEFINE h == notifyList
<1>1. h \in Proc /\ ListTyped'
  BY DEF ListTyped, Link
<1>2. notifyNext'[h] = NoProc /\ \A q \in Proc \ {h} : notifyNext'[q] = notifyNext[q]
  BY <1>1 DEF ListTyped
<1>3. Has(InList' \cup {h}, h)
  BY DEF Has
<1>4. \A x \in (InList' \cup {h}) \cap Proc : Has(InList' \cup {h}, notifyNext[x])
  BY <1>1, <1>2, ListFactsNext DEF Has, ListIs
<1>5. InList \subseteq InList' \cup {h}
  BY <1>3, <1>4, ListFacts DEF ListIs
<1>6. Linked'
  BY <1>2, <1>5 DEF Linked, Queued
<1> QED
  BY <1>1, <1>5, <1>6

----------------------------------------------------------------------------
(* The stack *)

\* A frame of a function that works on a process has one, and a reading
\* function has one descriptor.
FrameOK(fr) ==
  /\ fr.op \in {"notify", "diedOut", "diedErr", "read", "sync", "wait1", "reap1", "notify1"} => fr.p \in Proc
  /\ fr.op = "read" => \E f \in Fd : fr.fds = {f}
Good == {fr \in Frame : FrameOK(fr)}

\* The first base frames of the stack stay and are followed by fr.
Built(base, fr) ==
  /\ base \in 0 .. Depth
  /\ stack' \in Seq(Good)
  /\ fr \in Seq(Good)
  /\ Len(stack') = base + Len(fr)
  /\ \A k \in 1 .. base : stack'[k] = stack[k]
  /\ \A j \in 1 .. Len(fr) : stack'[base + j] = fr[j]

LEMMA PushBuilt ==
  ASSUME stack \in Seq(Good), NEW fr \in Seq(Good), Push(fr) PROVE Built(Depth, fr)
<1>1. Len(stack) \in Nat /\ Len(fr) \in Nat
  OBVIOUS
<1> QED
  BY <1>1 DEF Built, Push, Depth

LEMMA GotoBuilt ==
  ASSUME stack \in Seq(Good), Depth > 0, NEW fr \in Seq(Good), Goto(fr) PROVE Built(Depth - 1, fr)
<1> DEFINE b == Depth - 1
           up == SubSeq(stack, 1, b)
<1>1. b \in Nat /\ Len(fr) \in Nat /\ Depth = Len(stack) /\ 1 \in Int /\ b \in Int
  BY DEF Depth
<1>2. \A i \in 1 .. b : stack[i] \in Good
  BY <1>1
<1>3. stack' = up \o fr
  BY DEF Goto, Below
<1> HIDE DEF b
<1>4. /\ up \in Seq(Good)
      /\ Len(up) = IF 1 <= b THEN b - 1 + 1 ELSE 0
      /\ \A i \in 1 .. b - 1 + 1 : up[i] = stack[1 + i - 1]
  BY <1>1, <1>2, SubSeqProperties
<1>5. Len(up) = b /\ \A i \in 1 .. b : up[i] = stack[i]
  BY <1>1, <1>4
<1> HIDE DEF up
<1>6. /\ stack' \in Seq(Good) /\ Len(stack') = b + Len(fr)
      /\ \A k \in 1 .. b : stack'[k] = stack[k]
      /\ \A j \in 1 .. Len(fr) : stack'[b + j] = fr[j]
  BY <1>1, <1>3, <1>4, <1>5
<1>7. b \in 0 .. Depth
  BY <1>1 DEF b
<1> QED
  BY <1>6, <1>7 DEF Built, b

LEMMA StayBuilt ==
  ASSUME stack \in Seq(Good), stack' = stack PROVE Built(Depth, <<>>)
  BY DEF Built, Depth

\* The frames that functions begin with.
LEMMA GoodFrames ==
  /\ \A op \in FrameOps \ {"notify", "diedOut", "diedErr", "read", "sync", "wait1", "reap1", "notify1"} : F(op) \in Good
  /\ \A op \in FrameOps \ {"read"} : \A p \in Proc : FP(op, p) \in Good
  /\ \A p \in Proc, f \in Fd : Reading(p, f) \in Good
<1>1. ASSUME NEW op \in FrameOps \ {"notify", "diedOut", "diedErr", "read", "sync", "wait1", "reap1", "notify1"}
      PROVE  F(op) \in Good
  BY DEF Good, FrameOK, Frame, F
<1>2. ASSUME NEW op \in FrameOps \ {"read"}, NEW p \in Proc PROVE FP(op, p) \in Good
  BY DEF Good, FrameOK, Frame, FP
<1>3. ASSUME NEW p \in Proc, NEW f \in Fd PROVE Reading(p, f) \in Good
  BY DEF Good, FrameOK, Frame, Reading, FrameOps
<1> QED
  BY <1>1, <1>2, <1>3

LEMMA FrameLists ==
  /\ <<>> \in Seq(Good) /\ Len(<<>>) = 0
  /\ \A x \in Good : <<x>> \in Seq(Good) /\ Len(<<x>>) = 1 /\ <<x>>[1] = x
  /\ \A x, y \in Good : LET s == <<x>> \o <<y>> IN s \in Seq(Good) /\ Len(s) = 2 /\ s[1] = x /\ s[2] = y
  /\ \A x \in Good : <<x>> \o <<>> = <<x>> /\ <<>> \o <<x>> = <<x>>
  OBVIOUS

----------------------------------------------------------------------------
(* No child is lost: the inductive invariant, which holds whatever Lisp     *)
(* code does.                                                               *)

Live == {p \in allocated : Active(p)}
Unseen(p) == child[p] = "zombie" \/ p \in news

\* Somebody on the stack will see what happened to the child of p.
Cover(st, p) == \E k \in 1 .. Len(st) : st[k].op = "reap" \/ (st[k].op = "sync" /\ st[k].p = p)

ChildInv ==
  /\ TypeOK
  /\ stack \in Seq(Good)
  /\ held \subseteq allocated
  /\ count <= starts
  /\ Cardinality(Live) <= count
  /\ \A p \in Proc : child[p] # "none" => p \in allocated /\ Active(p)
  /\ \A p \in news : child[p] = "stopped"
  /\ \A p \in Proc : Unseen(p) => pending \/ Cover(stack, p)

LEMMA ChildInvSuffices == ChildInv => NoLostChild
<1> SUFFICES ASSUME ChildInv PROVE NoLostChild
  OBVIOUS
<1>1. ASSUME NEW p \in Proc, Unseen(p)
      PROVE  pending \/ OnStack("reap") \/ \E k \in 1 .. Depth : stack[k].op = "sync" /\ stack[k].p = p
  BY <1>1 DEF ChildInv, Cover, OnStack, Depth
<1> QED
  BY <1>1 DEF ChildInv, NoLostChild, Unseen, Live

LEMMA GoodSeq == Seq(Good) \subseteq Seq(Frame)
  BY DEF Good

\* The frames that stay, or are replaced by another of the same kind for the
\* same process, cover the same children.
LEMMA CoverKept ==
  ASSUME stack \in Seq(Good), NEW base, NEW fr, Built(base, fr), NEW p,
         \/ base = Depth
         \/ base = Depth - 1 /\ Top.op \notin {"reap", "sync"}
         \/ base = Depth - 1 /\ Len(fr) = 1 /\ fr[1].op = Top.op /\ fr[1].p = Top.p,
         Cover(stack, p)
  PROVE  Cover(stack', p)
<1>1. PICK k \in 1 .. Depth : stack[k].op = "reap" \/ (stack[k].op = "sync" /\ stack[k].p = p)
  BY DEF Cover, Depth
<1>2. Depth \in Nat /\ Len(fr) \in Nat /\ base \in 0 .. Depth
  BY DEF Depth, Built
<1>3. CASE k \in 1 .. base
  <2>1. k \in 1 .. Len(stack') /\ stack'[k] = stack[k]
    BY <1>2, <1>3 DEF Built
  <2> QED
    BY <1>1, <2>1 DEF Cover
<1>4. CASE k \notin 1 .. base
  <2>1. k = Depth /\ base = Depth - 1 /\ Len(fr) = 1 /\ fr[1].op = Top.op /\ fr[1].p = Top.p
    BY <1>1, <1>2, <1>4 DEF Top
  <2>2. Depth \in 1 .. Len(stack') /\ stack'[Depth] = fr[1]
    <3>1. Len(stack') = Depth /\ stack'[base + 1] = fr[1] /\ base + 1 = Depth
      BY <1>2, <2>1 DEF Built
    <3> QED
      BY <3>1, <1>2, <2>1
  <2> QED
    BY <1>1, <2>1, <2>2 DEF Cover, Top
<1> QED
  BY <1>3, <1>4

\* What a step that leaves the processes and their children alone has to show.
LEMMA Quiet ==
  ASSUME ChildInv, UNCHANGED <<allocated, held, status, count, child, news, starts>>,
         conn' \in [Proc -> Conn],
         out' \in [Proc -> Fd \cup {NoFd}], err' \in [Proc -> Fd \cup {NoFd}],
         ListTyped', pending' \in BOOLEAN, files' \in [Fd -> File], thrown' \in BOOLEAN,
         NEW base, NEW fr, Built(base, fr),
         \/ base = Depth
         \/ base = Depth - 1 /\ Top.op \notin {"reap", "sync"}
         \/ base = Depth - 1 /\ Len(fr) = 1 /\ fr[1].op = Top.op /\ fr[1].p = Top.p,
         pending => pending' \/ \E j \in 1 .. Len(fr) : fr[j].op = "reap"
  PROVE  ChildInv'
<1>1. stack' \in Seq(Good) /\ stack' \in Seq(Frame)
  BY GoodSeq DEF Built
<1>2. TypeOK'
  BY <1>1 DEF ChildInv, TypeOK, ListTyped, Link
<1>3. ASSUME NEW p \in Proc, Unseen(p)' PROVE pending' \/ Cover(stack', p)
  <2>1. pending \/ Cover(stack, p)
    BY <1>3 DEF ChildInv, Unseen
  <2>2. CASE Cover(stack, p)
    BY <2>2, CoverKept DEF ChildInv
  <2>3. CASE pending /\ ~pending'
    <3>1. PICK j \in 1 .. Len(fr) : fr[j].op = "reap"
      BY <2>3
    <3>2. base + j \in 1 .. Len(stack') /\ stack'[base + j].op = "reap"
      <4>1. base \in Nat /\ Len(fr) \in Nat
        BY DEF Built, ChildInv, Depth
      <4> QED
        BY <3>1, <4>1 DEF Built
    <3> QED
      BY <3>2 DEF Cover
  <2> QED
    BY <2>1, <2>2, <2>3
<1>4. Live' = Live /\ \A p \in Proc : Active(p)' <=> Active(p)
  BY DEF Live, Active
<1> QED
  BY <1>1, <1>2, <1>3, <1>4 DEF ChildInv

\* What the invariant says of the types.
LEMMA Types ==
  ASSUME ChildInv
  PROVE  /\ conn \in [Proc -> Conn]
         /\ out \in [Proc -> Fd \cup {NoFd}] /\ err \in [Proc -> Fd \cup {NoFd}]
         /\ ListTyped /\ pending \in BOOLEAN /\ files \in [Fd -> File] /\ thrown \in BOOLEAN
         /\ stack \in Seq(Good) /\ Depth \in Nat
         /\ Depth > 0 => Top \in Good
  BY DEF ChildInv, TypeOK, ListTyped, Link, Depth, Top

\* The frames of handle_process_events().
LEMMA EventFrames ==
  /\ HandleProcessEvents \in Seq(Good)
  /\ \A x \in Good : /\ <<x>> \o HandleProcessEvents \in Seq(Good)
                     /\ pending => \E j \in 1 .. Len(<<x>> \o HandleProcessEvents) :
                                     (<<x>> \o HandleProcessEvents)[j].op = "reap"
<1>1. F("reap") \in Good /\ F("reap").op = "reap"
  BY GoodFrames DEF FrameOps, F
<1>2. HandleProcessEvents \in Seq(Good)
  BY <1>1, FrameLists DEF HandleProcessEvents
<1>3. ASSUME NEW x \in Good PROVE <<x>> \o HandleProcessEvents \in Seq(Good)
  BY <1>2, FrameLists
<1>4. ASSUME NEW x \in Good, pending
      PROVE  \E j \in 1 .. Len(<<x>> \o HandleProcessEvents) : (<<x>> \o HandleProcessEvents)[j].op = "reap"
  <2>1. <<x>> \o HandleProcessEvents = <<x>> \o <<F("reap")>>
    BY <1>4 DEF HandleProcessEvents
  <2>2. LET s == <<x>> \o <<F("reap")>> IN Len(s) = 2 /\ s[2] = F("reap")
    BY <1>1, FrameLists
  <2>3. 2 \in 1 .. 2
    OBVIOUS
  <2> QED
    BY <1>1, <2>1, <2>2, <2>3
<1> QED
  BY <1>2, <1>3, <1>4

\* A function returns; a function is called.
LEMMA PopBuilt == ASSUME ChildInv, Depth > 0, Goto(<<>>) PROVE Built(Depth - 1, <<>>)
  BY Types, FrameLists, GotoBuilt

LEMMA CallBuilt == ASSUME ChildInv, NEW x \in Good, Push(<<x>>) PROVE Built(Depth, <<x>>)
  BY Types, FrameLists, PushBuilt

\* close_files() leaves the descriptors typed.
LEMMA CloseTyped ==
  ASSUME ChildInv, NEW p, CloseFiles(p)
  PROVE  /\ out' \in [Proc -> Fd \cup {NoFd}] /\ err' \in [Proc -> Fd \cup {NoFd}]
         /\ files' \in [Fd -> File]
<1>1. Free \in File
  BY ProcessesAssumption DEF Free, File
<1> QED
  BY <1>1, Types DEF CloseFiles, Closed

LEMMA QueueTyped ==
  ASSUME ListTyped, NEW p \in Proc, QueueNotification(p) PROVE ListTyped'
<1>1. p \in Link
  BY DEF Link
<1>2. CASE Queued(p)
  BY <1>2 DEF QueueNotification, notifyVars, ListTyped
<1>3. CASE ~Queued(p)
  BY <1>1, <1>3 DEF QueueNotification, ListTyped
<1> QED
  BY <1>2, <1>3

----------------------------------------------------------------------------
(* Steps that leave the children alone *)

LEMMA DispatchStep == ASSUME ChildInv, Dispatch PROVE ChildInv'
<1>1. notifyList \in Proc /\ ListTyped'
  BY Types DEF Dispatch, ListTyped, Link
<1>2. Built(Depth, <<FP("notify", notifyList)>>)
  BY <1>1, GoodFrames, CallBuilt DEF Dispatch, FrameOps
<1> QED
  BY <1>1, <1>2, Types, Quiet DEF Dispatch, objVars, childVars, fdVars

LEMMA DispatchDoneStep == ASSUME ChildInv, DispatchDone PROVE ChildInv'
<1>1. Built(Depth - 1, <<>>) /\ Top.op = "dispatch"
  BY PopBuilt DEF DispatchDone, TopIs
<1>2. ListTyped'
  BY Types DEF DispatchDone, ListTyped, notifyVars
<1> QED
  BY <1>1, <1>2, Types, Quiet DEF DispatchDone, objVars, childVars, fdVars

\* The frames that DiedOut leaves.
LEMMA DiedOutBuilt ==
  ASSUME ChildInv, DiedOut
  PROVE  /\ Depth > 0 /\ Top.op = "diedOut" /\ Top.p \in Proc
         /\ \/ err[Top.p] \in {NoFd, out[Top.p]} /\ Built(Depth - 1, <<FP("diedErr", Top.p)>>)
            \/ /\ err[Top.p] \notin {NoFd, out[Top.p]} /\ err[Top.p] \in Fd
               /\ Built(Depth - 1, <<FP("diedErr", Top.p)>> \o <<Reading(Top.p, err[Top.p])>>)
<1> DEFINE p == Top.p
           fr == <<FP("diedErr", p)>> \o (IF err[p] \notin {NoFd, out[p]} THEN <<Reading(p, err[p])>> ELSE <<>>)
<1>1. Depth > 0 /\ Top.op = "diedOut" /\ p \in Proc /\ Goto(fr)
  BY Types DEF DiedOut, TopIs, Good, FrameOK
<1>2. FP("diedErr", p) \in Good
  BY <1>1, GoodFrames DEF FrameOps
<1>3. CASE err[p] \in {NoFd, out[p]}
  <2>1. fr = <<FP("diedErr", p)>> /\ fr \in Seq(Good)
    BY <1>2, <1>3, FrameLists
  <2> QED
    BY <1>1, <1>3, <2>1, Types, GotoBuilt
<1>4. CASE err[p] \notin {NoFd, out[p]}
  <2>1. err[p] \in Fd /\ Reading(p, err[p]) \in Good
    BY <1>1, <1>4, Types, GoodFrames
  <2>2. fr = <<FP("diedErr", p)>> \o <<Reading(p, err[p])>> /\ fr \in Seq(Good)
    BY <1>2, <1>4, <2>1, FrameLists
  <2> QED
    BY <1>1, <1>4, <2>1, <2>2, Types, GotoBuilt
<1> QED
  BY <1>1, <1>3, <1>4

LEMMA DiedOutStep == ASSUME ChildInv, DiedOut PROVE ChildInv'
<1>1. ListTyped' /\ UNCHANGED <<allocated, held, status, count, child, news, starts, conn, out, err, pending, files, thrown>>
  BY Types DEF DiedOut, ListTyped, notifyVars, objVars, childVars, fdVars
<1> QED
  BY <1>1, DiedOutBuilt, Types, Quiet

LEMMA DiedErrStep == ASSUME ChildInv, DiedErr PROVE ChildInv'
<1>1. Built(Depth - 1, <<>>) /\ Top.op = "diedErr" /\ Top.p \in Proc
  BY PopBuilt, Types DEF DiedErr, TopIs, Good, FrameOK
<1>2. ListTyped'
  BY <1>1, Types, QueueTyped DEF DiedErr
<1>3. /\ out' \in [Proc -> Fd \cup {NoFd}] /\ err' \in [Proc -> Fd \cup {NoFd}]
      /\ files' \in [Fd -> File]
  BY CloseTyped DEF DiedErr
<1> QED
  BY <1>1, <1>2, <1>3, Types, Quiet DEF DiedErr, objVars, childVars

\* The loop ends with all children seen: if no process is active there are none.
LEMMA ReapDoneStep == ASSUME ChildInv, ReapDone PROVE ChildInv'
<1>1. Built(Depth - 1, <<>>)
  BY PopBuilt DEF ReapDone, TopIs
<1>2. UNCHANGED <<allocated, held, status, count, child, news, pending, starts>>
  BY DEF ReapDone, objVars, childVars
<1>3. ASSUME NEW p \in Proc PROVE ~Unseen(p)
  <2>1. CASE count = 0
    <3>1. Live \subseteq Proc /\ IsFiniteSet(Live)
      BY ProcessesAssumption, FS_Subset DEF Live, ChildInv, TypeOK
    <3>2. Cardinality(Live) = 0
      BY <2>1, <3>1, FS_CardinalityType DEF ChildInv
    <3>3. Live = {}
      BY <3>1, <3>2, FS_EmptySet
    <3>4. child[p] = "none"
      BY <3>3 DEF ChildInv, Live
    <3> QED
      BY <3>4 DEF ChildInv, Unseen
  <2>2. CASE news = {} /\ \A q \in Proc : child[q] # "zombie"
    BY <2>2 DEF Unseen
  <2> QED
    BY <2>1, <2>2 DEF ReapDone
<1>4. stack' \in Seq(Good) /\ stack' \in Seq(Frame)
  BY <1>1, GoodSeq DEF Built
<1>5. TypeOK'
  BY <1>2, <1>4 DEF ChildInv, TypeOK, ReapDone, objVars, notifyVars, childVars, fdVars
<1>6. Live' = Live /\ \A p \in Proc : (Active(p)' <=> Active(p)) /\ (Unseen(p)' <=> Unseen(p))
  BY <1>2 DEF Live, Active, Unseen
<1> QED
  BY <1>2, <1>3, <1>4, <1>5, <1>6 DEF ChildInv

\* The descriptor of a reading function.
LEMMA TheFdFacts ==
  ASSUME ChildInv, TopIs("read")
  PROVE  TheFd \in Fd /\ Top.fds = {TheFd} /\ Top.p \in Proc /\ Top.op = "read" /\ Depth > 0
<1>1. Top \in Good /\ Top.op = "read" /\ Depth > 0
  BY Types DEF TopIs
<1>2. PICK f \in Fd : Top.fds = {f}
  BY <1>1 DEF Good, FrameOK
<1>3. TheFd = f
  BY <1>2 DEF TheFd
<1> QED
  BY <1>1, <1>2, <1>3 DEF Good, FrameOK

\* Data is read from f.
LEMMA EmptiedTyped ==
  ASSUME ChildInv, NEW f, files' = [files EXCEPT ![f].unread = 0] PROVE files' \in [Fd -> File]
<1>1. 0 \in 0 .. MaxUnread
  BY ProcessesAssumption
<1>2. \A r \in File : [r EXCEPT !.unread = 0] \in File
  BY <1>1 DEF File
<1>3. files' = [files EXCEPT ![f] = [files[f] EXCEPT !.unread = 0]]
  OBVIOUS
<1> QED
  BY <1>2, <1>3, Types

\* A block goes to a Lisp function, or is dropped.
LEMMA BlockBuilt ==
  ASSUME ChildInv, Depth > 0, Top.p \in Proc,
         (~thrown /\ Push(<<FP("lisp", Top.p)>>)) \/ UNCHANGED stack
  PROVE  Built(Depth, <<FP("lisp", Top.p)>>) \/ Built(Depth, <<>>)
<1>1. CASE Push(<<FP("lisp", Top.p)>>)
  BY <1>1, GoodFrames, CallBuilt DEF FrameOps
<1>2. CASE UNCHANGED stack
  BY <1>2, Types, StayBuilt
<1> QED
  BY <1>1, <1>2

LEMMA ReadBlockStep == ASSUME ChildInv, ReadBlock PROVE ChildInv'
<1>1. Built(Depth, <<FP("lisp", Top.p)>>) \/ Built(Depth, <<>>)
  BY BlockBuilt, TheFdFacts DEF ReadBlock
<1>2. files' \in [Fd -> File]
  BY EmptiedTyped DEF ReadBlock
<1>3. ListTyped'
  BY Types DEF ReadBlock, ListTyped, notifyVars
<1> QED
  BY <1>1, <1>2, <1>3, Types, Quiet DEF ReadBlock, objVars, childVars

LEMMA ReadWouldBlockStep == ASSUME ChildInv, ReadWouldBlock PROVE ChildInv'
<1>1. Built(Depth - 1, <<>>) /\ Top.op = "read"
  BY PopBuilt DEF ReadWouldBlock, TopIs
<1>2. ListTyped'
  BY Types DEF ReadWouldBlock, ListTyped, notifyVars
<1> QED
  BY <1>1, <1>2, Types, Quiet DEF ReadWouldBlock, objVars, childVars, fdVars

LEMMA ReadEndStep == ASSUME ChildInv, ReadEnd PROVE ChildInv'
<1>1. Built(Depth - 1, <<>>) /\ Top.op = "read"
  BY PopBuilt DEF ReadEnd, TopIs
<1>2. Free \in File
  BY ProcessesAssumption DEF Free, File
<1>3. /\ out' \in [Proc -> Fd \cup {NoFd}] /\ err' \in [Proc -> Fd \cup {NoFd}]
      /\ files' \in [Fd -> File]
  BY <1>2, Types DEF ReadEnd, Closed
<1>4. ListTyped'
  BY Types DEF ReadEnd, ListTyped, notifyVars
<1> QED
  BY <1>1, <1>3, <1>4, Types, Quiet DEF ReadEnd, objVars, childVars

LEMMA SyncReadStep == ASSUME ChildInv, SyncRead PROVE ChildInv'
<1>1. PICK f \in Fd :
        /\ SyncSelect(f)
        /\ files' = [files EXCEPT ![f].unread = 0]
        /\ (~thrown /\ Push(<<FP("lisp", Top.p)>>)) \/ UNCHANGED stack
        /\ UNCHANGED <<objVars, notifyVars, count, childVars, out, err, thrown, starts>>
  BY DEF SyncRead
<1>2. Depth > 0 /\ Top.p \in Proc
  BY <1>1, Types DEF SyncSelect, TopIs, Good, FrameOK
<1>3. Built(Depth, <<FP("lisp", Top.p)>>) \/ Built(Depth, <<>>)
  BY <1>1, <1>2, BlockBuilt
<1>4. files' \in [Fd -> File]
  BY <1>1, EmptiedTyped
<1>5. ListTyped'
  BY <1>1, Types DEF ListTyped, notifyVars
<1> QED
  BY <1>1, <1>3, <1>4, <1>5, Types, Quiet DEF objVars, childVars

\* The frame that SyncEof leaves.
LEMMA SyncEofBuilt ==
  ASSUME ChildInv, SyncEof
  PROVE  \E f \in Fd : LET fr == [Top EXCEPT !.fds = @ \ {f}] IN
           /\ Depth > 0 /\ Top.op = "sync" /\ fr.op = "sync" /\ fr.p = Top.p /\ fr.p \in Proc
           /\ Built(Depth - 1, <<fr>>)
<1>1. PICK f \in Fd : SyncSelect(f) /\ Goto(<<[Top EXCEPT !.fds = @ \ {f}]>>)
  BY DEF SyncEof
<1> DEFINE fr == [Top EXCEPT !.fds = @ \ {f}]
<1>2. Depth > 0 /\ Top \in Good /\ Top.op = "sync"
  BY <1>1, Types DEF SyncSelect, TopIs
<1>3. fr \in Good /\ fr.op = "sync" /\ fr.p = Top.p /\ fr.p \in Proc
  BY <1>2 DEF Good, FrameOK, Frame
<1> HIDE DEF fr
<1>4. Built(Depth - 1, <<fr>>)
  BY <1>1, <1>2, <1>3, Types, FrameLists, GotoBuilt DEF fr
<1> QED
  BY <1>2, <1>3, <1>4 DEF fr

LEMMA SyncEofStep == ASSUME ChildInv, SyncEof PROVE ChildInv'
<1>1. ListTyped' /\ UNCHANGED <<allocated, held, status, count, child, news, starts, conn, out, err, pending, files, thrown>>
  BY Types DEF SyncEof, ListTyped, notifyVars, objVars, childVars, fdVars
<1>2. PICK f \in Fd : LET fr == [Top EXCEPT !.fds = @ \ {f}] IN
           /\ Top.op = "sync" /\ fr.op = "sync" /\ fr.p = Top.p
           /\ Built(Depth - 1, <<fr>>)
  BY SyncEofBuilt
<1> DEFINE fr == [Top EXCEPT !.fds = @ \ {f}]
<1>3. Top.op = "sync" /\ fr.op = "sync" /\ fr.p = Top.p /\ Built(Depth - 1, <<fr>>) /\ Len(<<fr>>) = 1 /\ <<fr>>[1] = fr
  BY <1>2
<1> HIDE DEF fr
<1> QED
  BY <1>1, <1>3, Types, Quiet

LEMMA AcceptReturnStep == ASSUME ChildInv, AcceptReturn PROVE ChildInv'
<1>1. Depth > 0 /\ Top.op = "accept"
  BY DEF AcceptReturn, TopIs
<1>2. ListTyped' /\ UNCHANGED <<allocated, held, status, count, child, news, starts, conn, out, err, files, thrown>>
  BY Types DEF AcceptReturn, ListTyped, notifyVars, objVars, fdVars
<1>3. CASE thrown
  BY <1>1, <1>2, <1>3, PopBuilt, Types, Quiet DEF AcceptReturn
<1>4. CASE ~thrown
  <2> DEFINE fr == <<F("dispatch")>> \o HandleProcessEvents
  <2>1. F("dispatch") \in Good
    BY GoodFrames DEF FrameOps
  <2>2. fr \in Seq(Good) /\ (pending => \E j \in 1 .. Len(fr) : fr[j].op = "reap")
    BY <2>1, EventFrames
  <2>3. Goto(fr) /\ pending' \in BOOLEAN
    BY <1>4 DEF AcceptReturn
  <2> HIDE DEF fr
  <2> QED
    BY <1>1, <1>2, <2>2, <2>3, Types, GotoBuilt, Quiet
<1> QED
  BY <1>3, <1>4

LEMMA Wait1Step == ASSUME ChildInv, Wait1 PROVE ChildInv'
<1> DEFINE p == Top.p
<1>1. Depth > 0 /\ Top.op = "wait1" /\ p \in Proc
  BY Types DEF Wait1, TopIs, Good, FrameOK
<1>2. ListTyped' /\ UNCHANGED <<allocated, held, status, count, child, news, pending, starts, conn, out, err, files, thrown>>
  BY Types DEF Wait1, ListTyped, notifyVars, objVars, childVars, fdVars
<1>3. FP("reap1", p) \in Good /\ F("accept") \in Good
  BY <1>1, GoodFrames DEF FrameOps
<1>4. CASE Goto(<<FP("reap1", p)>>)
  <2>1. Built(Depth - 1, <<FP("reap1", p)>>)
    BY <1>1, <1>3, <1>4, Types, FrameLists, GotoBuilt
  <2> QED
    BY <1>1, <1>2, <2>1, Types, Quiet
<1>5. CASE \E f \in {out[p], err[p]} \ {NoFd} : Goto(<<FP("reap1", p), F("accept"), Reading(p, f)>>)
  <2>1. PICK f \in {out[p], err[p]} \ {NoFd} : Goto(<<FP("reap1", p), F("accept"), Reading(p, f)>>)
    BY <1>5
  <2>2. Reading(p, f) \in Good
    BY <1>1, Types, GoodFrames
  <2> DEFINE fr == <<FP("reap1", p), F("accept"), Reading(p, f)>>
  <2>3. fr \in Seq(Good)
    BY <1>3, <2>2
  <2>4. Built(Depth - 1, fr)
    BY <1>1, <2>1, <2>3, Types, GotoBuilt
  <2> HIDE DEF fr
  <2> QED
    BY <1>1, <1>2, <2>4, Types, Quiet
<1> QED
  BY <1>4, <1>5 DEF Wait1

LEMMA Reap1Step == ASSUME ChildInv, Reap1 PROVE ChildInv'
<1> DEFINE fr == <<FP("notify1", Top.p)>> \o HandleProcessEvents
<1>1. Depth > 0 /\ Top.op = "reap1" /\ Top.p \in Proc /\ Goto(fr) /\ pending' \in BOOLEAN
  BY Types DEF Reap1, TopIs, Good, FrameOK
<1>2. ListTyped' /\ UNCHANGED <<allocated, held, status, count, child, news, starts, conn, out, err, files, thrown>>
  BY Types DEF Reap1, ListTyped, notifyVars, objVars, fdVars
<1>3. FP("notify1", Top.p) \in Good
  BY <1>1, GoodFrames DEF FrameOps
<1>4. fr \in Seq(Good) /\ (pending => \E j \in 1 .. Len(fr) : fr[j].op = "reap")
  BY <1>3, EventFrames
<1> HIDE DEF fr
<1> QED
  BY <1>1, <1>2, <1>4, Types, GotoBuilt, Quiet

LEMMA Notify1Step == ASSUME ChildInv, Notify1 PROVE ChildInv'
<1> DEFINE p == Top.p
<1>1. Depth > 0 /\ Top.op = "notify1" /\ p \in Proc
  BY Types DEF Notify1, TopIs, Good, FrameOK
<1>2. UNCHANGED <<allocated, held, status, count, child, news, pending, starts, conn, out, err, files, thrown>>
  BY DEF Notify1, objVars, childVars, fdVars
<1>3. FP("notify", p) \in Good /\ F("crashed") \in Good
  BY <1>1, GoodFrames DEF FrameOps
<1>4. ListTyped'
  <2>1. CASE UNCHANGED notifyVars
    BY <2>1, Types DEF notifyVars, ListTyped
  <2>2. CASE Unlink(p)
    BY <1>1, <2>2, Types DEF Unlink, ListTyped, Link
  <2> QED
    BY <2>1, <2>2 DEF Notify1
<1>5. \/ Goto(<<>>) \/ Goto(<<FP("notify", p)>>) \/ Goto(<<F("crashed")>>)
  BY DEF Notify1
<1>6. Built(Depth - 1, <<>>) \/ Built(Depth - 1, <<FP("notify", p)>>) \/ Built(Depth - 1, <<F("crashed")>>)
  BY <1>1, <1>3, <1>5, Types, FrameLists, GotoBuilt
<1> QED
  BY <1>1, <1>2, <1>4, <1>6, Types, Quiet

LEMMA CallbackReturnStep == ASSUME ChildInv, CallbackReturn PROVE ChildInv'
<1>1. Built(Depth - 1, <<>>) /\ Top.op \in {"lisp", "notify"}
  BY PopBuilt DEF CallbackReturn
<1>2. ListTyped'
  BY Types DEF CallbackReturn, ListTyped, notifyVars
<1> QED
  BY <1>1, <1>2, Types, Quiet DEF CallbackReturn, objVars, childVars, fdVars

\* The frames of an input handler.
LEMMA ReadFromFdBuilt ==
  ASSUME ChildInv, NEW p \in Proc, NEW fr \in {<<>>, <<F("accept")>>}, ReadFromFd(p, fr)
  PROVE  \E f \in {out[p], err[p]} \ {NoFd} :
           /\ f \in Fd /\ Readable(f) /\ Active(p) /\ p \in allocated
           /\ fr \o <<Reading(p, f)>> \in Seq(Good)
           /\ Built(Depth, fr \o <<Reading(p, f)>>)
<1>1. PICK f \in {out[p], err[p]} \ {NoFd} :
        p \in allocated /\ Active(p) /\ Readable(f) /\ Push(fr \o <<Reading(p, f)>>)
  BY DEF ReadFromFd, Enter
<1>2. f \in Fd /\ Reading(p, f) \in Good
  BY Types, GoodFrames
<1>3. F("accept") \in Good
  BY GoodFrames DEF FrameOps
<1>4. fr \o <<Reading(p, f)>> \in Seq(Good)
  <2>1. CASE fr = <<>>
    BY <1>2, <2>1, FrameLists
  <2>2. CASE fr = <<F("accept")>>
    BY <1>2, <1>3, <2>2, FrameLists
  <2> QED
    BY <2>1, <2>2
<1> QED
  BY <1>1, <1>2, <1>4, Types, PushBuilt

LEMMA EventLoopCallbackStep == ASSUME ChildInv, EventLoopCallback PROVE ChildInv'
<1> DEFINE fr == <<F("dispatch")>> \o HandleProcessEvents
<1>1. F("dispatch") \in Good
  BY GoodFrames DEF FrameOps
<1>2. fr \in Seq(Good) /\ (pending => \E j \in 1 .. Len(fr) : fr[j].op = "reap")
  BY <1>1, EventFrames
<1>3. Push(fr) /\ pending' \in BOOLEAN
  BY DEF EventLoopCallback
<1>4. ListTyped' /\ UNCHANGED <<allocated, held, status, count, child, news, starts, conn, out, err, files, thrown>>
  BY Types DEF EventLoopCallback, ListTyped, notifyVars, objVars, fdVars
<1> HIDE DEF fr
<1> QED
  BY <1>2, <1>3, <1>4, Types, PushBuilt, Quiet

LEMMA EventLoopInputStep == ASSUME ChildInv, EventLoopInput PROVE ChildInv'
<1>1. PICK p \in Proc : ReadFromFd(p, <<>>)
  BY DEF EventLoopInput
<1>2. \E fr : Built(Depth, fr)
  BY <1>1, ReadFromFdBuilt
<1>3. ListTyped'
  BY Types DEF EventLoopInput, ListTyped, notifyVars
<1> QED
  BY <1>2, <1>3, Types, Quiet DEF EventLoopInput, objVars, childVars, fdVars

LEMMA AcceptProcessOutputStep == ASSUME ChildInv, AcceptProcessOutput PROVE ChildInv'
<1>1. ListTyped' /\ UNCHANGED <<allocated, held, status, count, child, news, starts, conn, out, err, files, thrown>>
  BY Types DEF AcceptProcessOutput, ListTyped, notifyVars, objVars, fdVars
<1>2. CASE pending \/ notifyList # NoProc
  <2> DEFINE fr == <<F("dispatch")>> \o HandleProcessEvents
  <2>1. F("dispatch") \in Good
    BY GoodFrames DEF FrameOps
  <2>2. fr \in Seq(Good) /\ (pending => \E j \in 1 .. Len(fr) : fr[j].op = "reap")
    BY <2>1, EventFrames
  <2>3. Push(fr) /\ pending' \in BOOLEAN
    BY <1>2 DEF AcceptProcessOutput, Enter
  <2> HIDE DEF fr
  <2> QED
    BY <1>1, <2>2, <2>3, Types, PushBuilt, Quiet
<1>3. CASE ~(pending \/ notifyList # NoProc)
  <2>1. PICK p \in Proc : ReadFromFd(p, <<F("accept")>>)
    BY <1>3 DEF AcceptProcessOutput
  <2>2. \E fr : Built(Depth, fr)
    BY <2>1, ReadFromFdBuilt
  <2>3. pending' = pending
    BY <1>3 DEF AcceptProcessOutput
  <2> QED
    BY <1>1, <2>2, <2>3, Types, Quiet
<1> QED
  BY <1>2, <1>3

LEMMA AcceptProcessOutput1Step ==
  ASSUME ChildInv, NEW p \in Proc, AcceptProcessOutput1(p) PROVE ChildInv'
<1> DEFINE fr == <<FP("wait1", p)>> \o HandleProcessEvents
<1>1. FP("wait1", p) \in Good
  BY GoodFrames DEF FrameOps
<1>2. fr \in Seq(Good) /\ (pending => \E j \in 1 .. Len(fr) : fr[j].op = "reap")
  BY <1>1, EventFrames
<1>3. Push(fr) /\ pending' \in BOOLEAN
  BY DEF AcceptProcessOutput1, Enter
<1>4. ListTyped' /\ UNCHANGED <<allocated, held, status, count, child, news, starts, conn, out, err, files, thrown>>
  BY Types DEF AcceptProcessOutput1, ListTyped, notifyVars, objVars, fdVars
<1> HIDE DEF fr
<1> QED
  BY <1>2, <1>3, <1>4, Types, PushBuilt, Quiet

\* Steps that change nothing but a pending throw.
LEMMA IdleSteps ==
  ASSUME ChildInv, HandleException \/ Throw \/ Stuck \/ Finished \/ UNCHANGED vars PROVE ChildInv'
<1>1. /\ UNCHANGED <<allocated, held, status, conn, count, child, news, pending, starts, stack,
                     out, err, files, notifyNext, notifyList>>
      /\ thrown' \in BOOLEAN
  BY Types DEF HandleException, Throw, Stuck, Finished, vars, objVars, childVars, fdVars, notifyVars
<1>2. Built(Depth, <<>>) /\ ListTyped'
  BY <1>1, Types, StayBuilt DEF ListTyped
<1> QED
  BY <1>1, <1>2, Types, Quiet

\* Steps of Lisp code and of children that change neither the stack nor a child.
LEMMA SmallSteps ==
  ASSUME ChildInv, NEW p \in Proc,
         \/ \E c \in ConnTypes : SetConnectionType(p, c)
         \/ StartFails(p) \/ CloseProcess(p) \/ ChildWrite(p)
  PROVE  ChildInv'
<1>1. UNCHANGED <<allocated, held, status, count, child, news, pending, starts, stack>> /\ thrown' \in BOOLEAN
  BY Types DEF SetConnectionType, StartFails, CloseProcess, ChildWrite, objVars, childVars
<1>2. Built(Depth, <<>>)
  BY <1>1, Types, StayBuilt
<1>3. ListTyped'
  <2>1. UNCHANGED notifyVars
    BY DEF SetConnectionType, StartFails, CloseProcess, ChildWrite
  <2> QED
    BY <2>1, Types DEF ListTyped, notifyVars
<1>4. conn' \in [Proc -> Conn]
  <2>1. CASE \E c \in ConnTypes : SetConnectionType(p, c)
    BY <2>1, Types, ProcessesAssumption DEF SetConnectionType
  <2>2. CASE StartFails(p)
    BY <2>2, Types DEF StartFails, Conn
  <2> QED
    BY <2>1, <2>2, Types DEF CloseProcess, ChildWrite, objVars
<1>5. /\ out' \in [Proc -> Fd \cup {NoFd}] /\ err' \in [Proc -> Fd \cup {NoFd}]
      /\ files' \in [Fd -> File]
  <2>1. CASE CloseProcess(p)
    BY <2>1, CloseTyped DEF CloseProcess
  <2>2. CASE StartFails(p)
    BY <2>2, Types DEF StartFails
  <2>3. CASE ChildWrite(p)
    <3>1. PICK f \in Fd : files[f].unread < MaxUnread /\ files' = [files EXCEPT ![f].unread = @ + 1]
      BY <2>3 DEF ChildWrite
    <3>2. files[f] \in File /\ files[f].unread + 1 \in 0 .. MaxUnread
      BY <3>1, Types, ProcessesAssumption DEF File
    <3>3. [files[f] EXCEPT !.unread = files[f].unread + 1] \in File
      BY <3>2 DEF File
    <3>4. files' \in [Fd -> File]
      BY <3>1, <3>3, Types
    <3> QED
      BY <2>3, <3>4, Types DEF ChildWrite
  <2> QED
    BY <2>1, <2>2, <2>3, Types DEF SetConnectionType, fdVars
<1> QED
  BY <1>1, <1>2, <1>3, <1>4, <1>5, Types, Quiet

----------------------------------------------------------------------------
(* Steps that change processes or children *)

LEMMA LiveFinite ==
  ASSUME ChildInv
  PROVE  /\ IsFiniteSet(allocated) /\ IsFiniteSet(Live) /\ Live \subseteq allocated
         /\ Cardinality(Live) \in Nat /\ count \in Nat /\ starts \in Nat
<1>1. allocated \subseteq Proc /\ Live \subseteq allocated
  BY DEF ChildInv, TypeOK, Live
<1>2. IsFiniteSet(allocated) /\ IsFiniteSet(Live)
  BY <1>1, ProcessesAssumption, FS_Subset
<1> QED
  BY <1>1, <1>2, FS_CardinalityType DEF ChildInv, TypeOK

\* What such a step has to show.
LEMMA Changed ==
  ASSUME ChildInv, NEW base, NEW fr, Built(base, fr),
         allocated' \in SUBSET Proc, held' \subseteq allocated',
         status' \in [Proc -> {"dead", "running", "stopped"}], conn' \in [Proc -> Conn],
         out' \in [Proc -> Fd \cup {NoFd}], err' \in [Proc -> Fd \cup {NoFd}],
         ListTyped', pending' \in BOOLEAN, files' \in [Fd -> File], thrown' \in BOOLEAN,
         child' \in [Proc -> {"none", "running", "stopped", "zombie"}],
         news' \in SUBSET Proc,
         count' \in Nat, starts' \in 0 .. MaxStarts, count' <= starts',
         Cardinality(Live') <= count',
         \A p \in Proc : child'[p] # "none" => p \in allocated' /\ Active(p)',
         \A p \in news' : child'[p] = "stopped",
         pending => pending',
         \A p \in Proc : Unseen(p)' => pending' \/ (Unseen(p) /\ (base = Depth \/ (Cover(stack, p) => Cover(stack', p))))
  PROVE  ChildInv'
<1>1. stack' \in Seq(Good) /\ stack' \in Seq(Frame)
  BY GoodSeq DEF Built
<1>2. count' \in 0 .. MaxStarts
  BY ProcessesAssumption
<1>3. TypeOK'
  BY <1>1, <1>2 DEF TypeOK, ListTyped, Link
<1>4. ASSUME NEW p \in Proc, Unseen(p)' PROVE pending' \/ Cover(stack', p)
  <2>1. CASE ~pending'
    <3>1. Cover(stack, p)
      BY <1>4, <2>1 DEF ChildInv
    <3>2. base = Depth => Cover(stack', p)
      BY <3>1, CoverKept DEF ChildInv
    <3> QED
      BY <1>4, <2>1, <3>1, <3>2
  <2> QED
    BY <2>1
<1> QED
  BY <1>1, <1>3, <1>4 DEF ChildInv

LEMMA ReapStoppedStep == ASSUME ChildInv, NEW p \in Proc, ReapStopped(p) PROVE ChildInv'
<1>1. /\ news' = news \ {p} /\ status' = [status EXCEPT ![p] = "stopped"] /\ child[p] = "stopped"
      /\ UNCHANGED <<allocated, held, conn, count, child, pending, out, err, files, stack, thrown, starts>>
  BY DEF ReapStopped, fdVars
<1>2. Built(Depth, <<>>)
  BY <1>1, Types, StayBuilt
<1>3. ListTyped'
  BY Types, QueueTyped DEF ReapStopped
<1>4. /\ status \in [Proc -> {"dead", "running", "stopped"}] /\ status' \in [Proc -> {"dead", "running", "stopped"}]
      /\ \A q \in Proc : Active(q)' <=> Active(q)
  BY <1>1 DEF ChildInv, TypeOK, Active
<1>5. Live' = Live
  BY <1>1, <1>4 DEF Live, ChildInv, TypeOK
<1>6. \A q \in Proc : Unseen(q)' => Unseen(q)
  BY <1>1 DEF Unseen
<1> QED
  BY <1>1, <1>2, <1>3, <1>4, <1>5, <1>6, Types, LiveFinite, Changed DEF ChildInv, TypeOK

\* The frames that ReapDead leaves.
LEMMA ReapDeadBuilt ==
  ASSUME ChildInv, NEW p \in Proc, ReapDead(p)
  PROVE  \/ out[p] = NoFd /\ Built(Depth, <<FP("diedOut", p)>>)
         \/ out[p] \in Fd /\ Built(Depth, <<FP("diedOut", p)>> \o <<Reading(p, out[p])>>)
<1> DEFINE fr == <<FP("diedOut", p)>> \o (IF out[p] # NoFd THEN <<Reading(p, out[p])>> ELSE <<>>)
<1>1. FP("diedOut", p) \in Good /\ Push(fr)
  BY GoodFrames DEF FrameOps, ReapDead
<1>2. CASE out[p] = NoFd
  <2>1. fr = <<FP("diedOut", p)>> /\ fr \in Seq(Good)
    BY <1>1, <1>2, FrameLists
  <2> QED
    BY <1>1, <1>2, <2>1, Types, PushBuilt
<1>3. CASE out[p] # NoFd
  <2>1. out[p] \in Fd /\ Reading(p, out[p]) \in Good
    BY <1>3, Types, GoodFrames
  <2>2. fr = <<FP("diedOut", p)>> \o <<Reading(p, out[p])>> /\ fr \in Seq(Good)
    BY <1>1, <1>3, <2>1, FrameLists
  <2> QED
    BY <1>1, <2>1, <2>2, Types, PushBuilt
<1> QED
  BY <1>2, <1>3

LEMMA ReapDeadStep == ASSUME ChildInv, NEW p \in Proc, ReapDead(p) PROVE ChildInv'
<1>1. /\ child' = [child EXCEPT ![p] = "none"] /\ status' = [status EXCEPT ![p] = "dead"] /\ child[p] = "zombie"
      /\ count > 0 /\ count' = count - 1
      /\ UNCHANGED <<allocated, held, conn, pending, news, out, err, files, thrown, starts, notifyNext, notifyList>>
  BY DEF ReapDead, fdVars, notifyVars
<1>2. \E fr : Built(Depth, fr)
  BY ReapDeadBuilt
<1>3. ListTyped'
  BY <1>1, Types DEF ListTyped
<1>4. /\ status' \in [Proc -> {"dead", "running", "stopped"}]
      /\ child' \in [Proc -> {"none", "running", "stopped", "zombie"}]
      /\ \A q \in Proc \ {p} : (Active(q)' <=> Active(q)) /\ child'[q] = child[q]
      /\ ~Active(p)' /\ child'[p] = "none"
  BY <1>1 DEF ChildInv, TypeOK, Active
<1>5. p \in Live /\ Live' = Live \ {p}
  BY <1>1, <1>4 DEF Live, ChildInv, TypeOK
<1>6. Cardinality(Live') = Cardinality(Live) - 1
  BY <1>5, LiveFinite, FS_RemoveElement
<1>7. count' \in Nat /\ count' <= starts' /\ Cardinality(Live') <= count'
  BY <1>1, <1>6, LiveFinite DEF ChildInv
<1>8. \A q \in Proc : Unseen(q)' => Unseen(q)
  BY <1>1, <1>4 DEF Unseen
<1>9. p \notin news /\ (\A q \in news' : child'[q] = "stopped")
  BY <1>1, <1>4 DEF ChildInv, TypeOK
<1>10. \A q \in Proc : child'[q] # "none" => q \in allocated' /\ Active(q)'
  BY <1>1, <1>4 DEF ChildInv
<1> QED
  BY <1>1, <1>2, <1>3, <1>4, <1>7, <1>8, <1>9, <1>10, Types, Changed DEF ChildInv, TypeOK

LEMMA SyncEndStep == ASSUME ChildInv, SyncEnd PROVE ChildInv'
<1> DEFINE p == Top.p
<1>1. /\ Depth > 0 /\ Top.op = "sync" /\ child[p] \in {"zombie", "none"}
      /\ child' = [child EXCEPT ![p] = "none"] /\ status' = [status EXCEPT ![p] = "dead"]
      /\ CloseFiles(p) /\ QueueNotification(p) /\ Goto(<<>>)
      /\ UNCHANGED <<allocated, held, conn, count, pending, news, thrown, starts>>
  BY DEF SyncEnd, TopIs
<1>2. p \in Proc /\ Built(Depth - 1, <<>>)
  BY <1>1, Types, PopBuilt DEF Good, FrameOK
<1> HIDE DEF p
<1>3. /\ out' \in [Proc -> Fd \cup {NoFd}] /\ err' \in [Proc -> Fd \cup {NoFd}]
      /\ files' \in [Fd -> File] /\ ListTyped'
  BY <1>1, <1>2, CloseTyped, Types, QueueTyped
<1>4. /\ status' \in [Proc -> {"dead", "running", "stopped"}]
      /\ child' \in [Proc -> {"none", "running", "stopped", "zombie"}]
      /\ \A q \in Proc \ {p} : (Active(q)' <=> Active(q)) /\ child'[q] = child[q]
      /\ status'[p] = "dead" /\ child'[p] = "none"
  BY <1>1, <1>2 DEF ChildInv, TypeOK, Active
<1>5. Live' \subseteq Live
  BY <1>1, <1>2, <1>4 DEF Live, ChildInv, TypeOK, Active
<1>6. Cardinality(Live') <= count'
  <2>1. Cardinality(Live') <= Cardinality(Live) /\ Cardinality(Live') \in Nat
    BY <1>5, LiveFinite, FS_Subset, FS_CardinalityType
  <2> QED
    BY <1>1, <2>1, LiveFinite DEF ChildInv
<1>7. p \notin news /\ (\A q \in news' : child'[q] = "stopped")
  BY <1>1, <1>4 DEF ChildInv, TypeOK
<1>8. ASSUME NEW q \in Proc, Unseen(q)' PROVE Unseen(q) /\ (Cover(stack, q) => Cover(stack', q))
  <2>1. q # p /\ Unseen(q)
    BY <1>1, <1>4, <1>7, <1>8 DEF Unseen
  <2>2. ASSUME Cover(stack, q) PROVE Cover(stack', q)
    <3>1. PICK k \in 1 .. Len(stack) : stack[k].op = "reap" \/ (stack[k].op = "sync" /\ stack[k].p = q)
      BY <2>2 DEF Cover
    <3>2. k # Depth
      BY <1>1, <2>1, <3>1 DEF p, Top
    <3>3. k \in 1 .. Depth - 1 /\ k \in 1 .. Len(stack') /\ stack'[k] = stack[k]
      BY <1>1, <1>2, <3>1, <3>2, FrameLists, Types DEF Built, Depth
    <3> QED
      BY <3>1, <3>3 DEF Cover
  <2> QED
    BY <2>1, <2>2
<1>9. \A q \in Proc : child'[q] # "none" => q \in allocated' /\ Active(q)'
  BY <1>1, <1>4 DEF ChildInv, Active
<1> QED
  BY <1>1, <1>2, <1>3, <1>4, <1>6, <1>7, <1>8, <1>9, Types, LiveFinite, Changed DEF ChildInv, TypeOK

LEMMA MakeProcessStep == ASSUME ChildInv, NEW p \in Proc, MakeProcess(p) PROVE ChildInv'
<1>1. /\ p \notin allocated /\ allocated' = allocated \cup {p} /\ held' = held \cup {p}
      /\ status' = [status EXCEPT ![p] = "dead"] /\ conn' = [conn EXCEPT ![p] = "pipe"]
      /\ notifyNext' = [notifyNext EXCEPT ![p] = NoProc] /\ out' = [out EXCEPT ![p] = NoFd]
      /\ \E f \in StaleWords : err' = [err EXCEPT ![p] = f]
      /\ UNCHANGED <<notifyList, count, child, news, pending, files, stack, thrown, starts>>
  BY DEF MakeProcess, childVars
<1>2. Built(Depth, <<>>)
  BY <1>1, Types, StayBuilt
<1>3. /\ ListTyped' /\ conn' \in [Proc -> Conn]
      /\ out' \in [Proc -> Fd \cup {NoFd}] /\ err' \in [Proc -> Fd \cup {NoFd}]
  BY <1>1, Types, ProcessesAssumption DEF ListTyped, Link, Conn
<1>4. /\ status' \in [Proc -> {"dead", "running", "stopped"}]
      /\ \A q \in Proc \ {p} : Active(q)' <=> Active(q)
      /\ ~Active(p)' /\ child[p] = "none"
  BY <1>1 DEF ChildInv, TypeOK, Active
<1>5. Live' = Live
  BY <1>1, <1>4 DEF Live, ChildInv, TypeOK
<1>6. \A q \in Proc : Unseen(q)' => Unseen(q)
  BY <1>1 DEF Unseen
<1>7. \A q \in Proc : child'[q] # "none" => q \in allocated' /\ Active(q)'
  BY <1>1, <1>4 DEF ChildInv
<1> QED
  BY <1>1, <1>2, <1>3, <1>4, <1>5, <1>6, <1>7, Types, LiveFinite, Changed DEF ChildInv, TypeOK

\* The descriptors of a new child: the lowest that are free.
NewOut == Min(FreeFds)
NewErr(pty) == IF pty THEN NewOut ELSE Min(FreeFds \ {NewOut})

LEMMA NewFds ==
  ASSUME Cardinality(FreeFds) >= 2, NEW pty \in BOOLEAN
  PROVE  /\ NewOut \in FreeFds /\ NewErr(pty) \in FreeFds /\ FreeFds \subseteq Fd
         /\ ~pty => NewErr(pty) # NewOut
<1>1. FreeFds \subseteq Fd /\ Fd \subseteq Nat /\ IsFiniteSet(Fd)
  <2>1. MaxFd \in Nat
    BY ProcessesAssumption
  <2>2. IsFiniteSet(1 .. MaxFd)
    BY <2>1, FS_Interval
  <2> QED
    BY <2>1, <2>2 DEF FreeFds, Fd
<1>2. IsFiniteSet(FreeFds) /\ FreeFds # {} /\ FreeFds \subseteq Nat
  <2>1. IsFiniteSet(FreeFds)
    BY <1>1, FS_Subset
  <2>2. FreeFds # {}
    BY FS_EmptySet
  <2> QED
    BY <1>1, <2>1, <2>2
<1>3. NewOut \in FreeFds
  BY <1>2, Least DEF NewOut
<1>4. FreeFds \ {NewOut} # {}
  <2>1. Cardinality(FreeFds \ {NewOut}) = Cardinality(FreeFds) - 1 /\ IsFiniteSet(FreeFds \ {NewOut})
    BY <1>2, <1>3, FS_RemoveElement
  <2>2. Cardinality(FreeFds) \in Nat
    BY <1>2, FS_CardinalityType
  <2>3. Cardinality(FreeFds \ {NewOut}) # 0
    BY <2>1, <2>2
  <2> QED
    BY <2>1, <2>3, FS_EmptySet
<1>5. Min(FreeFds \ {NewOut}) \in FreeFds \ {NewOut}
  <2> DEFINE T == FreeFds \ {NewOut}
  <2>1. T \subseteq Nat /\ T # {}
    BY <1>2, <1>4
  <2> HIDE DEF T
  <2>2. Min(T) \in T
    BY <2>1, Least
  <2> QED
    BY <2>2 DEF T
<1> QED
  BY <1>1, <1>3, <1>5 DEF NewErr

\* What run_process() does.
LEMMA RunFacts ==
  ASSUME ChildInv, NEW p \in Proc, NEW pty \in BOOLEAN, RunProcess(p, pty)
  PROVE  /\ p \in held /\ ~Active(p) /\ starts < MaxStarts
         /\ NewOut \in Fd /\ NewErr(pty) \in Fd
         /\ files[NewOut].owner = NoProc /\ files[NewErr(pty)].owner = NoProc
         /\ out' = [out EXCEPT ![p] = NewOut] /\ err' = [err EXCEPT ![p] = NewErr(pty)]
         /\ files' = [f \in Fd |-> IF f \in {NewOut, NewErr(pty)}
                                   THEN [owner |-> p, unread |-> 0, writer |-> TRUE] ELSE files[f]]
<1>1. NewOut \in FreeFds /\ NewErr(pty) \in FreeFds
  BY NewFds DEF RunProcess
<1>2. /\ out' = [out EXCEPT ![p] = NewOut] /\ err' = [err EXCEPT ![p] = NewErr(pty)]
      /\ files' = [f \in Fd |-> IF f \in {NewOut, NewErr(pty)}
                                THEN [owner |-> p, unread |-> 0, writer |-> TRUE] ELSE files[f]]
  BY DEF RunProcess, NewOut, NewErr
<1> QED
  BY <1>1, <1>2 DEF RunProcess, FreeFds, IsOpen

\* A child is started, for a process that had none.
LEMMA RunStep ==
  ASSUME ChildInv, NEW p \in Proc, NEW pty \in BOOLEAN, RunProcess(p, pty),
         NEW fr, Built(Depth, fr),
         UNCHANGED <<allocated, held, notifyNext, notifyList, pending, news, thrown>>
  PROVE  ChildInv'
<1>1. /\ p \in held /\ ~Active(p) /\ starts < MaxStarts
      /\ conn' = [conn EXCEPT ![p] = IF pty THEN @ ELSE "pipe"]
      /\ status' = [status EXCEPT ![p] = "running"] /\ child' = [child EXCEPT ![p] = "running"]
      /\ count' = count + 1 /\ starts' = starts + 1
  BY DEF RunProcess
<1>2. conn' \in [Proc -> Conn] /\ ListTyped'
  BY <1>1, Types DEF Conn, ListTyped
<1>3. [owner |-> p, unread |-> 0, writer |-> TRUE] \in File
  BY ProcessesAssumption DEF File
<1>4. /\ out' \in [Proc -> Fd \cup {NoFd}] /\ err' \in [Proc -> Fd \cup {NoFd}] /\ files' \in [Fd -> File]
  <2>1. /\ NewOut \in Fd /\ NewErr(pty) \in Fd
        /\ out' = [out EXCEPT ![p] = NewOut] /\ err' = [err EXCEPT ![p] = NewErr(pty)]
        /\ files' = [f \in Fd |-> IF f \in {NewOut, NewErr(pty)}
                                  THEN [owner |-> p, unread |-> 0, writer |-> TRUE] ELSE files[f]]
    BY RunFacts
  <2>2. files' \in [Fd -> File]
    BY <1>3, <2>1, Types
  <2> QED
    BY <2>1, <2>2, Types
<1>5. /\ status' \in [Proc -> {"dead", "running", "stopped"}]
      /\ child' \in [Proc -> {"none", "running", "stopped", "zombie"}]
      /\ \A q \in Proc \ {p} : (Active(q)' <=> Active(q)) /\ child'[q] = child[q]
      /\ Active(p)' /\ child[p] = "none" /\ child'[p] = "running"
  BY <1>1 DEF ChildInv, TypeOK, Active
<1>6. p \notin Live /\ Live' = Live \cup {p}
  BY <1>1, <1>5 DEF Live, ChildInv, TypeOK
<1>7. Cardinality(Live') = Cardinality(Live) + 1
  BY <1>6, LiveFinite, FS_AddElement
<1>8. /\ count' \in Nat /\ count' <= starts' /\ Cardinality(Live') <= count'
      /\ starts' \in 0 .. MaxStarts
  BY <1>1, <1>7, LiveFinite, ProcessesAssumption DEF ChildInv
<1>9. /\ p \notin news /\ (\A q \in news' : child'[q] = "stopped")
      /\ \A q \in Proc : Unseen(q)' => Unseen(q)
  BY <1>5 DEF ChildInv, TypeOK, Unseen
<1>10. \A q \in Proc : child'[q] # "none" => q \in allocated' /\ Active(q)'
  BY <1>1, <1>5 DEF ChildInv
<1> QED
  BY <1>2, <1>4, <1>5, <1>8, <1>9, <1>10, Types, Changed DEF ChildInv, TypeOK

LEMMA StartProcessStep == ASSUME ChildInv, NEW p \in Proc, StartProcess(p) PROVE ChildInv'
<1>1. Built(Depth, <<>>)
  BY Types, StayBuilt DEF StartProcess
<1> QED
  BY <1>1, RunStep DEF StartProcess, notifyVars

LEMMA CallProcessBuilt ==
  ASSUME ChildInv, NEW p \in Proc, CallProcess(p)
  PROVE  Built(Depth, <<[op |-> "sync", p |-> p, fds |-> {NewOut, NewErr(FALSE)}]>>)
<1> DEFINE fr == [op |-> "sync", p |-> p, fds |-> {NewOut, NewErr(FALSE)}]
<1>1. out'[p] = NewOut /\ err'[p] = NewErr(FALSE) /\ NewOut \in Fd /\ NewErr(FALSE) \in Fd
  BY RunFacts, Types DEF CallProcess
<1>2. Push(<<fr>>)
  BY <1>1 DEF CallProcess, Enter
<1>3. fr \in Good
  BY <1>1 DEF Good, FrameOK, Frame, FrameOps
<1> QED
  BY <1>2, <1>3, CallBuilt

LEMMA CallProcessStep == ASSUME ChildInv, NEW p \in Proc, CallProcess(p) PROVE ChildInv'
  BY CallProcessBuilt, RunStep DEF CallProcess, notifyVars

LEMMA DropReferenceStep == ASSUME ChildInv, NEW p \in Proc, DropReference(p) PROVE ChildInv'
<1>1. /\ held' = held \ {p}
      /\ UNCHANGED <<allocated, status, conn, notifyNext, notifyList, count, child, news, pending,
                     out, err, files, stack, thrown, starts>>
  BY DEF DropReference, notifyVars, childVars, fdVars
<1>2. Built(Depth, <<>>) /\ ListTyped'
  BY <1>1, Types, StayBuilt DEF ListTyped
<1>3. Live' = Live /\ \A q \in Proc : (Active(q)' <=> Active(q)) /\ (Unseen(q)' <=> Unseen(q))
  BY <1>1 DEF Live, Active, Unseen
<1> QED
  BY <1>1, <1>2, <1>3, Types, LiveFinite, Changed DEF ChildInv, TypeOK

\* delete_process() on some processes leaves the others as they were.
LEMMA DeleteStep ==
  ASSUME ChildInv, NEW S, S \subseteq allocated, DeleteProcesses(S), held' \subseteq allocated',
         ListTyped', NEW fr, Built(Depth, fr),
         UNCHANGED <<status, conn, pending, out, err, thrown, starts>>
  PROVE  ChildInv'
<1> DEFINE A == {p \in S : Active(p)}
<1>1. /\ child' = [p \in Proc |-> IF p \in A THEN "none" ELSE child[p]]
      /\ news' = news \ A /\ count' = count - Cardinality(A)
      /\ files' = Closed((UNION {{out[p], err[p]} : p \in A}) \ {NoFd})
      /\ allocated' = allocated \ S
  BY DEF DeleteProcesses
<1>2. A \subseteq Live /\ Live' = Live \ A
  BY <1>1 DEF Live, Active
<1>3. IsFiniteSet(A) /\ Cardinality(A) \in Nat
  BY <1>2, LiveFinite, FS_Subset, FS_CardinalityType
<1>4. Cardinality(Live') = Cardinality(Live) - Cardinality(A)
  <2>1. Live \cap A = A
    BY <1>2
  <2> HIDE DEF A
  <2>2. Cardinality(Live \ A) = Cardinality(Live) - Cardinality(Live \cap A)
    BY LiveFinite, FS_Difference
  <2> QED
    BY <1>2, <2>1, <2>2
<1>5. count' \in Nat /\ count' <= starts' /\ Cardinality(Live') <= count'
  <2>1. Cardinality(Live') \in Nat
    BY <1>2, LiveFinite, FS_Subset, FS_CardinalityType
  <2> QED
    BY <1>1, <1>3, <1>4, <2>1, LiveFinite DEF ChildInv
<1>6. Free \in File
  BY ProcessesAssumption DEF Free, File
<1>7. files' \in [Fd -> File]
  BY <1>1, <1>6, Types DEF Closed
<1>8. \A q \in Proc : q \in S /\ ~Active(q) => child[q] = "none"
  BY DEF ChildInv
<1>9. ASSUME NEW q \in Proc
      PROVE  /\ child'[q] # "none" => q \in allocated' /\ Active(q)'
             /\ Unseen(q)' => Unseen(q)
             /\ q \in news' => child'[q] = "stopped"
  BY <1>1, <1>8 DEF ChildInv, Active, Unseen
<1>10. child' \in [Proc -> {"none", "running", "stopped", "zombie"}]
  BY <1>1 DEF ChildInv, TypeOK
<1>11. news' \in SUBSET Proc /\ allocated' \in SUBSET Proc
  BY <1>1 DEF ChildInv, TypeOK
<1> HIDE DEF A
<1> QED
  BY <1>5, <1>7, <1>9, <1>10, <1>11, Types, Changed DEF ChildInv, TypeOK

LEMMA GarbageCollectStep == ASSUME ChildInv, GarbageCollect PROVE ChildInv'
<1>1. UNCHANGED <<held, status, conn, pending, out, err, thrown, starts>>
  BY DEF GarbageCollect
<1>2. CASE MarkedAt # {}
  <2> DEFINE kept == Walk[Min(MarkedAt)]
  <2>1. /\ notifyList' = kept /\ notifyNext' = [p \in Proc |-> IF p = kept THEN NoProc ELSE notifyNext[p]]
        /\ DeleteProcesses(allocated \ Marked) /\ UNCHANGED stack
    BY <1>2 DEF GarbageCollect
  <2>2. Min(MarkedAt) \in 0 .. Size
    <3>1. MarkedAt \subseteq 0 .. Size /\ MarkedAt \subseteq Nat
      BY SizeType DEF MarkedAt
    <3> QED
      BY <1>2, <3>1, Least
  <2>3. kept \in Link
    BY <2>2, Types, ListWalk DEF Follows
  <2> HIDE DEF kept
  <2>4. ListTyped'
    BY <2>1, <2>3, Types DEF ListTyped, Link
  <2>5. Built(Depth, <<>>)
    BY <2>1, Types, StayBuilt
  <2>6. held' \subseteq allocated'
    BY <1>1, <2>1 DEF DeleteProcesses, Marked, ChildInv
  <2> QED
    BY <1>1, <2>1, <2>4, <2>5, <2>6, DeleteStep
<1>3. CASE MarkedAt = {}
  <2>1. Push(<<F("hung")>>) /\ UNCHANGED <<notifyNext, notifyList, allocated, child, news, count, files>>
    BY <1>3 DEF GarbageCollect, notifyVars
  <2>2. Built(Depth, <<F("hung")>>)
    BY <2>1, GoodFrames, CallBuilt DEF FrameOps
  <2>3. ListTyped'
    BY <2>1, Types DEF ListTyped
  <2> QED
    BY <1>1, <2>1, <2>2, <2>3, Types, Quiet
<1> QED
  BY <1>2, <1>3

LEMMA ProcessesKillStep == ASSUME ChildInv, ProcessesKill PROVE ChildInv'
<1>1. /\ DeleteProcesses(allocated) /\ held' = {} /\ Push(<<F("exited")>>)
      /\ UNCHANGED <<status, conn, notifyNext, notifyList, pending, out, err, thrown, starts>>
  BY DEF ProcessesKill, notifyVars
<1>2. Built(Depth, <<F("exited")>>)
  BY <1>1, GoodFrames, CallBuilt DEF FrameOps
<1>3. ListTyped'
  BY <1>1, Types DEF ListTyped
<1> QED
  BY <1>1, <1>2, <1>3, DeleteStep

\* A signal reaches the child of p, or the child ends by itself.
LEMMA KillStep ==
  ASSUME ChildInv, NEW p \in Proc, NEW sig \in Signals, Kill(p, sig) \/ Unaffected(p, sig),
         \/ status' = status /\ UNCHANGED <<notifyNext, notifyList>>
         \/ Active(p) /\ status' = [status EXCEPT ![p] = "running"] /\ QueueNotification(p),
         UNCHANGED <<allocated, held, conn, count, out, err, stack, thrown, starts>>
  PROVE  ChildInv'
<1>1. Built(Depth, <<>>)
  BY Types, StayBuilt
<1>2. ListTyped'
  BY Types, QueueTyped DEF ListTyped
<1>3. /\ status' \in [Proc -> {"dead", "running", "stopped"}]
      /\ \A q \in Proc : Active(q)' <=> Active(q)
  BY DEF ChildInv, TypeOK, Active
<1>4. Live' = Live
  BY <1>3 DEF Live, ChildInv, TypeOK
<1>5. files' \in [Fd -> File]
  <2>1. CASE ChildEnds(p)
    <3>1. ASSUME NEW f \in Fd PROVE [files[f] EXCEPT !.writer = FALSE] \in File
      BY Types DEF File
    <3> QED
      BY <2>1, <3>1, Types DEF ChildEnds
  <2> QED
    BY <2>1, Types DEF Kill, Unaffected
<1>6. /\ child \in [Proc -> {"none", "running", "stopped", "zombie"}] /\ news \in SUBSET Proc /\ pending \in BOOLEAN
      /\ \A q \in news : child[q] = "stopped"
  BY DEF ChildInv, TypeOK
<1>7. /\ child' \in [Proc -> {"none", "running", "stopped", "zombie"}] /\ news' \in SUBSET Proc
      /\ pending' \in BOOLEAN /\ (pending => pending')
      /\ \A q \in Proc : child'[q] # "none" <=> child[q] # "none"
      /\ \A q \in news' : child'[q] = "stopped"
      /\ pending' \/ \A q \in Proc : Unseen(q)' => Unseen(q)
  <2>1. CASE ChildEnds(p)
    BY <1>6, <2>1 DEF ChildEnds
  <2>2. CASE /\ child[p] = "running" /\ child' = [child EXCEPT ![p] = "stopped"]
             /\ news' = news \cup {p} /\ pending' = TRUE
    BY <1>6, <2>2
  <2>3. CASE /\ child[p] = "stopped" /\ child' = [child EXCEPT ![p] = "running"]
             /\ news' = news \ {p} /\ pending' \in {pending, TRUE}
    BY <1>6, <2>3 DEF Unseen
  <2>4. CASE UNCHANGED childVars
    BY <1>6, <2>4 DEF Unseen, childVars
  <2> QED
    BY <2>1, <2>2, <2>3, <2>4 DEF Kill, Unaffected
<1>8. \A q \in Proc : child'[q] # "none" => q \in allocated' /\ Active(q)'
  BY <1>3, <1>7 DEF ChildInv
<1> QED
  BY <1>1, <1>2, <1>3, <1>4, <1>5, <1>7, <1>8, Types, LiveFinite, Changed DEF ChildInv, TypeOK

LEMMA SignalSteps ==
  ASSUME ChildInv, NEW p \in Proc,
         \/ ChildExit(p) \/ ContinueProcess(p) \/ \E sig \in Signals : SignalProcess(p, sig)
  PROVE  ChildInv'
<1>1. CASE ChildExit(p)
  <2>1. Kill(p, "kill") /\ "kill" \in Signals
    BY <1>1 DEF ChildExit, Kill, Signals
  <2> QED
    BY <1>1, <2>1, KillStep DEF ChildExit, objVars, notifyVars
<1>2. CASE ContinueProcess(p)
  <2>1. "cont" \in Signals /\ Active(p)
    BY <1>2 DEF ContinueProcess, Signals, Active
  <2> QED
    BY <1>2, <2>1, KillStep DEF ContinueProcess
<1>3. CASE \E sig \in Signals : SignalProcess(p, sig)
  BY <1>3, KillStep DEF SignalProcess, DoSignalCommand, objVars, notifyVars
<1> QED
  BY <1>1, <1>2, <1>3

----------------------------------------------------------------------------
LEMMA ChildInvInit == Init => ChildInv
<1> SUFFICES ASSUME Init PROVE ChildInv
  OBVIOUS
<1>1. Free \in File
  BY ProcessesAssumption DEF Free, File
<1>2. TypeOK
  <2>1. /\ NoFd \in Fd \cup {NoFd} /\ "pipe" \in Conn /\ 0 \in 0 .. MaxStarts /\ <<>> \in Seq(Frame)
    BY ProcessesAssumption DEF Conn
  <2>2. out \in [Proc -> Fd \cup {NoFd}] /\ err \in [Proc -> Fd \cup {NoFd}] /\ conn \in [Proc -> Conn]
    BY <2>1 DEF Init
  <2>3. files \in [Fd -> File] /\ notifyNext \in [Proc -> Proc \cup {NoProc}]
    BY <1>1 DEF Init
  <2> QED
    BY <2>1, <2>2, <2>3 DEF Init, TypeOK
<1>3. Live = {} /\ Cardinality(Live) = 0
  BY FS_EmptySet DEF Init, Live
<1>4. \A p \in Proc : ~Unseen(p) /\ child[p] = "none"
  BY DEF Init, Unseen
<1> QED
  BY <1>2, <1>3, <1>4 DEF Init, ChildInv

LEMMA ChildInvNext == ChildInv /\ [Next]_vars => ChildInv'
<1> SUFFICES ASSUME ChildInv, [Next]_vars PROVE ChildInv'
  OBVIOUS
<1>1. CASE EventLoop
  BY <1>1, EventLoopCallbackStep, EventLoopInputStep, IdleSteps DEF EventLoop
<1>2. CASE CCode
  BY <1>2, DispatchStep, DispatchDoneStep, ReapStoppedStep, ReapDeadStep, ReapDoneStep, DiedOutStep,
     DiedErrStep, ReadBlockStep, ReadWouldBlockStep, ReadEndStep, SyncReadStep, SyncEofStep, SyncEndStep,
     AcceptReturnStep, Wait1Step, Reap1Step, Notify1Step, CallbackReturnStep DEF CCode
<1>3. CASE LispCode
  <2>1. CASE \E p \in Proc : MakeProcess(p) \/ StartProcess(p) \/ CallProcess(p)
                            \/ AcceptProcessOutput1(p) \/ DropReference(p)
    BY <2>1, MakeProcessStep, StartProcessStep, CallProcessStep, AcceptProcessOutput1Step, DropReferenceStep
  <2>2. CASE \E p \in Proc : StartFails(p) \/ CloseProcess(p) \/ \E c \in ConnTypes : SetConnectionType(p, c)
    BY <2>2, SmallSteps
  <2>3. CASE \E p \in Proc : ContinueProcess(p) \/ \E sig \in Signals : SignalProcess(p, sig)
    BY <2>3, SignalSteps
  <2>4. CASE AcceptProcessOutput \/ GarbageCollect \/ ProcessesKill
    BY <2>4, AcceptProcessOutputStep, GarbageCollectStep, ProcessesKillStep
  <2>5. CASE Throw
    BY <2>5, IdleSteps
  <2> QED
    BY <1>3, <2>1, <2>2, <2>3, <2>4, <2>5 DEF LispCode
<1>4. CASE Child
  BY <1>4, SmallSteps, SignalSteps DEF Child
<1>5. CASE Stuck \/ Finished \/ UNCHANGED vars
  BY <1>5, IdleSteps
<1> QED
  BY <1>1, <1>2, <1>3, <1>4, <1>5 DEF Next

\* Every variable has its type: a process is followed by a process or by
\* nothing, the count of active processes never runs below zero or beyond the
\* children that were started, a descriptor holds no more than a pipe does, and
\* the stack holds C functions of processes.c, each with what it works on.
THEOREM TypeCorrect == Spec => []TypeOK
<1>1. ChildInv => TypeOK
  BY DEF ChildInv
<1> QED
  BY <1>1, ChildInvInit, ChildInvNext, PTL DEF Spec

\* No child's end or stop is lost, whatever Lisp code does in or out of
\* callbacks: while a child waits to be reported, the SIGCHLD flag is set or a
\* loop around waitpid() is active, and it looks until it has seen them all,
\* for the count that ends it is never below the number of active processes.
THEOREM NoChildLost == Spec => []NoLostChild
  BY ChildInvSuffices, ChildInvInit, ChildInvNext, PTL DEF Spec
----------------------------------------------------------------------------
(* Descriptors: the inductive invariant.  A process that is started while   *)
(* an input handler is active may be given the descriptor that handler      *)
(* holds, and an uninitialised stderr_fd may name any descriptor: both are  *)
(* excluded here.                                                           *)

NoReuse == StaleWords = {NoFd} /\ CallbackOps \cap {"start", "call"} = {}

\* The interpreter has ended.
Exited == Depth = 1 /\ stack[1].op = "exited" /\ allocated = {}

FieldsOwn(o, e, fl) == \A p \in Proc : \A f \in {o[p], e[p]} \ {NoFd} : fl[f].owner = p

\* Only a child that has not ended writes.
WritersLive(fl, ch) ==
  \A f \in Fd : fl[f].writer => fl[f].owner \in Proc /\ ch[fl[f].owner] \in {"running", "stopped"}

\* Frame k waits until f has been read to its end.
ReadFirst(st, k, f) ==
  f = NoFd \/ (k < Len(st) /\ st[k + 1].op = "read" /\ st[k + 1].p = st[k].p /\ st[k + 1].fds = {f})

FrameOwns(st, k, o, e, fl, ch) ==
  LET p == st[k].p IN
    /\ st[k].op = "read" => \A f \in st[k].fds : fl[f].owner \in {p, NoProc}
    /\ st[k].op = "diedOut" => ch[p] = "none" /\ ReadFirst(st, k, o[p])
    /\ st[k].op = "diedErr" => ch[p] = "none" /\ o[p] = NoFd /\ ReadFirst(st, k, e[p])

Owns ==
  /\ FieldsOwn(out, err, files)
  /\ WritersLive(files, child)
  /\ \A k \in 1 .. Depth : FrameOwns(stack, k, out, err, files, child)

OwnInv == ChildInv /\ (Exited \/ Owns)

LEMMA OwnInvSuffices == OwnInv => DescriptorsOwned /\ DrainedAtDeath
<1> SUFFICES ASSUME OwnInv PROVE DescriptorsOwned /\ DrainedAtDeath
  OBVIOUS
<1>1. Depth \in Nat /\ ChildInv
  BY Types DEF OwnInv
<1>2. CASE Exited
  <2>1. ~TopIs("diedErr")
    BY <1>1, <1>2 DEF Exited, TopIs, Top
  <2> QED
    BY <1>1, <1>2, <2>1 DEF Exited, DescriptorsOwned, DrainedAtDeath
<1>3. CASE Owns
  <2>1. DescriptorsOwned
    BY <1>1, <1>3 DEF Owns, FieldsOwn, FrameOwns, DescriptorsOwned, ChildInv, TypeOK
  <2>2. ASSUME TopIs("diedErr") PROVE out[Top.p] = NoFd /\ err[Top.p] = NoFd
    <3>1. Depth \in 1 .. Depth /\ Top.op = "diedErr"
      BY <1>1, <2>2 DEF TopIs
    <3>2. FrameOwns(stack, Depth, out, err, files, child)
      BY <1>3, <3>1 DEF Owns
    <3> QED
      BY <1>1, <3>1, <3>2 DEF FrameOwns, ReadFirst, Top, Depth
  <2> QED
    BY <2>1, <2>2 DEF DrainedAtDeath
<1> QED
  BY <1>2, <1>3 DEF OwnInv

\* What a step has to show: nothing is said about other functions' frames if
\* there are none; else fields are only cleared, descriptors only closed, no
\* dead child comes back, and a function that ends has read to the end.
LEMMA OwnKept ==
  ASSUME ChildInv, Owns, NEW base, NEW fr, Built(base, fr),
         FieldsOwn(out', err', files'), WritersLive(files', child'),
         \/ Depth = 0
         \/ /\ \A p \in Proc : /\ out'[p] \in {out[p], NoFd} /\ err'[p] \in {err[p], NoFd}
                               /\ child[p] = "none" => child'[p] = "none"
            /\ \A f \in Fd : files'[f].owner \in {files[f].owner, NoProc},
         \/ base = Depth
         \/ /\ base = Depth - 1
            /\ Top.op = "read" =>
                 \/ \A f \in Top.fds : out'[Top.p] # f /\ err'[Top.p] # f
                 \/ \A f \in Top.fds : files[f].writer,
         \A j \in 1 .. Len(fr) : FrameOwns(stack', base + j, out', err', files', child')
  PROVE  Owns'
<1> SUFFICES ASSUME NEW k \in 1 .. Len(stack') PROVE FrameOwns(stack', k, out', err', files', child')
  BY DEF Owns, Depth
<1>1. /\ Depth \in Nat /\ Depth = Len(stack) /\ Len(fr) \in Nat /\ base \in 0 .. Depth
      /\ stack \in Seq(Good) /\ stack' \in Seq(Good) /\ Len(stack') = base + Len(fr)
      /\ \A i \in 1 .. base : stack'[i] = stack[i]
  BY Types DEF Built, Depth
<1>2. CASE k > base
  <2>1. k - base \in 1 .. Len(fr) /\ base + (k - base) = k
    BY <1>1, <1>2
  <2> QED
    BY <2>1
<1>3. CASE k <= base
  <2> DEFINE p == stack[k].p
  <2>1. k \in 1 .. base /\ k \in 1 .. Depth /\ stack'[k] = stack[k] /\ stack[k] \in Good /\ Depth # 0
    BY <1>1, <1>3
  <2>2. FrameOwns(stack, k, out, err, files, child)
    BY <2>1 DEF Owns
  <2>3. CASE stack[k].op = "read"
    <3>1. stack[k].fds \subseteq Fd
      BY <2>1 DEF Good, Frame
    <3> QED
      BY <2>1, <2>2, <2>3, <3>1 DEF FrameOwns
  <2>4. ASSUME stack[k].op \in {"diedOut", "diedErr"} PROVE p \in Proc /\ child[p] = "none" /\ child'[p] = "none"
    BY <2>1, <2>2, <2>4 DEF FrameOwns, Good, FrameOK
  <2>5. ASSUME NEW f, ReadFirst(stack, k, f), stack[k].op \in {"diedOut", "diedErr"},
               NEW g \in {f, NoFd},
               (f = out[p] /\ g = out'[p]) \/ (f = err[p] /\ g = err'[p])
        PROVE  ReadFirst(stack', k, g)
    <3>1. CASE g = NoFd
      BY <3>1 DEF ReadFirst
    <3>2. CASE g # NoFd
      <4>1. /\ g = f /\ k < Depth /\ stack[k + 1].op = "read" /\ stack[k + 1].p = p /\ stack[k + 1].fds = {f}
        BY <1>1, <2>5, <3>2 DEF ReadFirst
      <4>2. CASE k < base
        <5>1. k + 1 \in 1 .. base /\ k < Len(stack')
          BY <1>1, <2>1, <4>2
        <5> QED
          BY <1>1, <2>1, <4>1, <5>1 DEF ReadFirst
      <4>3. CASE k = base
        <5>1. base = Depth - 1 /\ k + 1 = Depth /\ Top.op = "read" /\ Top.p = p /\ Top.fds = {f}
          BY <1>1, <4>1, <4>3 DEF Top
        <5>2. files[f].writer
          BY <1>1, <2>5, <4>1, <5>1
        <5>3. f \in Fd /\ files[f].owner = p
          BY <2>4, <2>5, <3>2, <4>1, Types DEF Owns, FieldsOwn
        <5> QED
          BY <2>4, <2>5, <5>2, <5>3 DEF Owns, WritersLive
      <4> QED
        BY <1>1, <1>3, <2>1, <4>2, <4>3
    <3> QED
      BY <3>1, <3>2
  <2>6. CASE stack[k].op = "diedOut"
    <3>1. ReadFirst(stack, k, out[p]) /\ out'[p] \in {out[p], NoFd}
      BY <2>1, <2>2, <2>4, <2>6 DEF FrameOwns
    <3>2. ReadFirst(stack', k, out'[p])
      BY <2>5, <2>6, <3>1
    <3> QED
      BY <2>1, <2>4, <2>6, <3>2 DEF FrameOwns
  <2>7. CASE stack[k].op = "diedErr"
    <3>1. /\ ReadFirst(stack, k, err[p]) /\ err'[p] \in {err[p], NoFd} /\ out'[p] = NoFd
      BY <2>1, <2>2, <2>4, <2>7 DEF FrameOwns
    <3>2. ReadFirst(stack', k, err'[p])
      BY <2>5, <2>7, <3>1
    <3> QED
      BY <2>1, <2>4, <2>7, <3>1, <3>2 DEF FrameOwns
  <2> QED
    BY <2>1, <2>3, <2>6, <2>7 DEF FrameOwns
<1> QED
  BY <1>1, <1>2, <1>3

\* Frames about which there is nothing to show.
LEMMA PlainOwns ==
  ASSUME NEW st, NEW k, st[k].op \notin {"read", "diedOut", "diedErr"}, NEW o, NEW e, NEW fl, NEW ch
  PROVE  FrameOwns(st, k, o, e, fl, ch)
  BY DEF FrameOwns

LEMMA PlainFrames ==
  ASSUME NEW base, NEW fr, Built(base, fr), \A j \in 1 .. Len(fr) : fr[j].op \notin {"read", "diedOut", "diedErr"},
         NEW o, NEW e, NEW fl, NEW ch
  PROVE  \A j \in 1 .. Len(fr) : FrameOwns(stack', base + j, o, e, fl, ch)
  BY PlainOwns DEF Built

LEMMA EventFramesPlain ==
  ASSUME NEW x \in Good, x.op \notin {"read", "diedOut", "diedErr"},
         NEW fr, fr = <<x>> \o HandleProcessEvents
  PROVE  /\ fr \in Seq(Good)
         /\ \A j \in 1 .. Len(fr) : fr[j].op \notin {"read", "diedOut", "diedErr"}
<1>1. F("reap") \in Good /\ F("reap").op = "reap"
  BY GoodFrames DEF FrameOps, F
<1>2. CASE pending
  <2>1. fr = <<x>> \o <<F("reap")>>
    BY <1>2 DEF HandleProcessEvents
  <2>2. fr \in Seq(Good) /\ Len(fr) = 2 /\ fr[1] = x /\ fr[2] = F("reap")
    <3>1. LET s == <<x>> \o <<F("reap")>> IN s \in Seq(Good) /\ Len(s) = 2 /\ s[1] = x /\ s[2] = F("reap")
      BY <1>1, FrameLists
    <3> QED
      BY <2>1, <3>1
  <2>3. \A j \in 1 .. 2 : j = 1 \/ j = 2
    OBVIOUS
  <2> QED
    BY <1>1, <2>2, <2>3
<1>3. CASE ~pending
  <2>1. fr = <<x>>
    BY <1>3, FrameLists DEF HandleProcessEvents
  <2>2. fr \in Seq(Good) /\ Len(fr) = 1 /\ fr[1] = x
    <3>1. <<x>> \in Seq(Good) /\ Len(<<x>>) = 1 /\ <<x>>[1] = x
      BY FrameLists
    <3> QED
      BY <2>1, <3>1, Zenon
  <2>3. \A j \in 1 .. 1 : j = 1
    OBVIOUS
  <2> QED
    BY <2>2, <2>3
<1> QED
  BY <1>2, <1>3

\* A step that leaves descriptors, fields and children alone.
LEMMA StillOwns ==
  ASSUME ChildInv, Owns, NEW base, NEW fr, Built(base, fr),
         UNCHANGED <<out, err, files, child>>,
         \/ base = Depth
         \/ base = Depth - 1 /\ Top.op # "read",
         \A j \in 1 .. Len(fr) : FrameOwns(stack', base + j, out, err, files, child)
  PROVE  Owns'
<1>1. FieldsOwn(out', err', files') /\ WritersLive(files', child')
  BY DEF Owns
<1>2. \A j \in 1 .. Len(fr) : FrameOwns(stack', base + j, out', err', files', child')
  OBVIOUS
<1> QED
  BY <1>1, <1>2, OwnKept

\* close_files() closes what the process owns and nothing else.
LEMMA CloseOwns ==
  ASSUME ChildInv, Owns, NEW p \in Proc, CloseFiles(p)
  PROVE  /\ FieldsOwn(out', err', files')
         /\ \A f \in Fd : files'[f] \in {files[f], Free}
         /\ \A q \in Proc : out'[q] \in {out[q], NoFd} /\ err'[q] \in {err[q], NoFd}
<1> DEFINE C == {out[p], err[p]} \ {NoFd}
<1>1. /\ files' = [f \in Fd |-> IF f \in C THEN Free ELSE files[f]]
      /\ out' = [out EXCEPT ![p] = NoFd] /\ err' = [err EXCEPT ![p] = NoFd]
  BY DEF CloseFiles, Closed
<1>2. \A q \in Proc : out'[q] = (IF q = p THEN NoFd ELSE out[q]) /\ err'[q] = (IF q = p THEN NoFd ELSE err[q])
  BY <1>1, Types
<1>3. \A f \in C : files[f].owner = p
  BY DEF Owns, FieldsOwn
<1>4. ASSUME NEW q \in Proc, NEW f \in {out'[q], err'[q]} \ {NoFd} PROVE files'[f].owner = q
  <2>1. q # p /\ f \in {out[q], err[q]} \ {NoFd} /\ f \in Fd
    BY <1>2, Types
  <2>2. files[f].owner = q
    BY <2>1 DEF Owns, FieldsOwn
  <2>3. f \notin C
    BY <1>3, <2>1, <2>2
  <2> QED
    BY <1>1, <2>1, <2>2, <2>3
<1> QED
  BY <1>1, <1>2, <1>4 DEF FieldsOwn

LEMMA ClosedWriters ==
  ASSUME Owns, \A f \in Fd : files'[f] \in {files[f], Free}, NEW ch,
         \A p \in Proc : child[p] \in {"running", "stopped"} => ch[p] \in {"running", "stopped"}
  PROVE  WritersLive(files', ch) /\ \A f \in Fd : files'[f].owner \in {files[f].owner, NoProc}
  BY DEF Owns, WritersLive, Free

\* A file is emptied.
LEMMA EmptiedOwns ==
  ASSUME ChildInv, Owns, NEW g \in Fd, files' = [files EXCEPT ![g].unread = 0], UNCHANGED <<out, err, child>>
  PROVE  /\ FieldsOwn(out', err', files') /\ WritersLive(files', child')
         /\ \A f \in Fd : files'[f].owner = files[f].owner
<1>1. files' = [files EXCEPT ![g] = [files[g] EXCEPT !.unread = 0]]
  OBVIOUS
<1>2. ASSUME NEW f \in Fd PROVE files'[f].owner = files[f].owner /\ files'[f].writer = files[f].writer
  BY <1>1, Types DEF File
<1> QED
  BY <1>2, Types DEF Owns, FieldsOwn, WritersLive
\* Steps that only call and leave functions other than the reading ones.
LEMMA PlainStep ==
  ASSUME ChildInv, Owns, UNCHANGED <<out, err, files, child>>, NEW base, NEW fr, Built(base, fr),
         base = Depth \/ (base = Depth - 1 /\ Top.op # "read"),
         \A j \in 1 .. Len(fr) : fr[j].op \notin {"read", "diedOut", "diedErr"}
  PROVE  Owns'
  BY PlainFrames, StillOwns

LEMMA OneFrame ==
  ASSUME NEW x, x.op \notin {"read", "diedOut", "diedErr"}
  PROVE  /\ \A j \in 1 .. Len(<<x>>) : <<x>>[j].op \notin {"read", "diedOut", "diedErr"}
         /\ \A j \in 1 .. Len(<<>>) : <<>>[j].op \notin {"read", "diedOut", "diedErr"}
<1>1. Len(<<x>>) = 1 /\ <<x>>[1] = x /\ Len(<<>>) = 0
  OBVIOUS
<1>2. \A j \in 1 .. 1 : j = 1
  OBVIOUS
<1> QED
  BY <1>1, <1>2

LEMMA PopOwns ==
  ASSUME ChildInv, Owns, UNCHANGED <<out, err, files, child>>, Depth > 0, Top.op # "read", Goto(<<>>) PROVE Owns'
<1>1. Built(Depth - 1, <<>>)
  BY PopBuilt
<1>2. \A j \in 1 .. Len(<<>>) : <<>>[j].op \notin {"read", "diedOut", "diedErr"}
  BY FrameLists
<1> QED
  BY <1>1, <1>2, PlainStep

LEMMA StayOwns ==
  ASSUME ChildInv, Owns, UNCHANGED <<out, err, files, child, stack>> PROVE Owns'
<1>1. Built(Depth, <<>>)
  BY Types, StayBuilt
<1>2. \A j \in 1 .. Len(<<>>) : <<>>[j].op \notin {"read", "diedOut", "diedErr"}
  BY FrameLists
<1> QED
  BY <1>1, <1>2, PlainStep

LEMMA PushOwns ==
  ASSUME ChildInv, Owns, UNCHANGED <<out, err, files, child>>,
         NEW x \in Good, x.op \notin {"read", "diedOut", "diedErr"},
         \/ Push(<<x>>) \/ Push(<<x>> \o HandleProcessEvents)
         \/ Depth > 0 /\ Top.op # "read" /\ (Goto(<<x>>) \/ Goto(<<x>> \o HandleProcessEvents))
  PROVE  Owns'
<1>1. /\ <<x>> \in Seq(Good)
      /\ \A j \in 1 .. Len(<<x>>) : <<x>>[j].op \notin {"read", "diedOut", "diedErr"}
  BY FrameLists, OneFrame
<1> DEFINE ev == <<x>> \o HandleProcessEvents
<1>2. /\ ev \in Seq(Good)
      /\ \A j \in 1 .. Len(ev) : ev[j].op \notin {"read", "diedOut", "diedErr"}
  BY EventFramesPlain
<1> DEFINE one == <<x>>
<1>3. one \in Seq(Good) /\ \A j \in 1 .. Len(one) : one[j].op \notin {"read", "diedOut", "diedErr"}
  BY <1>1
<1>4. Push(one) \/ Push(ev) \/ (Depth > 0 /\ Top.op # "read" /\ (Goto(one) \/ Goto(ev)))
  OBVIOUS
<1> HIDE DEF one, ev
<1>5. CASE Push(one) \/ Push(ev)
  BY <1>2, <1>3, <1>5, Types, PushBuilt, PlainStep
<1>6. CASE Depth > 0 /\ Top.op # "read" /\ (Goto(one) \/ Goto(ev))
  BY <1>2, <1>3, <1>6, Types, GotoBuilt, PlainStep
<1> QED
  BY <1>4, <1>5, <1>6

\* Frames with a process or without one.
LEMMA FrameOpsAre ==
  /\ \A op : F(op).op = op
  /\ \A op, p : FP(op, p).op = op /\ FP(op, p).p = p
  /\ \A p, f : Reading(p, f).op = "read" /\ Reading(p, f).p = p /\ Reading(p, f).fds = {f}
  BY DEF F, FP, Reading

LEMMA PlainSteps ==
  ASSUME ChildInv, Owns,
         \/ Dispatch \/ DispatchDone \/ ReapDone \/ AcceptReturn \/ Reap1 \/ Notify1 \/ CallbackReturn
         \/ EventLoopCallback \/ HandleException \/ Throw \/ Stuck \/ Finished \/ UNCHANGED vars
         \/ \E p \in Proc : \/ ReapStopped(p) \/ AcceptProcessOutput1(p) \/ DropReference(p)
                            \/ \E c \in ConnTypes : SetConnectionType(p, c)
  PROVE  Owns'
<1>1. UNCHANGED <<out, err, files, child>>
  BY DEF Dispatch, DispatchDone, ReapDone, AcceptReturn, Reap1, Notify1, CallbackReturn, EventLoopCallback,
         HandleException, Throw, Stuck, Finished, vars, ReapStopped, AcceptProcessOutput1, DropReference,
         SetConnectionType, childVars, fdVars
<1>2. CASE DispatchDone \/ ReapDone \/ CallbackReturn
  BY <1>1, <1>2, PopOwns DEF DispatchDone, ReapDone, CallbackReturn, TopIs
<1>3. CASE \/ HandleException \/ Throw \/ Stuck \/ Finished \/ UNCHANGED vars
           \/ \E p \in Proc : \/ ReapStopped(p) \/ DropReference(p)
                              \/ \E c \in ConnTypes : SetConnectionType(p, c)
  <2>1. UNCHANGED stack
    BY <1>3 DEF HandleException, Throw, Stuck, Finished, vars, ReapStopped, DropReference, SetConnectionType
  <2> QED
    BY <1>1, <2>1, StayOwns
<1>4. CASE Dispatch
  <2>1. notifyList \in Proc
    BY <1>4, Types DEF Dispatch, ListTyped, Link
  <2>2. FP("notify", notifyList) \in Good /\ FP("notify", notifyList).op = "notify"
    BY <2>1, GoodFrames, FrameOpsAre DEF FrameOps
  <2> QED
    BY <1>1, <1>4, <2>2, PushOwns DEF Dispatch
<1>5. F("dispatch") \in Good /\ F("dispatch").op = "dispatch"
  BY GoodFrames, FrameOpsAre DEF FrameOps
<1>6. CASE EventLoopCallback
  BY <1>1, <1>5, <1>6, PushOwns DEF EventLoopCallback
<1>7. CASE AcceptReturn
  <2>1. Depth > 0 /\ Top.op = "accept" /\ (Goto(<<>>) \/ Goto(<<F("dispatch")>> \o HandleProcessEvents))
    BY <1>7 DEF AcceptReturn, TopIs
  <2> QED
    BY <1>1, <1>5, <2>1, PushOwns, PopOwns
<1>8. CASE Reap1
  <2>1. Depth > 0 /\ Top.op = "reap1" /\ Top.p \in Proc /\ Goto(<<FP("notify1", Top.p)>> \o HandleProcessEvents)
    BY <1>8, Types DEF Reap1, TopIs, Good, FrameOK
  <2>2. FP("notify1", Top.p) \in Good /\ FP("notify1", Top.p).op = "notify1"
    BY <2>1, GoodFrames, FrameOpsAre DEF FrameOps
  <2> QED
    BY <1>1, <2>1, <2>2, PushOwns
<1>9. CASE Notify1
  <2>1. /\ Depth > 0 /\ Top.op = "notify1" /\ Top.p \in Proc
        /\ Goto(<<>>) \/ Goto(<<FP("notify", Top.p)>>) \/ Goto(<<F("crashed")>>)
    BY <1>9, Types DEF Notify1, TopIs, Good, FrameOK
  <2>2. /\ FP("notify", Top.p) \in Good /\ FP("notify", Top.p).op = "notify"
        /\ F("crashed") \in Good /\ F("crashed").op = "crashed"
    BY <2>1, GoodFrames, FrameOpsAre DEF FrameOps
  <2> QED
    BY <1>1, <2>1, <2>2, PushOwns, PopOwns
<1>10. CASE \E p \in Proc : AcceptProcessOutput1(p)
  <2>1. PICK p \in Proc : Push(<<FP("wait1", p)>> \o HandleProcessEvents)
    BY <1>10 DEF AcceptProcessOutput1, Enter
  <2>2. FP("wait1", p) \in Good /\ FP("wait1", p).op = "wait1"
    BY GoodFrames, FrameOpsAre DEF FrameOps
  <2> QED
    BY <1>1, <2>1, <2>2, PushOwns
<1> QED
  BY <1>2, <1>3, <1>4, <1>6, <1>7, <1>8, <1>9, <1>10

LEMMA SyncEofOwns == ASSUME ChildInv, Owns, SyncEof PROVE Owns'
<1>1. UNCHANGED <<out, err, files, child>>
  BY DEF SyncEof, childVars, fdVars
<1>2. PICK f \in Fd : SyncSelect(f) /\ Goto(<<[Top EXCEPT !.fds = @ \ {f}]>>)
  BY DEF SyncEof
<1> DEFINE fr == [Top EXCEPT !.fds = @ \ {f}]
<1>3. Depth > 0 /\ Top \in Good /\ Top.op = "sync"
  BY <1>2, Types DEF SyncSelect, TopIs
<1>4. fr \in Good /\ fr.op = "sync" /\ Goto(<<fr>>)
  BY <1>2, <1>3 DEF Good, FrameOK, Frame
<1> HIDE DEF fr
<1> QED
  BY <1>1, <1>3, <1>4, PushOwns

\* The collector finds active processes marked, and so ends no child.
LEMMA CollectOwns == ASSUME ChildInv, Owns, GarbageCollect PROVE Owns'
<1>1. UNCHANGED <<out, err>>
  BY DEF GarbageCollect
<1>2. CASE MarkedAt # {}
  <2> DEFINE A == {p \in allocated \ Marked : Active(p)}
  <2>1. A = {}
    BY DEF Marked
  <2>2. /\ child' = [p \in Proc |-> IF p \in A THEN "none" ELSE child[p]]
        /\ files' = Closed((UNION {{out[p], err[p]} : p \in A}) \ {NoFd})
        /\ UNCHANGED stack
    BY <1>2 DEF GarbageCollect, DeleteProcesses
  <2>3. child' = child
    BY <2>1, <2>2 DEF ChildInv, TypeOK
  <2>4. (UNION {{out[p], err[p]} : p \in A}) \ {NoFd} = {}
    BY <2>1
  <2> HIDE DEF A
  <2>5. files' = files
    BY <2>2, <2>4, Types DEF Closed
  <2> QED
    BY <1>1, <2>2, <2>3, <2>5, StayOwns
<1>3. CASE MarkedAt = {}
  <2>1. Push(<<F("hung")>>) /\ UNCHANGED <<child, files>>
    BY <1>3 DEF GarbageCollect
  <2>2. F("hung") \in Good /\ F("hung").op = "hung"
    BY GoodFrames, FrameOpsAre DEF FrameOps
  <2> QED
    BY <1>1, <2>1, <2>2, PushOwns
<1> QED
  BY <1>2, <1>3

\* A function that reads from one of the process' own descriptors.
LEMMA ReadingOwns ==
  ASSUME NEW base, NEW fr, Built(base, fr), NEW j \in 1 .. Len(fr),
         NEW p, NEW f, fr[j] = Reading(p, f),
         NEW o, NEW e, NEW fl, NEW ch, fl[f].owner \in {p, NoProc}
  PROVE  FrameOwns(stack', base + j, o, e, fl, ch)
<1>1. stack'[base + j] = Reading(p, f)
  BY DEF Built
<1> QED
  BY <1>1, FrameOpsAre DEF FrameOwns

LEMMA FieldOwned ==
  ASSUME Owns, NEW p \in Proc, NEW f \in {out[p], err[p]} \ {NoFd} PROVE files[f].owner = p
  BY DEF Owns, FieldsOwn

LEMMA InputOwns ==
  ASSUME ChildInv, Owns, UNCHANGED <<out, err, files, child>>,
         NEW p \in Proc, NEW fr \in {<<>>, <<F("accept")>>}, ReadFromFd(p, fr)
  PROVE  Owns'
<1>1. PICK f \in {out[p], err[p]} \ {NoFd} :
        fr \o <<Reading(p, f)>> \in Seq(Good) /\ Built(Depth, fr \o <<Reading(p, f)>>)
  BY ReadFromFdBuilt
<1> DEFINE s == fr \o <<Reading(p, f)>>
<1>2. files[f].owner = p
  BY FieldOwned
<1>3. CASE fr = <<>>
  <2>1. Len(s) = 1 /\ s[1] = Reading(p, f)
    BY <1>3
  <2>2. Built(Depth, s)
    BY <1>1
  <2> HIDE DEF s
  <2>3. FrameOwns(stack', Depth + 1, out, err, files, child)
    <3>1. 1 \in 1 .. Len(s) /\ files[f].owner \in {p, NoProc}
      BY <1>2, <2>1
    <3> QED
      BY ONLY <2>1, <2>2, <3>1, ReadingOwns
  <2>4. \A j \in 1 .. Len(s) : FrameOwns(stack', Depth + j, out, err, files, child)
    <3>1. \A j \in 1 .. 1 : j = 1
      OBVIOUS
    <3> QED
      BY <2>1, <2>3, <3>1
  <2> QED
    BY <2>2, <2>4, StillOwns
<1>4. CASE fr = <<F("accept")>>
  <2>1. Len(s) = 2 /\ s[1] = F("accept") /\ s[2] = Reading(p, f)
    BY <1>4
  <2>2. Built(Depth, s)
    BY <1>1
  <2> HIDE DEF s
  <2>3. FrameOwns(stack', Depth + 2, out, err, files, child)
    BY <1>2, <2>1, <2>2, ReadingOwns
  <2>4. FrameOwns(stack', Depth + 1, out, err, files, child)
    <3>1. stack'[Depth + 1] = F("accept")
      BY <2>1, <2>2 DEF Built
    <3> QED
      BY <3>1, FrameOpsAre, PlainOwns
  <2>5. \A j \in 1 .. Len(s) : FrameOwns(stack', Depth + j, out, err, files, child)
    <3>1. \A j \in 1 .. 2 : j = 1 \/ j = 2
      OBVIOUS
    <3> QED
      BY <2>1, <2>3, <2>4, <3>1
  <2> QED
    BY <2>2, <2>5, StillOwns
<1> QED
  BY <1>3, <1>4

LEMMA InputSteps == ASSUME ChildInv, Owns, EventLoopInput \/ AcceptProcessOutput PROVE Owns'
<1>1. UNCHANGED <<out, err, files, child>>
  BY DEF EventLoopInput, AcceptProcessOutput, childVars, fdVars
<1>2. CASE EventLoopInput
  BY <1>1, <1>2, InputOwns DEF EventLoopInput
<1>3. CASE AcceptProcessOutput
  <2>1. CASE Push(<<F("dispatch")>> \o HandleProcessEvents)
    <3>1. F("dispatch") \in Good /\ F("dispatch").op = "dispatch"
      BY GoodFrames, FrameOpsAre DEF FrameOps
    <3> QED
      BY <1>1, <2>1, <3>1, PushOwns
  <2>2. CASE \E p \in Proc : ReadFromFd(p, <<F("accept")>>)
    BY <1>1, <2>2, InputOwns
  <2> QED
    BY <1>3, <2>1, <2>2 DEF AcceptProcessOutput, Enter
<1> QED
  BY <1>2, <1>3

LEMMA Wait1Owns == ASSUME ChildInv, Owns, Wait1 PROVE Owns'
<1> DEFINE p == Top.p
<1>1. /\ Depth > 0 /\ Top.op = "wait1" /\ p \in Proc
      /\ UNCHANGED <<out, err, files, child>>
  BY Types DEF Wait1, TopIs, Good, FrameOK, childVars, fdVars
<1>2. /\ FP("reap1", p) \in Good /\ FP("reap1", p).op = "reap1"
      /\ F("accept") \in Good /\ F("accept").op = "accept"
  BY <1>1, GoodFrames, FrameOpsAre DEF FrameOps
<1>3. CASE Goto(<<FP("reap1", p)>>)
  BY <1>1, <1>2, <1>3, PushOwns
<1>4. CASE \E f \in {out[p], err[p]} \ {NoFd} : Goto(<<FP("reap1", p), F("accept"), Reading(p, f)>>)
  <2>1. PICK f \in {out[p], err[p]} \ {NoFd} : Goto(<<FP("reap1", p), F("accept"), Reading(p, f)>>)
    BY <1>4
  <2>2. Reading(p, f) \in Good /\ files[f].owner = p
    BY <1>1, Types, GoodFrames, FieldOwned
  <2> DEFINE fr == <<FP("reap1", p), F("accept"), Reading(p, f)>>
             b == Depth - 1
  <2>3. fr \in Seq(Good) /\ Len(fr) = 3 /\ fr[1] = FP("reap1", p) /\ fr[2] = F("accept") /\ fr[3] = Reading(p, f)
    BY <1>2, <2>2
  <2>4. Built(b, fr)
    BY <1>1, <2>1, <2>3, Types, GotoBuilt
  <2> HIDE DEF fr, b
  <2>5. stack'[b + 1] = FP("reap1", p) /\ stack'[b + 2] = F("accept")
    BY <2>3, <2>4 DEF Built
  <2>6. /\ FrameOwns(stack', b + 1, out, err, files, child)
        /\ FrameOwns(stack', b + 2, out, err, files, child)
        /\ FrameOwns(stack', b + 3, out, err, files, child)
    BY <1>2, <2>2, <2>3, <2>4, <2>5, PlainOwns, ReadingOwns
  <2>7. \A j \in 1 .. Len(fr) : FrameOwns(stack', b + j, out, err, files, child)
    <3>1. \A j \in 1 .. 3 : j = 1 \/ j = 2 \/ j = 3
      OBVIOUS
    <3> QED
      BY <2>3, <2>6, <3>1
  <2> QED
    BY <1>1, <2>4, <2>7, StillOwns DEF b
<1> QED
  BY <1>3, <1>4 DEF Wait1

\* The frames of handle_process_events() for a child that died: first comes
\* the reading of stdout, if it is open, then that of stderr.
LEMMA DyingOwns ==
  ASSUME NEW base \in Nat, NEW x, NEW p, NEW f, NEW o, NEW e, NEW fl, NEW ch,
         x.p = p, ch[p] = "none",
         \/ x.op = "diedOut" /\ f = o[p]
         \/ x.op = "diedErr" /\ f = e[p] /\ o[p] = NoFd,
         NEW fr,
         \/ f = NoFd /\ fr = <<x>>
         \/ fl[f].owner = p /\ fr = <<x>> \o <<Reading(p, f)>>,
         Built(base, fr)
  PROVE  \A j \in 1 .. Len(fr) : FrameOwns(stack', base + j, o, e, fl, ch)
<1>1. CASE f = NoFd /\ fr = <<x>>
  <2>1. Len(fr) = 1 /\ stack'[base + 1] = x
    BY <1>1 DEF Built
  <2>2. FrameOwns(stack', base + 1, o, e, fl, ch)
    BY <1>1, <2>1 DEF FrameOwns, ReadFirst
  <2>3. \A j \in 1 .. 1 : j = 1
    OBVIOUS
  <2> QED
    BY <2>1, <2>2, <2>3
<1>2. CASE fl[f].owner = p /\ fr = <<x>> \o <<Reading(p, f)>>
  <2>1. Len(fr) = 2 /\ fr[1] = x /\ fr[2] = Reading(p, f)
    BY <1>2
  <2>2. /\ stack'[base + 1] = x /\ stack'[base + 2] = Reading(p, f)
        /\ base + 1 < Len(stack') /\ (base + 1) + 1 = base + 2
    BY <2>1 DEF Built
  <2>3. FrameOwns(stack', base + 2, o, e, fl, ch)
    BY <1>2, <2>2, FrameOpsAre DEF FrameOwns
  <2>4. ReadFirst(stack', base + 1, f)
    BY <2>2, FrameOpsAre DEF ReadFirst
  <2>5. FrameOwns(stack', base + 1, o, e, fl, ch)
    BY <2>2, <2>4 DEF FrameOwns
  <2>6. \A j \in 1 .. 2 : j = 1 \/ j = 2
    OBVIOUS
  <2> QED
    BY <2>1, <2>3, <2>5, <2>6
<1> QED
  BY <1>1, <1>2

LEMMA ReapDeadOwns == ASSUME ChildInv, Owns, NEW p \in Proc, ReapDead(p) PROVE Owns'
<1>1. /\ child' = [child EXCEPT ![p] = "none"] /\ child[p] = "zombie"
      /\ UNCHANGED <<out, err, files>>
  BY DEF ReapDead, fdVars
<1>2. /\ child'[p] = "none" /\ (\A q \in Proc \ {p} : child'[q] = child[q])
  BY <1>1 DEF ChildInv, TypeOK
<1>3. FieldsOwn(out', err', files') /\ WritersLive(files', child')
  BY <1>1, <1>2 DEF Owns, WritersLive
<1>4. FP("diedOut", p).op = "diedOut" /\ FP("diedOut", p).p = p
  BY FrameOpsAre
<1>5. Depth \in Nat
  BY Types
<1>6. PICK fr : /\ Built(Depth, fr)
                /\ \/ out[p] = NoFd /\ fr = <<FP("diedOut", p)>>
                   \/ files[out[p]].owner = p /\ fr = <<FP("diedOut", p)>> \o <<Reading(p, out[p])>>
  <2>1. CASE out[p] = NoFd /\ Built(Depth, <<FP("diedOut", p)>>)
    BY <2>1
  <2>2. CASE out[p] \in Fd /\ Built(Depth, <<FP("diedOut", p)>> \o <<Reading(p, out[p])>>)
    <3>1. out[p] # NoFd
      BY <2>2 DEF Fd, NoFd
    <3> QED
      BY <2>2, <3>1, FieldOwned
  <2> QED
    BY <2>1, <2>2, ReapDeadBuilt
<1>7. \A j \in 1 .. Len(fr) : FrameOwns(stack', Depth + j, out', err', files', child')
  <2> DEFINE f == out[p]
             x == FP("diedOut", p)
             d == Depth
             ch == child'
  <2>1. /\ f = out[p] /\ d \in Nat /\ x.op = "diedOut" /\ x.p = p /\ Built(d, fr) /\ ch[p] = "none"
        /\ (f = NoFd /\ fr = <<x>>) \/ (files[f].owner = p /\ fr = <<x>> \o <<Reading(p, f)>>)
    BY <1>2, <1>4, <1>5, <1>6
  <2> HIDE DEF f, x, d, ch
  <2>2. \A j \in 1 .. Len(fr) : FrameOwns(stack', d + j, out, err, files, ch)
    BY <2>1, DyingOwns
  <2> QED
    BY <1>1, <2>2 DEF d, ch
<1> QED
  BY <1>1, <1>2, <1>3, <1>6, <1>7, OwnKept

LEMMA DiedOutOwns == ASSUME ChildInv, Owns, DiedOut PROVE Owns'
<1> DEFINE p == Top.p
           b == Depth - 1
<1>1. /\ Depth > 0 /\ Top.op = "diedOut" /\ p \in Proc /\ Depth \in Nat /\ b \in Nat
      /\ UNCHANGED <<out, err, files, child>>
  BY DiedOutBuilt, Types DEF DiedOut, childVars, fdVars
<1>2. child[p] = "none" /\ out[p] = NoFd
  <2>1. FrameOwns(stack, Depth, out, err, files, child)
    BY <1>1 DEF Owns
  <2> QED
    BY <1>1, <2>1 DEF FrameOwns, ReadFirst, Top, Depth
<1>3. FP("diedErr", p).op = "diedErr" /\ FP("diedErr", p).p = p
  BY FrameOpsAre
<1>4. PICK fr : /\ Built(b, fr)
                /\ \/ err[p] = NoFd /\ fr = <<FP("diedErr", p)>>
                   \/ files[err[p]].owner = p /\ fr = <<FP("diedErr", p)>> \o <<Reading(p, err[p])>>
  <2>1. CASE err[p] \in {NoFd, out[p]} /\ Built(b, <<FP("diedErr", p)>>)
    BY <1>2, <2>1
  <2>2. CASE err[p] \notin {NoFd, out[p]} /\ Built(b, <<FP("diedErr", p)>> \o <<Reading(p, err[p])>>)
    BY <1>1, <2>2, FieldOwned
  <2> QED
    BY <2>1, <2>2, DiedOutBuilt
<1> HIDE DEF p
<1>5. \A j \in 1 .. Len(fr) : FrameOwns(stack', b + j, out, err, files, child)
  BY <1>1, <1>2, <1>3, <1>4, DyingOwns
<1> QED
  BY <1>1, <1>4, <1>5, StillOwns

\* A block is read.
LEMMA BlockOwns ==
  ASSUME ChildInv, Owns, Depth > 0, Top.p \in Proc, NEW g \in Fd, files' = [files EXCEPT ![g].unread = 0],
         UNCHANGED <<out, err, child>>,
         (~thrown /\ Push(<<FP("lisp", Top.p)>>)) \/ UNCHANGED stack
  PROVE  Owns'
<1>1. /\ FieldsOwn(out', err', files') /\ WritersLive(files', child')
      /\ \A f \in Fd : files'[f].owner = files[f].owner
  BY EmptiedOwns
<1>2. PICK fr \in {<<FP("lisp", Top.p)>>, <<>>} : Built(Depth, fr)
  BY BlockBuilt
<1>3. \A j \in 1 .. Len(fr) : fr[j].op \notin {"read", "diedOut", "diedErr"}
  BY <1>2, OneFrame, FrameOpsAre
<1>4. \A j \in 1 .. Len(fr) : FrameOwns(stack', Depth + j, out', err', files', child')
  BY <1>2, <1>3, PlainFrames
<1> QED
  BY <1>1, <1>2, <1>4, OwnKept

LEMMA BlockSteps == ASSUME ChildInv, Owns, ReadBlock \/ SyncRead PROVE Owns'
<1>1. CASE ReadBlock
  BY <1>1, TheFdFacts, BlockOwns DEF ReadBlock, childVars
<1>2. CASE SyncRead
  <2>1. PICK f \in Fd :
          /\ SyncSelect(f)
          /\ files' = [files EXCEPT ![f].unread = 0]
          /\ (~thrown /\ Push(<<FP("lisp", Top.p)>>)) \/ UNCHANGED stack
          /\ UNCHANGED <<childVars, out, err>>
    BY <1>2 DEF SyncRead
  <2>2. Depth > 0 /\ Top.p \in Proc
    BY <2>1, Types DEF SyncSelect, TopIs, Good, FrameOK
  <2> QED
    BY <2>1, <2>2, BlockOwns DEF childVars
<1> QED
  BY <1>1, <1>2

\* A child writes.
LEMMA ChildWriteOwns == ASSUME ChildInv, Owns, NEW p \in Proc, ChildWrite(p) PROVE Owns'
<1>1. PICK g \in Fd : files[g].unread < MaxUnread /\ files' = [files EXCEPT ![g].unread = @ + 1]
  BY DEF ChildWrite
<1>2. UNCHANGED <<out, err, child, stack>>
  BY DEF ChildWrite, childVars
<1>3. files[g].unread + 1 \in Nat
  BY Types, ProcessesAssumption DEF File
<1> DEFINE r == [files[g] EXCEPT !.unread = files[g].unread + 1]
<1>4. files' = [files EXCEPT ![g] = r]
  BY <1>1
<1>5. r.owner = files[g].owner /\ r.writer = files[g].writer
  BY <1>3, Types DEF File
<1> HIDE DEF r
<1>6. ASSUME NEW f \in Fd PROVE files'[f].owner = files[f].owner /\ files'[f].writer = files[f].writer
  BY <1>4, <1>5, Types
<1>7. FieldsOwn(out', err', files') /\ WritersLive(files', child')
  BY <1>2, <1>6, Types DEF Owns, FieldsOwn, WritersLive
<1>8. Built(Depth, <<>>) /\ Len(<<>>) = 0
  BY <1>2, Types, StayBuilt
<1> QED
  BY <1>2, <1>6, <1>7, <1>8, OwnKept

\* Steps that close files.
LEMMA ReadEndOwns == ASSUME ChildInv, Owns, ReadEnd PROVE Owns'
<1> DEFINE p == Top.p
           g == TheFd
<1>1. g \in Fd /\ Top.fds = {g} /\ p \in Proc /\ Top.op = "read" /\ Depth > 0 /\ Depth \in Nat
  BY TheFdFacts, Types DEF ReadEnd
<1>2. /\ files' = [f \in Fd |-> IF f \in {g} THEN Free ELSE files[f]]
      /\ out' = [out EXCEPT ![p] = IF @ = g THEN NoFd ELSE @]
      /\ err' = [err EXCEPT ![p] = IF @ = g THEN NoFd ELSE @]
      /\ UNCHANGED child /\ Goto(<<>>)
  BY DEF ReadEnd, Closed, childVars
<1>3. files[g].owner \in {p, NoProc}
  <2>1. FrameOwns(stack, Depth, out, err, files, child)
    BY <1>1 DEF Owns
  <2> QED
    BY <1>1, <2>1 DEF FrameOwns, Top
<1>4. Built(Depth - 1, <<>>) /\ Len(<<>>) = 0
  BY <1>1, <1>2, PopBuilt
<1> HIDE DEF p, g
<1>5. ASSUME NEW q \in Proc
      PROVE  /\ out'[q] = IF q = p /\ out[q] = g THEN NoFd ELSE out[q]
             /\ err'[q] = IF q = p /\ err[q] = g THEN NoFd ELSE err[q]
  BY <1>1, <1>2, Types
<1>6. g # NoFd /\ NoProc \notin Proc
  BY <1>1, ProcessesAssumption DEF Fd, NoFd
<1>7. FieldsOwn(out', err', files')
  <2> SUFFICES ASSUME NEW q \in Proc, NEW f \in {out'[q], err'[q]} \ {NoFd} PROVE files'[f].owner = q
    BY DEF FieldsOwn
  <2>1. f \in {out[q], err[q]} \ {NoFd} /\ f \in Fd /\ ~(q = p /\ f = g)
    BY <1>5, Types
  <2>2. files[f].owner = q
    BY <2>1, FieldOwned
  <2>3. f # g
    BY <1>3, <1>6, <2>1, <2>2
  <2> QED
    BY <1>2, <2>1, <2>2, <2>3
<1>8. \A f \in Fd : files'[f] \in {files[f], Free}
  BY <1>2
<1>9. WritersLive(files', child') /\ \A f \in Fd : files'[f].owner \in {files[f].owner, NoProc}
  BY <1>2, <1>8, ClosedWriters
<1>10. \A f \in Top.fds : out'[Top.p] # f /\ err'[Top.p] # f
  BY <1>1, <1>5, <1>6 DEF p
<1>11. \A q \in Proc : /\ out'[q] \in {out[q], NoFd} /\ err'[q] \in {err[q], NoFd}
                       /\ child'[q] = child[q]
  BY <1>2, <1>5
<1> QED
  BY <1>4, <1>7, <1>9, <1>10, <1>11, OwnKept

LEMMA ReadWouldBlockOwns == ASSUME ChildInv, Owns, ReadWouldBlock PROVE Owns'
<1>1. Top.fds = {TheFd} /\ files[TheFd].writer /\ Depth > 0
  BY TheFdFacts DEF ReadWouldBlock
<1>2. UNCHANGED <<out, err, files, child>> /\ Built(Depth - 1, <<>>) /\ Len(<<>>) = 0
  BY <1>1, PopBuilt DEF ReadWouldBlock, childVars, fdVars
<1>3. FieldsOwn(out', err', files') /\ WritersLive(files', child')
  BY <1>2 DEF Owns
<1>4. \A f \in Top.fds : files[f].writer
  BY <1>1
<1> QED
  BY <1>2, <1>3, <1>4, OwnKept

\* close_files() in a step that otherwise leaves functions, and ends no child.
LEMMA CloseStep ==
  ASSUME ChildInv, Owns, NEW p \in Proc, CloseFiles(p),
         \/ UNCHANGED stack
         \/ Depth > 0 /\ Top.op # "read" /\ Goto(<<>>),
         \A q \in Proc : /\ child[q] = "none" => child'[q] = "none"
                         /\ child[q] \in {"running", "stopped"} => child'[q] \in {"running", "stopped"}
  PROVE  Owns'
<1>1. /\ FieldsOwn(out', err', files')
      /\ \A f \in Fd : files'[f] \in {files[f], Free}
      /\ \A q \in Proc : out'[q] \in {out[q], NoFd} /\ err'[q] \in {err[q], NoFd}
  BY CloseOwns
<1>2. WritersLive(files', child') /\ \A f \in Fd : files'[f].owner \in {files[f].owner, NoProc}
  BY <1>1, ClosedWriters
<1>3. Len(<<>>) = 0 /\ (Built(Depth, <<>>) \/ (Built(Depth - 1, <<>>) /\ Top.op # "read"))
  BY Types, StayBuilt, PopBuilt
<1> QED
  BY <1>1, <1>2, <1>3, OwnKept

LEMMA CloseSteps == ASSUME ChildInv, Owns, DiedErr \/ SyncEnd \/ \E p \in Proc : CloseProcess(p) PROVE Owns'
<1>1. CASE DiedErr
  <2>1. Depth > 0 /\ Top.op = "diedErr" /\ Top.p \in Proc
    BY <1>1, Types DEF DiedErr, TopIs, Good, FrameOK
  <2> QED
    BY <1>1, <2>1, CloseStep DEF DiedErr, childVars
<1>2. CASE SyncEnd
  <2>1. Depth > 0 /\ Top.op = "sync" /\ Top.p \in Proc
    BY <1>2, Types DEF SyncEnd, TopIs, Good, FrameOK
  <2>2. /\ child[Top.p] \in {"zombie", "none"} /\ child' = [child EXCEPT ![Top.p] = "none"]
        /\ CloseFiles(Top.p) /\ Goto(<<>>)
    BY <1>2 DEF SyncEnd
  <2>3. \A q \in Proc : /\ child[q] = "none" => child'[q] = "none"
                        /\ child[q] \in {"running", "stopped"} => child'[q] \in {"running", "stopped"}
    BY <2>1, <2>2 DEF ChildInv, TypeOK
  <2> QED
    BY <2>1, <2>2, <2>3, CloseStep
<1>3. CASE \E p \in Proc : CloseProcess(p)
  BY <1>3, CloseStep DEF CloseProcess, childVars
<1> QED
  BY <1>1, <1>2, <1>3

\* A signal reaches a child, or it ends.
LEMMA KillOwns ==
  ASSUME ChildInv, Owns, NEW p \in Proc, NEW sig, Kill(p, sig) \/ Unaffected(p, sig), UNCHANGED <<out, err, stack>>
  PROVE  Owns'
<1>1. Built(Depth, <<>>) /\ Len(<<>>) = 0 /\ child \in [Proc -> {"none", "running", "stopped", "zombie"}]
  BY Types, StayBuilt DEF ChildInv, TypeOK
<1>2. CASE ChildEnds(p)
  <2>1. /\ child[p] \in {"running", "stopped"} /\ child' = [child EXCEPT ![p] = "zombie"]
        /\ files' = [f \in Fd |-> IF files[f].owner = p THEN [files[f] EXCEPT !.writer = FALSE] ELSE files[f]]
    BY <1>2 DEF ChildEnds
  <2>2. ASSUME NEW f \in Fd
        PROVE  files'[f].owner = files[f].owner /\ (files'[f].writer => files[f].writer /\ files[f].owner # p)
    BY <2>1, Types DEF File
  <2>3. FieldsOwn(out', err', files')
    BY <2>2, Types DEF Owns, FieldsOwn
  <2>4. WritersLive(files', child')
    BY <1>1, <2>1, <2>2 DEF Owns, WritersLive
  <2>5. \A q \in Proc : child[q] = "none" => child'[q] = "none"
    BY <1>1, <2>1
  <2> QED
    BY <1>1, <2>2, <2>3, <2>4, <2>5, OwnKept
<1>3. CASE UNCHANGED files /\ \E x, y \in {"running", "stopped"} : child[p] = x /\ child' = [child EXCEPT ![p] = y]
  <2>1. \A q \in Proc : /\ child[q] = "none" => child'[q] = "none"
                        /\ child[q] \in {"running", "stopped"} => child'[q] \in {"running", "stopped"}
    BY <1>1, <1>3
  <2>2. FieldsOwn(out', err', files') /\ WritersLive(files', child')
    BY <1>3, <2>1 DEF Owns, WritersLive
  <2>3. /\ \A q \in Proc : out'[q] = out[q] /\ err'[q] = err[q]
        /\ \A f \in Fd : files'[f].owner = files[f].owner
    BY <1>3
  <2> QED
    BY <1>1, <2>1, <2>2, <2>3, OwnKept
<1>4. CASE UNCHANGED <<child, files>>
  BY <1>4, StayOwns
<1> QED
  BY <1>2, <1>3, <1>4 DEF Kill, Unaffected, childVars

LEMMA SignalOwns ==
  ASSUME ChildInv, Owns, NEW p \in Proc,
         \/ ChildExit(p) \/ ContinueProcess(p) \/ \E sig \in Signals : SignalProcess(p, sig)
  PROVE  Owns'
<1>1. CASE ChildExit(p)
  <2>1. Kill(p, "kill")
    BY <1>1 DEF ChildExit, Kill
  <2> QED
    BY <1>1, <2>1, KillOwns DEF ChildExit
<1> QED
  BY <1>1, KillOwns DEF ContinueProcess, SignalProcess, DoSignalCommand

\* Processes are made and started when no input handler is active.
LEMMA StartsAlone ==
  ASSUME ChildInv, NoReuse, LispRuns("start") \/ LispRuns("call") PROVE Depth = 0
  BY DEF NoReuse, LispRuns, Depth

LEMMA RunOwns ==
  ASSUME ChildInv, Owns, NEW p \in Proc, NEW pty \in BOOLEAN, RunProcess(p, pty), Depth = 0,
         NEW fr, Built(Depth, fr), \A j \in 1 .. Len(fr) : fr[j].op \notin {"read", "diedOut", "diedErr"}
  PROVE  Owns'
<1> DEFINE o == NewOut
           e == NewErr(pty)
<1>1. /\ o \in Fd /\ e \in Fd /\ files[o].owner = NoProc /\ files[e].owner = NoProc
      /\ out' = [out EXCEPT ![p] = o] /\ err' = [err EXCEPT ![p] = e]
      /\ files' = [f \in Fd |-> IF f \in {o, e} THEN [owner |-> p, unread |-> 0, writer |-> TRUE] ELSE files[f]]
  BY RunFacts
<1>2. child' = [child EXCEPT ![p] = "running"] /\ child \in [Proc -> {"none", "running", "stopped", "zombie"}]
  BY DEF RunProcess, ChildInv, TypeOK
<1> HIDE DEF o, e
<1>3. ASSUME NEW f \in Fd
      PROVE  /\ f \in {o, e} => files'[f].owner = p
             /\ f \notin {o, e} => files'[f] = files[f]
  BY <1>1
<1>4. FieldsOwn(out', err', files')
  <2> SUFFICES ASSUME NEW q \in Proc, NEW f \in {out'[q], err'[q]} \ {NoFd} PROVE files'[f].owner = q
    BY DEF FieldsOwn
  <2>1. CASE q = p
    BY <1>1, <1>3, <2>1, Types
  <2>2. CASE q # p
    <3>1. f \in {out[q], err[q]} \ {NoFd} /\ f \in Fd
      BY <1>1, <2>2, Types
    <3>2. files[f].owner = q
      BY <3>1, FieldOwned
    <3>3. f \notin {o, e}
      BY <1>1, <3>2, ProcessesAssumption
    <3> QED
      BY <1>3, <3>1, <3>2, <3>3
  <2> QED
    BY <2>1, <2>2
<1>5. WritersLive(files', child')
  <2> SUFFICES ASSUME NEW f \in Fd, files'[f].writer
               PROVE  files'[f].owner \in Proc /\ child'[files'[f].owner] \in {"running", "stopped"}
    BY DEF WritersLive
  <2>1. CASE f \in {o, e}
    BY <1>2, <1>3, <2>1
  <2>2. CASE f \notin {o, e}
    BY <1>2, <1>3, <2>2 DEF Owns, WritersLive
  <2> QED
    BY <2>1, <2>2
<1>6. \A j \in 1 .. Len(fr) : FrameOwns(stack', Depth + j, out', err', files', child')
  BY PlainFrames
<1> QED
  BY <1>4, <1>5, <1>6, OwnKept

LEMMA StartOwns ==
  ASSUME ChildInv, Owns, NoReuse, NEW p \in Proc,
         MakeProcess(p) \/ StartProcess(p) \/ StartFails(p) \/ CallProcess(p)
  PROVE  Owns'
<1>1. Depth = 0
  BY StartsAlone DEF MakeProcess, StartProcess, StartFails, CallProcess
<1>2. stack' = stack => Built(Depth, <<>>) /\ \A j \in 1 .. Len(<<>>) : <<>>[j].op \notin {"read", "diedOut", "diedErr"}
  BY Types, StayBuilt
<1>3. CASE MakeProcess(p) \/ StartFails(p)
  <2>1. UNCHANGED <<stack, files, child>>
    BY <1>3 DEF MakeProcess, StartFails, childVars
  <2>2. \A q \in Proc : out'[q] \in {out[q], NoFd} /\ err'[q] \in {err[q], NoFd}
    BY <1>3, Types DEF MakeProcess, StartFails, NoReuse
  <2>3. FieldsOwn(out', err', files') /\ WritersLive(files', child')
    BY <2>1, <2>2 DEF Owns, FieldsOwn
  <2> QED
    BY <1>1, <1>2, <2>1, <2>2, <2>3, OwnKept
<1>4. CASE StartProcess(p)
  BY <1>1, <1>2, <1>4, RunOwns DEF StartProcess
<1>5. CASE CallProcess(p)
  <2> DEFINE x == [op |-> "sync", p |-> p, fds |-> {NewOut, NewErr(FALSE)}]
  <2>1. x.op = "sync" /\ Built(Depth, <<x>>)
    BY <1>5, CallProcessBuilt
  <2> HIDE DEF x
  <2>2. \A j \in 1 .. Len(<<x>>) : <<x>>[j].op \notin {"read", "diedOut", "diedErr"}
    BY <2>1, OneFrame
  <2> DEFINE fr == <<x>>
  <2>3. Built(Depth, fr) /\ \A j \in 1 .. Len(fr) : fr[j].op \notin {"read", "diedOut", "diedErr"}
    BY <2>1, <2>2
  <2> HIDE DEF fr
  <2> QED
    BY <1>1, <1>5, <2>3, RunOwns DEF CallProcess
<1> QED
  BY <1>3, <1>4, <1>5

\* Nothing happens once the interpreter has ended.
LEMMA ExitedStays == ASSUME ChildInv, Exited, [Next]_vars PROVE UNCHANGED vars
<1>1. /\ Depth = 1 /\ Top.op = "exited" /\ stack # <<>> /\ ~\E op : LispRuns(op)
      /\ \A op \in FrameOps \ {"exited"} : ~TopIs(op)
  BY DEF Exited, LispRuns, TopIs, Top, Depth
<1>2. \A p \in Proc : child[p] = "none"
  BY DEF ChildInv, Exited
<1>3. ~EventLoop
  BY <1>1 DEF EventLoop, EventLoopCallback, EventLoopInput, HandleException
<1>4. ~CCode
  BY <1>1 DEF CCode, Dispatch, DispatchDone, ReapStopped, ReapDead, ReapDone, DiedOut, DiedErr, ReadBlock,
     ReadWouldBlock, ReadEnd, SyncRead, SyncEof, SyncEnd, SyncSelect, AcceptReturn, Wait1, Reap1, Notify1,
     CallbackReturn, FrameOps
<1>5. ~LispCode
  BY <1>1 DEF LispCode, MakeProcess, StartProcess, StartFails, CallProcess, CloseProcess, ContinueProcess,
     SignalProcess, AcceptProcessOutput1, DropReference, SetConnectionType, AcceptProcessOutput, Throw,
     GarbageCollect, ProcessesKill
<1>6. ~Child
  BY <1>2 DEF Child, ChildWrite, ChildExit, ChildEnds
<1> QED
  BY <1>3, <1>4, <1>5, <1>6 DEF Next, Stuck, Finished

LEMMA KillExits == ASSUME ChildInv, ProcessesKill PROVE Exited'
<1>1. stack = <<>> /\ stack' = stack \o <<F("exited")>> /\ allocated' = allocated \ allocated
  BY DEF ProcessesKill, Push, DeleteProcesses
<1>2. stack' = <<F("exited")>>
  BY <1>1
<1>3. Len(stack') = 1 /\ stack'[1].op = "exited"
  BY <1>2 DEF F
<1> QED
  BY <1>1, <1>3 DEF Exited, Depth

LEMMA OwnInvNext == ASSUME NoReuse PROVE OwnInv /\ [Next]_vars => OwnInv'
<1> SUFFICES ASSUME OwnInv, [Next]_vars PROVE OwnInv'
  OBVIOUS
<1>1. ChildInv /\ ChildInv'
  BY ChildInvNext DEF OwnInv
<1>2. CASE Exited
  <2>1. Exited'
    BY <1>1, <1>2, ExitedStays DEF Exited, vars, objVars, Depth
  <2> QED
    BY <1>1, <2>1 DEF OwnInv
<1>3. CASE Owns /\ ProcessesKill
  BY <1>1, <1>3, KillExits DEF OwnInv
<1>4. CASE Owns /\ ~ProcessesKill
  <2>1. ASSUME EventLoop \/ Stuck \/ Finished \/ UNCHANGED vars PROVE Owns'
    BY <1>1, <1>4, <2>1, PlainSteps, InputSteps DEF EventLoop
  <2>2. ASSUME CCode PROVE Owns'
    BY <1>1, <1>4, <2>2, PlainSteps, ReapDeadOwns, DiedOutOwns, CloseSteps, BlockSteps, ReadWouldBlockOwns,
       ReadEndOwns, SyncEofOwns, Wait1Owns DEF CCode
  <2>3. ASSUME LispCode PROVE Owns'
    BY <1>1, <1>4, <2>3, StartOwns, CloseSteps, SignalOwns, PlainSteps, InputSteps, CollectOwns DEF LispCode
  <2>4. ASSUME Child PROVE Owns'
    BY <1>1, <1>4, <2>4, ChildWriteOwns, SignalOwns DEF Child
  <2>5. Owns'
    BY <2>1, <2>2, <2>3, <2>4 DEF Next
  <2> QED
    BY <1>1, <2>5 DEF OwnInv
<1> QED
  BY <1>2, <1>3, <1>4 DEF OwnInv

LEMMA OwnInvInit == Init => OwnInv
<1> SUFFICES ASSUME Init PROVE OwnInv
  OBVIOUS
<1>1. FieldsOwn(out, err, files) /\ WritersLive(files, child)
  BY DEF Init, FieldsOwn, WritersLive, Free
<1>2. Depth = 0
  BY DEF Init, Depth
<1> QED
  BY <1>1, <1>2, ChildInvInit DEF OwnInv, Owns

\* If the fields of a new process object are clear, and the Lisp functions that
\* processes.c calls start no process, then every descriptor a process names
\* is open and its own, and the one an input handler holds on to is its own or
\* closed: whatever else those functions do, close-process and the collector
\* included, no output reaches another process' stream.
THEOREM DescriptorsStayOwned == ASSUME NoReuse PROVE Spec => []DescriptorsOwned
<1>1. OwnInv /\ [Next]_vars => OwnInv'
  BY OwnInvNext
<1> QED
  BY <1>1, OwnInvInit, OwnInvSuffices, PTL DEF Spec

\* Under the same conditions both streams of a child that has died have been
\* read to their ends when handle_process_events() closes them.
THEOREM DrainedFirst == ASSUME NoReuse PROVE Spec => []DrainedAtDeath
<1>1. OwnInv /\ [Next]_vars => OwnInv'
  BY OwnInvNext
<1> QED
  BY <1>1, OwnInvInit, OwnInvSuffices, PTL DEF Spec

----------------------------------------------------------------------------
(* Notifications.  The collector cuts the list, and notify_process() with a *)
(* throw pending takes a process off the list and does not call its notify  *)
(* function: both are excluded here.                                        *)

KeepsList == "gc" \notin LispOps /\ ~({"accept1", "throw"} \subseteq LispOps)

\* notify_process() takes the process off the list and no other.
LEMMA UnlinkKeeps ==
  ASSUME ListTyped, Linked, NEW p \in InList, Unlink(p)
  PROVE  /\ ListTyped'
         /\ InList \subseteq InList' \cup {p}
         /\ Linked'
         /\ \A x \in Proc : notifyNext[x] = NoProc => notifyNext'[x] = NoProc
<1> DEFINE T == {i \in 0 .. Size : Walk[i] = p}
           k == Min(T)
           q == Walk[k - 1]
<1>1. Follows(Walk, notifyList, notifyNext) /\ InList = Members(Walk) /\ p \in Proc /\ p # NoProc
  BY ListWalk, ListFacts, ProcessesAssumption DEF ListIs
<1>2. T # {} /\ T \subseteq Nat
  BY <1>1, SizeType DEF Members
<1>3. k \in T /\ \A i \in T : k <= i
  <2> HIDE DEF T
  <2> QED
    BY <1>2, Least
<1>4. /\ k = 0 => /\ notifyList' = notifyNext[p] /\ notifyNext' = [notifyNext EXCEPT ![p] = NoProc]
      /\ k # 0 => /\ notifyNext' = [notifyNext EXCEPT ![p] = NoProc, ![q] = notifyNext[p]]
                  /\ notifyList' = notifyList
  BY DEF Unlink
<1> HIDE DEF k
<1>5. k \in 0 .. Size /\ Walk[k] = p /\ \A i \in 0 .. Size : i < k => Walk[i] # p
  BY <1>3, SizeType
<1>6. CASE k = 0
  <2>1. notifyList = p
    BY <1>1, <1>5, <1>6 DEF Follows
  <2>2. /\ ListTyped' /\ InList \subseteq InList' \cup {p} /\ Linked'
    BY <1>1, <1>4, <1>6, <2>1, DispatchKeeps
  <2>3. \A x \in Proc : notifyNext[x] = NoProc => notifyNext'[x] = NoProc
    BY <1>4, <1>6 DEF ListTyped
  <2> QED
    BY <2>2, <2>3
<1>7. CASE k # 0
  <2>1. k \in 1 .. Size /\ k - 1 \in 0 .. Size /\ k - 1 < k
    BY <1>5, <1>7, SizeType
  <2>2. Walk[k] = IF q = NoProc THEN NoProc ELSE notifyNext[q]
    BY <1>1, <2>1 DEF Follows
  <2>3. q \in Proc /\ q # p /\ notifyNext[q] = p
    <3>1. q \in Link
      BY <1>1, <2>1 DEF Follows
    <3> QED
      BY <1>1, <1>5, <2>1, <2>2, <3>1 DEF Link
  <2> HIDE DEF q
  <2>4. /\ notifyList' = notifyList /\ notifyNext'[p] = NoProc /\ notifyNext'[q] = notifyNext[p]
        /\ \A x \in Proc \ {p, q} : notifyNext'[x] = notifyNext[x]
    BY <1>1, <1>4, <1>7, <2>3 DEF ListTyped
  <2>5. ListTyped'
    BY <1>1, <1>4, <1>7, <2>3 DEF ListTyped, Link
  <2> DEFINE S == {i \in Nat : Has(InList', Walk[i])}
             b == k - 1
  <2>6. 0 \in S
    BY <1>1, <2>4, <2>5, ListFactsNext DEF ListIs, Follows
  <2>7. ASSUME NEW i \in 0 .. b, i \in S, i < b PROVE i + 1 \in S
    <3>1. /\ i \in 0 .. Size /\ i + 1 \in 1 .. Size /\ i + 1 \in 0 .. Size /\ i + 1 < k /\ i < k
          /\ (i + 1) - 1 = i /\ i + 1 \in Nat
      BY <1>5, <2>1, <2>7, SizeType
    <3>2. Walk[i + 1] = IF Walk[i] = NoProc THEN NoProc ELSE notifyNext[Walk[i]]
      BY <1>1, <3>1 DEF Follows
    <3>3. Walk[i] # p /\ Walk[i + 1] # p /\ Has(InList', Walk[i])
      BY <1>5, <2>7, <3>1
    <3>4. CASE Walk[i] = NoProc
      BY <3>1, <3>2, <3>4 DEF Has
    <3>5. CASE Walk[i] # NoProc
      <4>1. Walk[i] \in InList' /\ Walk[i] \in Proc /\ Walk[i] # q
        BY <2>3, <2>5, <3>2, <3>3, <3>5, ListFactsNext DEF Has, ListIs
      <4>2. Walk[i + 1] = notifyNext'[Walk[i]]
        BY <2>4, <3>2, <3>3, <3>5, <4>1
      <4> QED
        BY <2>5, <3>1, <4>1, <4>2, ListFactsNext DEF ListIs
    <3> QED
      BY <3>4, <3>5
  <2> HIDE DEF S
  <2>8. b \in Nat /\ b \in 0 .. b
    BY <2>1
  <2>9. 0 .. b \subseteq S
    BY <2>6, <2>7, <2>8, Climb
  <2>10. q \in InList'
    <3>1. Has(InList', Walk[b])
      BY <2>8, <2>9 DEF S
    <3> QED
      BY <2>3, <3>1, ProcessesAssumption DEF Has, q
  <2>11. Has(InList' \cup {p}, notifyList)
    BY <2>4, <2>5, ListFactsNext DEF Has, ListIs
  <2>12. \A x \in (InList' \cup {p}) \cap Proc : Has(InList' \cup {p}, notifyNext[x])
    BY <2>3, <2>4, <2>5, <2>10, ListFactsNext DEF Has, ListIs
  <2>13. InList \subseteq InList' \cup {p}
    BY <2>11, <2>12, ListFacts DEF ListIs
  <2>14. Linked'
    BY <1>1, <2>3, <2>4, <2>10, <2>13 DEF Linked, Queued
  <2>15. \A x \in Proc : notifyNext[x] = NoProc => notifyNext'[x] = NoProc
    BY <1>1, <2>3, <2>4
  <2> QED
    BY <2>5, <2>13, <2>14, <2>15
<1> QED
  BY <1>6, <1>7

FrameWaits(x, al) ==
  /\ x.op \in {"diedOut", "diedErr", "sync"} => x.p \in al
  /\ x.op \in {"wait1", "reap1", "notify1"} => "accept1" \in LispOps

\* A process object that was never made is on no list.
Unmade(al, st, next) == \A p \in Proc \ al : next[p] = NoProc /\ st[p] = "dead"

Waiting ==
  /\ Linked
  /\ thrown => "throw" \in LispOps
  /\ Unmade(allocated, status, notifyNext)
  /\ \A k \in 1 .. Depth : FrameWaits(stack[k], allocated)

NotifyInv == ChildInv /\ (Exited \/ Waiting)

Kept == \A p \in Proc : Owed(p) \/ ChangesState(p) => Owed(p)' \/ Notified(p)

Died(st, p) == \E k \in 1 .. Len(st) : st[k].op \in {"diedOut", "diedErr"} /\ st[k].p = p

\* What a step has to show that notifies, or comes to owe a notification to,
\* the processes of S and leaves the others alone.
LEMMA WaitKept ==
  ASSUME ChildInv, Waiting, NEW base, NEW fr, Built(base, fr),
         allocated \subseteq allocated', Linked', thrown' => "throw" \in LispOps,
         Unmade(allocated', status', notifyNext'),
         \A j \in 1 .. Len(fr) : FrameWaits(fr[j], allocated'),
         NEW S,
         \A p \in Proc \ S : /\ p \in InList => p \in InList'
                             /\ status'[p] = status[p] \/ status[p] = "dead",
         \/ base = Depth
         \/ base = Depth - 1 /\ (Top.op \notin {"diedOut", "diedErr"} \/ Top.p \in S),
         \A p \in S : p \in InList' \/ Died(stack', p) \/ Notified(p)
  PROVE  Waiting' /\ Kept
<1>1. /\ Depth \in Nat /\ Depth = Len(stack) /\ Len(fr) \in Nat /\ base \in 0 .. Depth
      /\ Len(stack') = base + Len(fr)
      /\ \A i \in 1 .. base : stack'[i] = stack[i]
      /\ \A j \in 1 .. Len(fr) : stack'[base + j] = fr[j]
  BY Types DEF Built, Depth
<1>2. ASSUME NEW k \in 1 .. Len(stack') PROVE FrameWaits(stack'[k], allocated')
  <2>1. CASE k <= base
    <3>1. k \in 1 .. Depth /\ stack'[k] = stack[k]
      BY <1>1, <2>1
    <3>2. FrameWaits(stack[k], allocated)
      BY <3>1 DEF Waiting
    <3> QED
      BY <3>1, <3>2 DEF FrameWaits
  <2>2. CASE k > base
    <3>1. k - base \in 1 .. Len(fr) /\ base + (k - base) = k
      BY <1>1, <2>2
    <3> QED
      BY <1>1, <3>1
  <2> QED
    BY <1>1, <2>1, <2>2
<1>3. Waiting'
  BY <1>2 DEF Waiting, Depth
<1>4. ASSUME NEW p \in Proc \ S, Died(stack, p) PROVE Died(stack', p)
  <2>1. PICK k \in 1 .. Len(stack) : stack[k].op \in {"diedOut", "diedErr"} /\ stack[k].p = p
    BY <1>4 DEF Died
  <2>2. k \in 1 .. base
    <3>1. CASE k = Depth /\ base = Depth - 1
      BY <2>1, <3>1 DEF Top
    <3> QED
      BY <1>1, <2>1, <3>1
  <2>3. k \in 1 .. Len(stack') /\ stack'[k] = stack[k]
    BY <1>1, <2>2
  <2> QED
    BY <2>1, <2>3 DEF Died
<1>5. /\ \A p \in Proc : Owed(p) <=> p \in InList \/ Died(stack, p)
      /\ \A p \in Proc : Owed(p)' <=> p \in InList' \/ Died(stack', p)
  BY DEF Owed, Died, Depth
<1>6. ASSUME NEW p \in Proc, Owed(p) \/ ChangesState(p) PROVE Owed(p)' \/ Notified(p)
  <2>1. CASE p \in S
    BY <1>5, <2>1
  <2>2. CASE p \notin S
    <3>1. ~ChangesState(p)
      BY <2>2 DEF ChangesState
    <3> QED
      BY <1>4, <1>5, <1>6, <2>2, <3>1
  <2> QED
    BY <2>1, <2>2
<1> QED
  BY <1>3, <1>6 DEF Kept

\* Steps that leave the list and the processes alone.
LEMMA SteadyStep ==
  ASSUME ChildInv, Waiting, NEW base, NEW fr, Built(base, fr),
         UNCHANGED <<allocated, notifyNext, notifyList>>, thrown' => thrown \/ "throw" \in LispOps,
         \A p \in Proc : status'[p] = status[p] \/ (status[p] = "dead" /\ p \in allocated),
         \A j \in 1 .. Len(fr) : FrameWaits(fr[j], allocated),
         base = Depth \/ (base = Depth - 1 /\ Top.op \notin {"diedOut", "diedErr"})
  PROVE  Waiting' /\ Kept
<1>1. InList' = InList /\ (Linked' <=> Linked)
  BY DEF InList, Walk, Linked, Queued
<1>2. /\ allocated \subseteq allocated' /\ Linked' /\ (thrown' => "throw" \in LispOps)
      /\ Unmade(allocated', status', notifyNext')
      /\ \A j \in 1 .. Len(fr) : FrameWaits(fr[j], allocated')
  BY <1>1 DEF Waiting, Unmade
<1> DEFINE S == {}
<1>3. \A p \in Proc \ S : /\ p \in InList => p \in InList'
                          /\ status'[p] = status[p] \/ status[p] = "dead"
  BY <1>1
<1>4. \A p \in S : p \in InList' \/ Died(stack', p) \/ Notified(p)
  OBVIOUS
<1> HIDE DEF S
<1> QED
  BY <1>2, <1>3, <1>4, WaitKept

LEMMA SteadyStay ==
  ASSUME ChildInv, Waiting, UNCHANGED <<allocated, notifyNext, notifyList, stack>>,
         thrown' => thrown \/ "throw" \in LispOps,
         \A p \in Proc : status'[p] = status[p] \/ (status[p] = "dead" /\ p \in allocated)
  PROVE  Waiting' /\ Kept
<1>1. Built(Depth, <<>>) /\ Len(<<>>) = 0
  BY Types, StayBuilt
<1> QED
  BY <1>1, SteadyStep

LEMMA SteadyPop ==
  ASSUME ChildInv, Waiting, UNCHANGED <<allocated, status, notifyNext, notifyList, thrown>>,
         Depth > 0, Goto(<<>>), Top.op \notin {"diedOut", "diedErr"}
  PROVE  Waiting' /\ Kept
<1>1. Built(Depth - 1, <<>>) /\ Len(<<>>) = 0
  BY PopBuilt
<1> QED
  BY <1>1, SteadyStep

LEMMA SteadyCall ==
  ASSUME ChildInv, Waiting, UNCHANGED <<allocated, status, notifyNext, notifyList, thrown>>,
         NEW fr \in Seq(Good), \A j \in 1 .. Len(fr) : FrameWaits(fr[j], allocated),
         Push(fr) \/ (Depth > 0 /\ Goto(fr) /\ Top.op \notin {"diedOut", "diedErr"})
  PROVE  Waiting' /\ Kept
<1>1. Built(Depth, fr) \/ (Built(Depth - 1, fr) /\ Top.op \notin {"diedOut", "diedErr"})
  BY Types, PushBuilt, GotoBuilt
<1> QED
  BY <1>1, SteadyStep

LEMMA CallFrames ==
  ASSUME NEW x \in Good, NEW al, FrameWaits(x, al), NEW fr, fr = <<x>> \/ fr = <<x>> \o HandleProcessEvents
  PROVE  fr \in Seq(Good) /\ \A j \in 1 .. Len(fr) : FrameWaits(fr[j], al)
<1>1. F("reap") \in Good /\ FrameWaits(F("reap"), al)
  BY GoodFrames, FrameOpsAre DEF FrameOps, FrameWaits
<1>2. fr = <<x>> \/ fr = <<x>> \o <<F("reap")>>
  BY FrameLists DEF HandleProcessEvents
<1>3. (\A j \in 1 .. 1 : j = 1) /\ (\A j \in 1 .. 2 : j = 1 \/ j = 2)
  OBVIOUS
<1>4. CASE fr = <<x>>
  <2>1. <<x>> \in Seq(Good) /\ Len(<<x>>) = 1 /\ <<x>>[1] = x
    BY FrameLists
  <2>2. fr \in Seq(Good) /\ Len(fr) = 1 /\ fr[1] = x
    BY <1>4, <2>1, Zenon
  <2> QED
    BY <1>3, <2>2
<1>5. CASE fr = <<x>> \o <<F("reap")>>
  <2>1. LET s == <<x>> \o <<F("reap")>> IN s \in Seq(Good) /\ Len(s) = 2 /\ s[1] = x /\ s[2] = F("reap")
    BY <1>1, FrameLists
  <2>2. fr \in Seq(Good) /\ Len(fr) = 2 /\ fr[1] = x /\ fr[2] = F("reap")
    BY <1>5, <2>1
  <2> QED
    BY <1>1, <1>3, <2>2
<1> QED
  BY <1>2, <1>4, <1>5

LEMMA SteadyFrame ==
  ASSUME ChildInv, Waiting, UNCHANGED <<allocated, status, notifyNext, notifyList, thrown>>,
         NEW x \in Good, FrameWaits(x, allocated),
         \/ Push(<<x>>) \/ Push(<<x>> \o HandleProcessEvents)
         \/ /\ Depth > 0 /\ Top.op \notin {"diedOut", "diedErr"}
            /\ Goto(<<x>>) \/ Goto(<<x>> \o HandleProcessEvents)
  PROVE  Waiting' /\ Kept
<1> DEFINE one == <<x>>
           ev == <<x>> \o HandleProcessEvents
<1>1. /\ one \in Seq(Good) /\ (\A j \in 1 .. Len(one) : FrameWaits(one[j], allocated))
      /\ ev \in Seq(Good) /\ (\A j \in 1 .. Len(ev) : FrameWaits(ev[j], allocated))
  BY CallFrames
<1>2. Push(one) \/ Push(ev) \/ (Depth > 0 /\ Top.op \notin {"diedOut", "diedErr"} /\ (Goto(one) \/ Goto(ev)))
  OBVIOUS
<1> HIDE DEF one, ev
<1> QED
  BY <1>1, <1>2, SteadyCall

\* Frames that may always be there.
LEMMA FreeFrames ==
  /\ \A op \in FrameOps \ {"diedOut", "diedErr", "sync", "wait1", "reap1", "notify1"} :
       \A p, al : FrameWaits(F(op), al) /\ FrameWaits(FP(op, p), al)
  /\ \A p, f, al : FrameWaits(Reading(p, f), al)
  /\ "accept1" \in LispOps => \A op \in {"wait1", "reap1", "notify1"} : \A p, al : FrameWaits(FP(op, p), al)
  BY FrameOpsAre DEF FrameWaits

LEMMA TopWaits ==
  ASSUME ChildInv, Waiting, Depth > 0 PROVE FrameWaits(Top, allocated)
<1>1. Depth \in 1 .. Depth
  BY Types
<1> QED
  BY <1>1 DEF Waiting, Top

LEMMA SteadySteps ==
  ASSUME ChildInv, Waiting,
         \/ DispatchDone \/ ReapDone \/ AcceptReturn \/ Reap1 \/ CallbackReturn \/ EventLoopCallback
         \/ HandleException \/ Throw \/ Stuck \/ Finished \/ UNCHANGED vars
         \/ ReadWouldBlock \/ ReadEnd \/ ReadBlock \/ SyncRead \/ SyncEof
  PROVE  Waiting' /\ Kept
<1>1. CASE HandleException \/ Throw \/ Stuck \/ Finished \/ UNCHANGED vars
  <2>1. /\ UNCHANGED <<allocated, status, notifyNext, notifyList, stack>>
        /\ thrown' => thrown \/ "throw" \in LispOps
    BY <1>1, ProcessesAssumption
       DEF HandleException, Throw, LispRuns, Stuck, Finished, vars, objVars, notifyVars
  <2> QED
    BY <2>1, SteadyStay
<1>2. CASE DispatchDone \/ ReapDone \/ CallbackReturn \/ ReadWouldBlock \/ ReadEnd
  BY <1>2, SteadyPop DEF DispatchDone, ReapDone, CallbackReturn, ReadWouldBlock, ReadEnd, TopIs, objVars, notifyVars
<1>3. F("dispatch") \in Good /\ FrameWaits(F("dispatch"), allocated)
  BY GoodFrames, FreeFrames DEF FrameOps
<1>4. CASE EventLoopCallback
  BY <1>3, <1>4, SteadyFrame DEF EventLoopCallback, objVars, notifyVars
<1>5. CASE AcceptReturn
  <2>1. /\ Depth > 0 /\ Top.op = "accept" /\ (Goto(<<>>) \/ Goto(<<F("dispatch")>> \o HandleProcessEvents))
        /\ UNCHANGED <<allocated, status, notifyNext, notifyList, thrown>>
    BY <1>5 DEF AcceptReturn, TopIs, objVars, notifyVars
  <2> QED
    BY <1>3, <2>1, SteadyFrame, SteadyPop
<1>6. CASE Reap1
  <2>1. /\ Depth > 0 /\ Top.op = "reap1" /\ Top.p \in Proc /\ Goto(<<FP("notify1", Top.p)>> \o HandleProcessEvents)
        /\ UNCHANGED <<allocated, status, notifyNext, notifyList, thrown>>
    BY <1>6, Types DEF Reap1, TopIs, Good, FrameOK, objVars, notifyVars
  <2>2. "accept1" \in LispOps
    BY <2>1, TopWaits DEF FrameWaits
  <2>3. FP("notify1", Top.p) \in Good /\ FrameWaits(FP("notify1", Top.p), allocated)
    BY <2>1, <2>2, GoodFrames, FreeFrames DEF FrameOps
  <2> QED
    BY <2>1, <2>3, SteadyFrame
<1>7. CASE ReadBlock \/ SyncRead
  <2>1. /\ Depth > 0 /\ Top.p \in Proc /\ (Push(<<FP("lisp", Top.p)>>) \/ UNCHANGED stack)
        /\ UNCHANGED <<allocated, status, notifyNext, notifyList, thrown>>
    BY <1>7, Types DEF ReadBlock, SyncRead, SyncSelect, TopIs, Good, FrameOK, objVars, notifyVars
  <2>2. FP("lisp", Top.p) \in Good /\ FrameWaits(FP("lisp", Top.p), allocated)
    BY <2>1, GoodFrames, FreeFrames DEF FrameOps
  <2> QED
    BY <2>1, <2>2, SteadyFrame, SteadyStay
<1>8. CASE SyncEof
  <2>1. UNCHANGED <<allocated, status, notifyNext, notifyList, thrown>>
    BY <1>8 DEF SyncEof, objVars, notifyVars
  <2>2. PICK f \in Fd : SyncSelect(f) /\ Goto(<<[Top EXCEPT !.fds = @ \ {f}]>>)
    BY <1>8 DEF SyncEof
  <2> DEFINE x == [Top EXCEPT !.fds = @ \ {f}]
  <2>3. Depth > 0 /\ Top \in Good /\ Top.op = "sync"
    BY <2>2, Types DEF SyncSelect, TopIs
  <2>4. x \in Good /\ x.op = "sync" /\ x.p = Top.p /\ Goto(<<x>>)
    BY <2>2, <2>3 DEF Good, FrameOK, Frame
  <2> HIDE DEF x
  <2>5. FrameWaits(x, allocated)
    BY <2>3, <2>4, TopWaits DEF FrameWaits
  <2> QED
    BY <2>1, <2>3, <2>4, <2>5, SteadyFrame
<1> QED
  BY <1>1, <1>2, <1>4, <1>5, <1>6, <1>7, <1>8

LEMMA InputWaits ==
  ASSUME ChildInv, Waiting, UNCHANGED <<allocated, status, notifyNext, notifyList, thrown>>,
         NEW p \in Proc, NEW fr \in {<<>>, <<F("accept")>>}, ReadFromFd(p, fr)
  PROVE  Waiting' /\ Kept
<1>1. PICK f \in {out[p], err[p]} \ {NoFd} :
        fr \o <<Reading(p, f)>> \in Seq(Good) /\ Built(Depth, fr \o <<Reading(p, f)>>)
  BY ReadFromFdBuilt
<1> DEFINE s == fr \o <<Reading(p, f)>>
<1>2. FrameWaits(Reading(p, f), allocated) /\ FrameWaits(F("accept"), allocated)
  BY FreeFrames DEF FrameOps
<1>3. \A j \in 1 .. Len(s) : s[j] \in {Reading(p, f), F("accept")}
  <2>1. CASE fr = <<>>
    BY <2>1
  <2>2. CASE fr = <<F("accept")>>
    BY <2>2
  <2> QED
    BY <2>1, <2>2
<1>4. Built(Depth, s)
  BY <1>1
<1> HIDE DEF s
<1>5. \A j \in 1 .. Len(s) : FrameWaits(s[j], allocated)
  BY <1>2, <1>3
<1> QED
  BY <1>4, <1>5, SteadyStep

LEMMA InputWaitSteps == ASSUME ChildInv, Waiting, EventLoopInput \/ AcceptProcessOutput PROVE Waiting' /\ Kept
<1>1. UNCHANGED <<allocated, status, notifyNext, notifyList, thrown>>
  BY DEF EventLoopInput, AcceptProcessOutput, objVars, notifyVars
<1>2. CASE \E p \in Proc : ReadFromFd(p, <<>>) \/ ReadFromFd(p, <<F("accept")>>)
  BY <1>1, <1>2, InputWaits
<1>3. CASE Push(<<F("dispatch")>> \o HandleProcessEvents)
  <2>1. F("dispatch") \in Good /\ FrameWaits(F("dispatch"), allocated)
    BY GoodFrames, FreeFrames DEF FrameOps
  <2> QED
    BY <1>1, <1>3, <2>1, SteadyFrame
<1> QED
  BY <1>2, <1>3 DEF EventLoopInput, AcceptProcessOutput, Enter

LEMMA Wait1Waits == ASSUME ChildInv, Waiting, Wait1 PROVE Waiting' /\ Kept
<1> DEFINE p == Top.p
<1>1. /\ Depth > 0 /\ Top.op = "wait1" /\ p \in Proc
      /\ UNCHANGED <<allocated, status, notifyNext, notifyList, thrown>>
  BY Types DEF Wait1, TopIs, Good, FrameOK, objVars, notifyVars
<1>2. "accept1" \in LispOps
  BY <1>1, TopWaits DEF FrameWaits
<1>3. /\ FP("reap1", p) \in Good /\ FrameWaits(FP("reap1", p), allocated)
      /\ F("accept") \in Good /\ FrameWaits(F("accept"), allocated)
  BY <1>1, <1>2, GoodFrames, FreeFrames DEF FrameOps
<1>4. CASE Goto(<<FP("reap1", p)>>)
  BY <1>1, <1>3, <1>4, SteadyFrame
<1>5. CASE \E f \in {out[p], err[p]} \ {NoFd} : Goto(<<FP("reap1", p), F("accept"), Reading(p, f)>>)
  <2>1. PICK f \in {out[p], err[p]} \ {NoFd} : Goto(<<FP("reap1", p), F("accept"), Reading(p, f)>>)
    BY <1>5
  <2>2. Reading(p, f) \in Good /\ FrameWaits(Reading(p, f), allocated)
    BY <1>1, Types, GoodFrames, FreeFrames
  <2> DEFINE fr == <<FP("reap1", p), F("accept"), Reading(p, f)>>
  <2>3. fr \in Seq(Good) /\ \A j \in 1 .. Len(fr) : fr[j] \in {FP("reap1", p), F("accept"), Reading(p, f)}
    BY <1>3, <2>2
  <2>4. \A j \in 1 .. Len(fr) : FrameWaits(fr[j], allocated)
    BY <1>3, <2>2, <2>3
  <2> HIDE DEF fr
  <2>5. Goto(fr)
    BY <2>1 DEF fr
  <2> QED
    BY <1>1, <2>3, <2>4, <2>5, SteadyCall
<1> QED
  BY <1>4, <1>5 DEF Wait1

LEMMA LispWaits ==
  ASSUME ChildInv, Waiting, NEW p \in Proc,
         \/ StartProcess(p) \/ StartFails(p) \/ CallProcess(p) \/ CloseProcess(p) \/ DropReference(p)
         \/ (\E sig \in Signals : SignalProcess(p, sig)) \/ (\E c \in ConnTypes : SetConnectionType(p, c))
         \/ ChildWrite(p) \/ ChildExit(p) \/ AcceptProcessOutput1(p)
  PROVE  Waiting' /\ Kept
<1>1. CASE \/ StartFails(p) \/ CloseProcess(p) \/ DropReference(p) \/ ChildWrite(p) \/ ChildExit(p)
           \/ (\E sig \in Signals : SignalProcess(p, sig)) \/ (\E c \in ConnTypes : SetConnectionType(p, c))
  <2>1. UNCHANGED <<allocated, status, notifyNext, notifyList, stack>>
    BY <1>1 DEF StartFails, CloseProcess, DropReference, ChildWrite, ChildExit, SignalProcess, DoSignalCommand,
           SetConnectionType, objVars, notifyVars
  <2>2. thrown' => thrown \/ "throw" \in LispOps
    BY <1>1, ProcessesAssumption
       DEF StartFails, CloseProcess, DropReference, ChildWrite, ChildExit, SignalProcess, DoSignalCommand,
           SetConnectionType, LispRuns
  <2> QED
    BY <2>1, <2>2, SteadyStay
<1>2. CASE StartProcess(p) \/ CallProcess(p)
  <2>1. /\ UNCHANGED <<allocated, notifyNext, notifyList, thrown>>
        /\ p \in allocated /\ ~Active(p) /\ status' = [status EXCEPT ![p] = "running"]
    BY <1>2 DEF StartProcess, CallProcess, RunProcess, notifyVars, ChildInv
  <2>2. \A q \in Proc : status'[q] = status[q] \/ (status[q] = "dead" /\ q \in allocated)
    BY <2>1 DEF Active, ChildInv, TypeOK
  <2>3. CASE StartProcess(p)
    BY <2>1, <2>2, <2>3, SteadyStay DEF StartProcess
  <2>4. CASE CallProcess(p)
    <3> DEFINE x == [op |-> "sync", p |-> p, fds |-> {NewOut, NewErr(FALSE)}]
    <3>1. x.op = "sync" /\ x.p = p /\ Built(Depth, <<x>>)
      BY <2>4, CallProcessBuilt
    <3> HIDE DEF x
    <3>2. FrameWaits(x, allocated) /\ Len(<<x>>) = 1 /\ <<x>>[1] = x
      BY <2>1, <3>1 DEF FrameWaits
    <3>3. \A j \in 1 .. 1 : j = 1
      OBVIOUS
    <3> DEFINE fr == <<x>>
    <3>4. Built(Depth, fr) /\ \A j \in 1 .. Len(fr) : FrameWaits(fr[j], allocated)
      BY <3>1, <3>2, <3>3
    <3> HIDE DEF fr
    <3> QED
      BY <2>1, <2>2, <3>4, SteadyStep
  <2> QED
    BY <1>2, <2>3, <2>4
<1>3. CASE AcceptProcessOutput1(p)
  <2>1. /\ Push(<<FP("wait1", p)>> \o HandleProcessEvents) /\ "accept1" \in LispOps
        /\ UNCHANGED <<allocated, status, notifyNext, notifyList, thrown>>
    BY <1>3, ProcessesAssumption DEF AcceptProcessOutput1, Enter, LispRuns, objVars, notifyVars
  <2>2. FP("wait1", p) \in Good /\ FrameWaits(FP("wait1", p), allocated)
    BY <2>1, GoodFrames, FreeFrames DEF FrameOps
  <2> QED
    BY <2>1, <2>2, SteadyFrame
<1> QED
  BY <1>1, <1>2, <1>3

LEMMA MakeWaits == ASSUME ChildInv, Waiting, NEW p \in Proc, MakeProcess(p) PROVE Waiting' /\ Kept
<1>1. /\ p \notin allocated /\ allocated' = allocated \cup {p}
      /\ status' = [status EXCEPT ![p] = "dead"] /\ notifyNext' = [notifyNext EXCEPT ![p] = NoProc]
      /\ UNCHANGED <<notifyList, stack, thrown>>
  BY DEF MakeProcess
<1>2. /\ status[p] = "dead" /\ notifyNext[p] = NoProc
      /\ notifyNext \in [Proc -> Link] /\ status \in [Proc -> {"dead", "running", "stopped"}]
  BY <1>1, Types DEF Waiting, Unmade, ListTyped, ChildInv, TypeOK
<1>3. notifyNext' = notifyNext /\ status' = status
  BY <1>1, <1>2
<1>4. InList' = InList /\ (Linked' <=> Linked)
  BY <1>1, <1>3 DEF InList, Walk, Linked, Queued
<1>5. Built(Depth, <<>>) /\ Len(<<>>) = 0
  BY <1>1, Types, StayBuilt
<1> DEFINE S == {}
<1>6. /\ allocated \subseteq allocated' /\ Linked' /\ (thrown' => "throw" \in LispOps)
      /\ Unmade(allocated', status', notifyNext')
      /\ \A q \in Proc \ S : /\ q \in InList => q \in InList'
                             /\ status'[q] = status[q] \/ status[q] = "dead"
      /\ \A q \in S : q \in InList' \/ Died(stack', q) \/ Notified(q)
  BY <1>1, <1>3, <1>4 DEF Waiting, Unmade
<1>7. PICK fr : fr = <<>>
  OBVIOUS
<1>8. Built(Depth, fr) /\ \A j \in 1 .. Len(fr) : FrameWaits(fr[j], allocated')
  <2>1. \A j \in 1 .. 0 : FALSE
    OBVIOUS
  <2> QED
    BY <1>5, <1>7, <2>1
<1> HIDE DEF S
<1> QED
  BY ONLY ChildInv, Waiting, <1>6, <1>8, WaitKept

\* Steps that queue a notification for p, which may have changed its state.
LEMMA QueueWaits ==
  ASSUME ChildInv, Waiting, NEW p \in allocated, QueueNotification(p), UNCHANGED <<allocated, thrown>>,
         \A q \in Proc \ {p} : status'[q] = status[q],
         NEW base, Built(base, <<>>),
         \/ base = Depth
         \/ base = Depth - 1 /\ (Top.op \notin {"diedOut", "diedErr"} \/ Top.p = p)
  PROVE  Waiting' /\ Kept
<1>1. p \in Proc /\ ListTyped /\ Linked
  BY Types DEF ChildInv, TypeOK, Waiting
<1>2. /\ InList \cup {p} \subseteq InList' /\ Linked'
  BY <1>1, QueueKeeps
<1>3. \A q \in Proc \ {p} : notifyNext'[q] = notifyNext[q]
  BY <1>1 DEF QueueNotification, notifyVars, ListTyped
<1> DEFINE S == {p}
<1>4. /\ allocated \subseteq allocated' /\ (thrown' => "throw" \in LispOps)
      /\ Unmade(allocated', status', notifyNext')
      /\ \A q \in Proc \ S : /\ q \in InList => q \in InList'
                             /\ status'[q] = status[q] \/ status[q] = "dead"
      /\ \A q \in S : q \in InList' \/ Died(stack', q) \/ Notified(q)
      /\ Top.p = p => Top.p \in S
  BY <1>1, <1>2, <1>3 DEF Waiting, Unmade
<1> HIDE DEF S
<1>5. \A j \in 1 .. Len(<<>>) : FrameWaits(<<>>[j], allocated')
  BY FrameLists
<1> QED
  BY <1>2, <1>4, <1>5, WaitKept

LEMMA QueueSteps ==
  ASSUME ChildInv, Waiting,
         \/ DiedErr \/ SyncEnd \/ \E p \in Proc : ReapStopped(p) \/ ContinueProcess(p)
  PROVE  Waiting' /\ Kept
<1>1. CASE DiedErr
  <2> DEFINE p == Top.p
  <2>1. /\ Depth > 0 /\ Top.op = "diedErr" /\ Goto(<<>>) /\ QueueNotification(p)
        /\ UNCHANGED <<allocated, status, thrown>>
    BY <1>1 DEF DiedErr, TopIs, objVars
  <2>2. p \in allocated /\ Built(Depth - 1, <<>>)
    BY <2>1, TopWaits, PopBuilt DEF FrameWaits
  <2>3. Top.p = p
    OBVIOUS
  <2> HIDE DEF p
  <2> QED
    BY <2>1, <2>2, <2>3, QueueWaits
<1>2. CASE SyncEnd
  <2> DEFINE p == Top.p
  <2>1. /\ Depth > 0 /\ Top.op = "sync" /\ Goto(<<>>) /\ QueueNotification(p)
        /\ status' = [status EXCEPT ![p] = "dead"]
        /\ UNCHANGED <<allocated, thrown>>
    BY <1>2 DEF SyncEnd, TopIs
  <2>2. p \in allocated /\ Built(Depth - 1, <<>>)
    BY <2>1, TopWaits, PopBuilt DEF FrameWaits
  <2> HIDE DEF p
  <2>3. \A q \in Proc \ {p} : status'[q] = status[q]
    BY <2>1 DEF ChildInv, TypeOK
  <2> QED
    BY <2>1, <2>2, <2>3, QueueWaits
<1>3. CASE \E p \in Proc : ReapStopped(p) \/ ContinueProcess(p)
  <2>1. PICK p \in Proc : ReapStopped(p) \/ ContinueProcess(p)
    BY <1>3
  <2>2. /\ QueueNotification(p) /\ UNCHANGED <<allocated, thrown, stack>>
        /\ \E s : status' = [status EXCEPT ![p] = s]
    BY <2>1 DEF ReapStopped, ContinueProcess
  <2>3. p \in allocated
    BY <2>1 DEF ReapStopped, ContinueProcess, ChildInv
  <2>4. Built(Depth, <<>>)
    BY <2>2, Types, StayBuilt
  <2>5. \A q \in Proc \ {p} : status'[q] = status[q]
    BY <2>2 DEF ChildInv, TypeOK
  <2> QED
    BY <2>2, <2>3, <2>4, <2>5, QueueWaits
<1> QED
  BY <1>1, <1>2, <1>3

\* handle_process_events() works on a process that has died.
LEMMA DyingWaits ==
  ASSUME ChildInv, Waiting, UNCHANGED <<allocated, notifyNext, notifyList, thrown>>,
         NEW p \in allocated, \A q \in Proc \ {p} : status'[q] = status[q],
         NEW x, x.op \in {"diedOut", "diedErr"}, x.p = p,
         NEW f, NEW fr, fr = <<x>> \/ fr = <<x>> \o <<Reading(p, f)>>,
         NEW base, Built(base, fr),
         \/ base = Depth
         \/ base = Depth - 1 /\ Top.p = p
  PROVE  Waiting' /\ Kept
<1>1. InList' = InList /\ Linked'
  BY DEF InList, Walk, Linked, Queued, Waiting
<1>2. FrameWaits(x, allocated') /\ FrameWaits(Reading(p, f), allocated')
  BY FreeFrames DEF FrameWaits
<1>3. Len(fr) \in {1, 2} /\ fr[1] = x /\ (Len(fr) = 2 => fr[2] = Reading(p, f))
  <2>1. CASE fr = <<x>>
    <3>1. Len(<<x>>) = 1 /\ <<x>>[1] = x
      OBVIOUS
    <3> QED
      BY <2>1, <3>1
  <2>2. CASE fr = <<x>> \o <<Reading(p, f)>>
    <3>1. LET s == <<x>> \o <<Reading(p, f)>> IN Len(s) = 2 /\ s[1] = x /\ s[2] = Reading(p, f)
      OBVIOUS
    <3> QED
      BY <2>2, <3>1
  <2> QED
    BY <2>1, <2>2
<1>4. \A j \in 1 .. Len(fr) : FrameWaits(fr[j], allocated')
  <2>1. (\A j \in 1 .. 1 : j = 1) /\ (\A j \in 1 .. 2 : j = 1 \/ j = 2)
    OBVIOUS
  <2>2. CASE Len(fr) = 1
    BY <1>2, <1>3, <2>1, <2>2
  <2>3. CASE Len(fr) = 2
    BY <1>2, <1>3, <2>1, <2>3
  <2> QED
    BY <1>3, <2>2, <2>3
<1>5. Died(stack', p)
  <2>1. base \in Nat /\ 1 \in 1 .. Len(fr) /\ base + 1 \in 1 .. Len(stack') /\ stack'[base + 1] = x
    <3>1. 1 \in 1 .. 1 /\ 1 \in 1 .. 2
      OBVIOUS
    <3>2. 1 \in 1 .. Len(fr)
      BY <1>3, <3>1
    <3>3. base \in Nat /\ Len(stack') = base + Len(fr) /\ stack'[base + 1] = fr[1]
      BY <3>2, Types DEF Built
    <3>4. \A n \in {1, 2} : base + 1 \in 1 .. base + n
      BY <3>3
    <3> QED
      BY <1>3, <3>2, <3>3, <3>4
  <2> QED
    BY <2>1 DEF Died
<1> DEFINE S == {p}
<1>6. /\ allocated \subseteq allocated' /\ (thrown' => "throw" \in LispOps)
      /\ Unmade(allocated', status', notifyNext')
      /\ \A q \in Proc \ S : /\ q \in InList => q \in InList'
                             /\ status'[q] = status[q] \/ status[q] = "dead"
      /\ \A q \in S : q \in InList' \/ Died(stack', q) \/ Notified(q)
      /\ Top.p = p => Top.p \in S
  BY <1>1, <1>5 DEF Waiting, Unmade
<1> HIDE DEF S
<1> QED
  BY <1>1, <1>4, <1>6, WaitKept

LEMMA DyingSteps == ASSUME ChildInv, Waiting, DiedOut \/ \E p \in Proc : ReapDead(p) PROVE Waiting' /\ Kept
<1>1. CASE \E p \in Proc : ReapDead(p)
  <2>1. PICK p \in Proc : ReapDead(p)
    BY <1>1
  <2>2. /\ UNCHANGED <<allocated, notifyNext, notifyList, thrown>> /\ p \in allocated
        /\ status' = [status EXCEPT ![p] = "dead"]
    BY <2>1 DEF ReapDead, notifyVars, ChildInv
  <2>3. \A q \in Proc \ {p} : status'[q] = status[q]
    BY <2>2 DEF ChildInv, TypeOK
  <2> DEFINE x == FP("diedOut", p)
             f == out[p]
             b == Depth
  <2>4. x.op = "diedOut" /\ x.p = p
    BY FrameOpsAre
  <2>5. PICK fr : Built(b, fr) /\ (fr = <<x>> \/ fr = <<x>> \o <<Reading(p, f)>>)
    BY <2>1, ReapDeadBuilt
  <2>6. b = Depth
    OBVIOUS
  <2> HIDE DEF x, f, b
  <2> QED
    BY <2>2, <2>3, <2>4, <2>5, <2>6, DyingWaits
<1>2. CASE DiedOut
  <2> DEFINE p == Top.p
             x == FP("diedErr", p)
             f == err[p]
             b == Depth - 1
  <2>1. /\ UNCHANGED <<allocated, notifyNext, notifyList, thrown, status>>
        /\ Depth > 0 /\ Top.op = "diedOut"
    BY <1>2 DEF DiedOut, TopIs, notifyVars, objVars
  <2>2. p \in allocated
    BY <2>1, TopWaits DEF FrameWaits
  <2>3. x.op = "diedErr" /\ x.p = p /\ Top.p = p /\ b = Depth - 1
    BY FrameOpsAre
  <2>4. PICK fr : Built(b, fr) /\ (fr = <<x>> \/ fr = <<x>> \o <<Reading(p, f)>>)
    BY <1>2, DiedOutBuilt
  <2> HIDE DEF p, x, f, b
  <2> QED
    BY <2>1, <2>2, <2>3, <2>4, DyingWaits
<1> QED
  BY <1>1, <1>2

\* A notify function is called.
LEMMA NotifyWaits ==
  ASSUME ChildInv, Waiting, UNCHANGED <<allocated, status, thrown>>, NEW p \in Proc,
         InList \subseteq InList' \cup {p}, Linked',
         \A x \in Proc : notifyNext[x] = NoProc => notifyNext'[x] = NoProc,
         TopIs("dispatch") \/ TopIs("notify1"),
         Push(<<FP("notify", p)>>) \/ Goto(<<FP("notify", p)>>)
  PROVE  Waiting' /\ Kept
<1>1. FP("notify", p) \in Good /\ FrameWaits(FP("notify", p), allocated')
  BY GoodFrames, FreeFrames DEF FrameOps
<1> DEFINE x == FP("notify", p)
           fr == <<x>>
<1>2. fr \in Seq(Good) /\ Len(fr) = 1 /\ fr[1] = x
  BY <1>1
<1>3. Depth > 0 /\ Top.op \notin {"diedOut", "diedErr"}
  BY DEF TopIs
<1> HIDE DEF fr
<1>4. PICK base \in {Depth, Depth - 1} : Built(base, fr)
  BY <1>2, <1>3, Types, PushBuilt, GotoBuilt DEF fr
<1>5. Notified(p)
  <2>1. /\ Len(stack') = base + 1 /\ stack'[base + 1] = x /\ Depth \in Nat
    BY <1>2, <1>4, Types DEF Built
  <2> QED
    BY <1>4, <2>1 DEF Notified
<1> DEFINE S == {p}
<1>6. /\ allocated \subseteq allocated' /\ (thrown' => "throw" \in LispOps)
      /\ Unmade(allocated', status', notifyNext')
      /\ \A q \in Proc \ S : /\ q \in InList => q \in InList'
                             /\ status'[q] = status[q] \/ status[q] = "dead"
      /\ \A q \in S : q \in InList' \/ Died(stack', q) \/ Notified(q)
  BY <1>5 DEF Waiting, Unmade
<1>7. \A j \in 1 .. Len(fr) : FrameWaits(fr[j], allocated')
  <2>1. \A j \in 1 .. 1 : j = 1
    OBVIOUS
  <2> QED
    BY <1>1, <1>2, <2>1
<1> HIDE DEF S
<1> QED
  BY <1>3, <1>4, <1>6, <1>7, WaitKept

LEMMA DispatchWaits == ASSUME ChildInv, Waiting, Dispatch PROVE Waiting' /\ Kept
<1> DEFINE h == notifyList
<1>1. /\ TopIs("dispatch") /\ h # NoProc /\ notifyList' = notifyNext[h]
      /\ notifyNext' = [notifyNext EXCEPT ![h] = NoProc] /\ Push(<<FP("notify", h)>>)
      /\ UNCHANGED <<allocated, status, thrown>>
  BY DEF Dispatch, objVars
<1>2. h \in Proc /\ ListTyped
  BY <1>1, Types DEF ListTyped, Link
<1>3. InList \subseteq InList' \cup {h} /\ Linked'
  BY <1>1, <1>2, DispatchKeeps DEF Waiting
<1>4. \A x \in Proc : notifyNext[x] = NoProc => notifyNext'[x] = NoProc
  BY <1>1, <1>2 DEF ListTyped
<1> HIDE DEF h
<1> QED
  BY <1>1, <1>2, <1>3, <1>4, NotifyWaits

\* No throw is pending when notify_process() unlinks a process.
LEMMA Notify1Waits == ASSUME ChildInv, Waiting, KeepsList, Notify1 PROVE Waiting' /\ Kept
<1> DEFINE p == Top.p
<1>1. /\ TopIs("notify1") /\ Depth > 0 /\ Top.op = "notify1" /\ p \in Proc
      /\ UNCHANGED <<allocated, status, thrown>>
  BY Types DEF Notify1, TopIs, Good, FrameOK, objVars
<1>2. ~thrown
  <2>1. "accept1" \in LispOps
    BY <1>1, TopWaits DEF FrameWaits
  <2> QED
    BY <2>1 DEF Waiting, KeepsList
<1>3. CASE UNCHANGED notifyVars /\ Goto(<<>>)
  BY <1>1, <1>3, SteadyPop DEF notifyVars
<1>4. CASE UNCHANGED notifyVars /\ Goto(<<F("crashed")>>)
  <2>1. F("crashed") \in Good /\ FrameWaits(F("crashed"), allocated)
    BY GoodFrames, FreeFrames DEF FrameOps
  <2> QED
    BY <1>1, <1>4, <2>1, SteadyFrame DEF notifyVars
<1>5. CASE p \in InList /\ Unlink(p) /\ Goto(<<FP("notify", p)>>)
  <2>1. /\ InList \subseteq InList' \cup {p} /\ Linked'
        /\ \A x \in Proc : notifyNext[x] = NoProc => notifyNext'[x] = NoProc
    <3> HIDE DEF p
    <3> QED
      BY <1>5, Types, UnlinkKeeps DEF Waiting
  <2> HIDE DEF p
  <2> QED
    BY <1>1, <1>5, <2>1, NotifyWaits
<1> QED
  BY <1>2, <1>3, <1>4, <1>5 DEF Notify1

LEMMA KillKeeps == ASSUME ChildInv, ProcessesKill PROVE Kept
<1>1. stack = <<>> /\ UNCHANGED <<status, notifyNext, notifyList>>
  BY DEF ProcessesKill, notifyVars
<1>2. InList' = InList
  BY <1>1 DEF InList, Walk
<1>3. \A k \in 1 .. Depth : FALSE
  BY <1>1 DEF Depth
<1> QED
  BY <1>1, <1>2, <1>3 DEF Kept, Owed, ChangesState

LEMMA NotifyInvNext == ASSUME KeepsList PROVE NotifyInv /\ [Next]_vars => NotifyInv' /\ (UNCHANGED vars \/ Kept)
<1> SUFFICES ASSUME NotifyInv, [Next]_vars PROVE NotifyInv' /\ (UNCHANGED vars \/ Kept)
  OBVIOUS
<1>1. ChildInv /\ ChildInv'
  BY ChildInvNext DEF NotifyInv
<1>2. CASE Exited
  <2>1. UNCHANGED vars
    BY <1>1, <1>2, ExitedStays
  <2>2. Exited'
    BY <1>2, <2>1 DEF Exited, vars, objVars, Depth
  <2> QED
    BY <1>1, <2>1, <2>2 DEF NotifyInv
<1>3. CASE Waiting /\ ProcessesKill
  BY <1>1, <1>3, KillExits, KillKeeps DEF NotifyInv
<1>4. CASE Waiting /\ ~ProcessesKill
  <2>1. ASSUME EventLoop \/ Stuck \/ Finished \/ UNCHANGED vars PROVE Waiting' /\ Kept
    BY <1>1, <1>4, <2>1, SteadySteps, InputWaitSteps DEF EventLoop
  <2>2. ASSUME CCode PROVE Waiting' /\ Kept
    BY <1>1, <1>4, <2>2, SteadySteps, QueueSteps, DyingSteps, DispatchWaits, Wait1Waits, Notify1Waits DEF CCode
  <2>3. ASSUME LispCode PROVE Waiting' /\ Kept
    <3>1. ~GarbageCollect
      BY ProcessesAssumption DEF GarbageCollect, LispRuns, KeepsList
    <3> QED
      BY <1>1, <1>4, <2>3, <3>1, LispWaits, MakeWaits, QueueSteps, InputWaitSteps, SteadySteps DEF LispCode
  <2>4. ASSUME Child PROVE Waiting' /\ Kept
    BY <1>1, <1>4, <2>4, LispWaits DEF Child
  <2>5. Waiting' /\ Kept
    BY <2>1, <2>2, <2>3, <2>4 DEF Next
  <2> QED
    BY <1>1, <2>5 DEF NotifyInv
<1> QED
  BY <1>2, <1>3, <1>4 DEF NotifyInv

LEMMA NotifyInvInit == Init => NotifyInv
<1> SUFFICES ASSUME Init PROVE NotifyInv
  OBVIOUS
<1>1. Depth = 0 /\ Linked /\ Unmade(allocated, status, notifyNext)
  BY DEF Init, Depth, Linked, Queued, Unmade
<1> QED
  BY <1>1, ChildInvInit DEF NotifyInv, Waiting, Init

\* If Lisp code does not collect garbage, and does not both throw and wait for
\* one process, then a process that has changed state stays on notify_list, or
\* in the hands of handle_process_events(), until its notify function is
\* called, however the list is tied into rings by processes that are queued
\* again while they end it.
THEOREM NotificationsKept == ASSUME KeepsList PROVE Spec => NotificationKept
<1>1. NotifyInv /\ [Next]_vars => NotifyInv' /\ (UNCHANGED vars \/ Kept)
  BY NotifyInvNext
<1>2. UNCHANGED vars \/ Kept => [\A p \in Proc : Owed(p) \/ ChangesState(p) => Owed(p)' \/ Notified(p)]_vars
  BY DEF Kept
<1> QED
  BY <1>1, <1>2, NotifyInvInit, PTL DEF Spec, NotificationKept
============================================================================
