---------------------------- MODULE FilesProofs ----------------------------
(***************************************************************************)
(* Two results for any handlers, names and files: rep_blocked_ops[] holds  *)
(* the handlers in progress, and every stream of the C library that the    *)
(* process has open belongs to one live file object, from open-file to     *)
(* close-file or the collector, whatever the handlers do in between.       *)
(***************************************************************************)
EXTENDS FilesProps, FiniteSetTheorems, SequenceTheorems, WellFoundedInduction, TLAPS

----------------------------------------------------------------------------
(* Sequences *)

\* A sequence of anything.
IsSeq(s) == \E S : s \in Seq(S)

LEMMA SeqFacts ==
  ASSUME NEW s, IsSeq(s)
  PROVE  Len(s) \in Nat /\ DOMAIN s = 1 .. Len(s)
  BY DEF IsSeq

LEMMA PushFacts ==
  ASSUME NEW s, IsSeq(s), NEW x
  PROVE  /\ IsSeq(<<x>> \o s)
         /\ Len(<<x>> \o s) = Len(s) + 1
         /\ (<<x>> \o s)[1] = x
         /\ \A i \in 1 .. Len(s) : (<<x>> \o s)[i + 1] = s[i]
<1>1. PICK T : s \in Seq(T)
  BY DEF IsSeq
<1> DEFINE S == T \cup {x}
<1>2. s \in Seq(S) /\ <<x>> \in Seq(S)
  BY <1>1
<1> HIDE DEF S
<1>3. /\ <<x>> \o s \in Seq(S) /\ Len(<<x>> \o s) = Len(s) + 1 /\ (<<x>> \o s)[1] = x
      /\ \A i \in 1 .. Len(s) : (<<x>> \o s)[i + 1] = s[i]
  BY <1>2
<1> QED
  BY <1>3 DEF IsSeq

LEMMA PopFacts ==
  ASSUME NEW s, IsSeq(s), s # <<>>
  PROVE  /\ IsSeq(Tail(s))
         /\ Len(s) >= 1
         /\ Len(Tail(s)) = Len(s) - 1
         /\ \A i \in 1 .. Len(s) - 1 : Tail(s)[i] = s[i + 1]
<1>1. PICK S : s \in Seq(S)
  BY DEF IsSeq
<1>2. /\ Tail(s) \in Seq(S) /\ Len(s) >= 1 /\ Len(Tail(s)) = Len(s) - 1
      /\ \A i \in 1 .. Len(s) - 1 : Tail(s)[i] = s[i + 1]
  BY <1>1
<1> QED
  BY <1>2 DEF IsSeq

LEMMA NothingIsSeq == IsSeq(<<>>)
  <1>1. <<>> \in Seq({})
    OBVIOUS
  <1> QED BY <1>1 DEF IsSeq

\* Min of a set of numbers is in it.
LEMMA MinIn ==
  ASSUME NEW T, T \subseteq Nat, T # {}
  PROVE  Min(T) \in T
<1>1. PICK x \in T : \A y \in T : ~(<<y, x>> \in OpToRel(<, Nat))
  BY NatLessThanWellFounded, WFMin
<1>2. \A y \in T : x <= y
  <2> TAKE y \in T
  <2>1. ~(y < x)
    BY <1>1 DEF OpToRel
  <2> QED
    BY <2>1
<1> QED
  BY <1>2 DEF Min

----------------------------------------------------------------------------
(* The handlers in progress, as frames come and go *)

\* An increasing enumeration of the frames that are at op.
Enumerates(at, b, s, op) ==
  /\ at \in [DOMAIN b -> DOMAIN s]
  /\ \A i, j \in DOMAIN b : i < j => at[i] < at[j]
  /\ \A i \in DOMAIN b : s[at[i]].fn = "handler" /\ s[at[i]].pc = op /\ b[i] = s[at[i]].h
  /\ \A k \in DOMAIN s : s[k].fn = "handler" /\ s[k].pc = op => \E i \in DOMAIN b : at[i] = k

LEMMA Enumerated ==
  ASSUME NEW b, NEW s, NEW op
  PROVE  Lists(b, s, op) <=> \E at : Enumerates(at, b, s, op)
  BY DEF Lists, Enumerates, HandlerFrames

\* A frame that is not at op comes on top.
LEMMA PushOther ==
  ASSUME NEW b, IsSeq(b), NEW s, IsSeq(s), NEW op, Lists(b, s, op),
         NEW x, ~(x.fn = "handler" /\ x.pc = op)
  PROVE  Lists(b, <<x>> \o s, op)
<1>1. PICK at : Enumerates(at, b, s, op)
  BY Enumerated
<1>2. PICK t : t = <<x>> \o s
  OBVIOUS
<1>3. /\ DOMAIN s = 1 .. Len(s) /\ DOMAIN t = 1 .. Len(s) + 1 /\ DOMAIN b = 1 .. Len(b)
      /\ Len(s) \in Nat /\ Len(b) \in Nat /\ t[1] = x /\ \A i \in 1 .. Len(s) : t[i + 1] = s[i]
  BY <1>2, PushFacts, SeqFacts
<1> DEFINE to == [i \in DOMAIN b |-> at[i] + 1]
<1>4. \A i \in DOMAIN b : at[i] \in 1 .. Len(s) /\ to[i] = at[i] + 1 /\ to[i] \in DOMAIN t /\ t[to[i]] = s[at[i]]
  BY <1>1, <1>3 DEF Enumerates
<1>5. to \in [DOMAIN b -> DOMAIN t]
  BY <1>4
<1> HIDE DEF to
<1>6. \A i, j \in DOMAIN b : i < j => to[i] < to[j]
  BY <1>1, <1>4 DEF Enumerates
<1>7. \A i \in DOMAIN b : t[to[i]].fn = "handler" /\ t[to[i]].pc = op /\ b[i] = t[to[i]].h
  BY <1>1, <1>4 DEF Enumerates
<1>8. ASSUME NEW k \in DOMAIN t, t[k].fn = "handler", t[k].pc = op
      PROVE  \E i \in DOMAIN b : to[i] = k
  <2>1. k # 1
    BY <1>3, <1>8
  <2>2. k - 1 \in DOMAIN s /\ t[k] = s[k - 1] /\ k \in Nat
    BY <1>3, <2>1
  <2>3. PICK i \in DOMAIN b : at[i] = k - 1
    BY <1>1, <1>8, <2>2 DEF Enumerates
  <2>4. to[i] = at[i] + 1
    BY <1>4
  <2>5. to[i] = k
    BY ONLY <2>2, <2>3, <2>4
  <2> QED
    BY <2>5
<1>9. Enumerates(to, b, t, op)
  BY <1>5, <1>6, <1>7, <1>8 DEF Enumerates
<1> QED
  BY <1>2, <1>9, Enumerated

\* A handler is called for op.
LEMMA PushHandler ==
  ASSUME NEW b, IsSeq(b), NEW s, IsSeq(s), NEW op, Lists(b, s, op),
         NEW x, x.fn = "handler", x.pc = op
  PROVE  Lists(<<x.h>> \o b, <<x>> \o s, op)
<1>1. PICK at : Enumerates(at, b, s, op)
  BY Enumerated
<1>2. PICK t, c : t = <<x>> \o s /\ c = <<x.h>> \o b
  OBVIOUS
<1>3. /\ DOMAIN s = 1 .. Len(s) /\ DOMAIN t = 1 .. Len(s) + 1
      /\ Len(s) \in Nat /\ t[1] = x /\ \A i \in 1 .. Len(s) : t[i + 1] = s[i]
  BY <1>2, PushFacts, SeqFacts
<1>4. /\ DOMAIN b = 1 .. Len(b) /\ DOMAIN c = 1 .. Len(b) + 1
      /\ Len(b) \in Nat /\ c[1] = x.h /\ \A i \in 1 .. Len(b) : c[i + 1] = b[i]
  BY <1>2, PushFacts, SeqFacts
<1> DEFINE to == [i \in DOMAIN c |-> IF i = 1 THEN 1 ELSE at[i - 1] + 1]
<1>5. ASSUME NEW i \in DOMAIN c, i # 1
      PROVE  /\ i - 1 \in DOMAIN b /\ at[i - 1] \in 1 .. Len(s) /\ to[i] = at[i - 1] + 1
             /\ to[i] \in DOMAIN t /\ to[i] > 1 /\ t[to[i]] = s[at[i - 1]] /\ c[i] = b[i - 1]
  <2>1. i - 1 \in DOMAIN b /\ i \in Nat /\ (i - 1) + 1 = i
    BY <1>4, <1>5
  <2>2. at[i - 1] \in 1 .. Len(s)
    BY <1>1, <1>3, <2>1 DEF Enumerates
  <2>3. to[i] = at[i - 1] + 1
    BY <1>5
  <2> HIDE DEF to
  <2> QED
    BY <1>3, <1>4, <2>1, <2>2, <2>3
<1>6. 1 \in DOMAIN c /\ 1 \in DOMAIN t /\ to[1] = 1
  BY <1>3, <1>4
<1>7. to \in [DOMAIN c -> DOMAIN t]
  BY <1>5, <1>6
<1> HIDE DEF to
<1>8. ASSUME NEW i \in DOMAIN c, NEW j \in DOMAIN c, i < j
      PROVE  to[i] < to[j]
  <2>1. j # 1 /\ i \in Nat /\ j \in Nat
    BY <1>4, <1>8
  <2>2. CASE i = 1
    BY <1>5, <1>6, <2>1, <2>2
  <2>3. CASE i # 1
    <3>1. i - 1 < j - 1 /\ i - 1 \in DOMAIN b /\ j - 1 \in DOMAIN b
      BY <1>5, <1>8, <2>1, <2>3
    <3>2. at[i - 1] < at[j - 1]
      BY <1>1, <3>1 DEF Enumerates
    <3>3. to[i] = at[i - 1] + 1 /\ to[j] = at[j - 1] + 1 /\ at[i - 1] \in Nat /\ at[j - 1] \in Nat
      BY <1>3, <1>5, <2>1, <2>3
    <3> QED
      BY ONLY <3>2, <3>3
  <2> QED
    BY <2>2, <2>3
<1>9. ASSUME NEW i \in DOMAIN c
      PROVE  t[to[i]].fn = "handler" /\ t[to[i]].pc = op /\ c[i] = t[to[i]].h
  <2>1. CASE i = 1
    BY <1>3, <1>4, <1>6, <2>1
  <2>2. CASE i # 1
    BY <1>1, <1>5, <2>2 DEF Enumerates
  <2> QED
    BY <2>1, <2>2
<1>10. ASSUME NEW k \in DOMAIN t, t[k].fn = "handler", t[k].pc = op
       PROVE  \E i \in DOMAIN c : to[i] = k
  <2>1. CASE k = 1
    BY <1>6, <2>1
  <2>2. CASE k # 1
    <3>1. k - 1 \in DOMAIN s /\ t[k] = s[k - 1] /\ k \in Nat
      BY <1>3, <2>2
    <3>2. PICK i \in DOMAIN b : at[i] = k - 1
      BY <1>1, <1>10, <3>1 DEF Enumerates
    <3>3. i + 1 \in DOMAIN c /\ i + 1 # 1 /\ (i + 1) - 1 = i
      BY <1>4
    <3>4. to[i + 1] = at[i] + 1
      BY <1>5, <3>3
    <3>5. to[i + 1] = k
      BY <3>1, <3>2, <3>4
    <3> QED
      BY <3>3, <3>5
  <2> QED
    BY <2>1, <2>2
<1>11. Enumerates(to, c, t, op)
  BY <1>7, <1>8, <1>9, <1>10 DEF Enumerates
<1> QED
  BY <1>2, <1>11, Enumerated

\* A frame that is not at op is taken off.
LEMMA PopOther ==
  ASSUME NEW b, IsSeq(b), NEW s, IsSeq(s), s # <<>>, NEW op, Lists(b, s, op),
         ~(s[1].fn = "handler" /\ s[1].pc = op)
  PROVE  Lists(b, Tail(s), op)
<1>1. PICK at : Enumerates(at, b, s, op)
  BY Enumerated
<1>2. PICK t : t = Tail(s)
  OBVIOUS
<1>3. /\ DOMAIN s = 1 .. Len(s) /\ DOMAIN t = 1 .. Len(s) - 1
      /\ Len(s) \in Nat /\ \A i \in 1 .. Len(s) - 1 : t[i] = s[i + 1]
  BY <1>2, PopFacts, SeqFacts
<1> DEFINE to == [i \in DOMAIN b |-> at[i] - 1]
<1>4. ASSUME NEW i \in DOMAIN b
      PROVE  at[i] \in Nat /\ to[i] = at[i] - 1 /\ to[i] \in DOMAIN t /\ t[to[i]] = s[at[i]]
  <2>1. at[i] \in 1 .. Len(s) /\ at[i] # 1
    BY <1>1, <1>3 DEF Enumerates
  <2>2. to[i] = at[i] - 1
    OBVIOUS
  <2> HIDE DEF to
  <2>3. to[i] \in 1 .. Len(s) - 1 /\ to[i] + 1 = at[i]
    BY <1>3, <2>1, <2>2
  <2> QED
    BY <1>3, <2>1, <2>2, <2>3
<1>5. to \in [DOMAIN b -> DOMAIN t]
  BY <1>4
<1> HIDE DEF to
<1>6. \A i, j \in DOMAIN b : i < j => to[i] < to[j]
  BY <1>1, <1>4 DEF Enumerates
<1>7. \A i \in DOMAIN b : t[to[i]].fn = "handler" /\ t[to[i]].pc = op /\ b[i] = t[to[i]].h
  BY <1>1, <1>4 DEF Enumerates
<1>8. ASSUME NEW k \in DOMAIN t, t[k].fn = "handler", t[k].pc = op
      PROVE  \E i \in DOMAIN b : to[i] = k
  <2>1. k + 1 \in DOMAIN s /\ t[k] = s[k + 1] /\ k \in Nat
    BY <1>3
  <2>2. PICK i \in DOMAIN b : at[i] = k + 1
    BY <1>1, <1>8, <2>1 DEF Enumerates
  <2> QED
    BY <1>4, <2>1, <2>2
<1>9. Enumerates(to, b, t, op)
  BY <1>5, <1>6, <1>7, <1>8 DEF Enumerates
<1> QED
  BY <1>2, <1>9, Enumerated

\* The handler at op that is innermost ends.
LEMMA PopHandler ==
  ASSUME NEW b, IsSeq(b), NEW s, IsSeq(s), s # <<>>, NEW op, Lists(b, s, op),
         s[1].fn = "handler", s[1].pc = op
  PROVE  b # <<>> /\ Lists(Tail(b), Tail(s), op)
<1>1. PICK at : Enumerates(at, b, s, op)
  BY Enumerated
<1>2. PICK t, c : t = Tail(s) /\ c = Tail(b)
  OBVIOUS
<1>3. /\ DOMAIN s = 1 .. Len(s) /\ DOMAIN t = 1 .. Len(s) - 1 /\ 1 \in DOMAIN s
      /\ Len(s) \in Nat /\ \A i \in 1 .. Len(s) - 1 : t[i] = s[i + 1]
  BY <1>2, PopFacts, SeqFacts
<1>4. PICK first \in DOMAIN b : at[first] = 1
  BY <1>1, <1>3 DEF Enumerates
<1>5. b # <<>>
  BY <1>4, SeqFacts
<1>6. /\ DOMAIN b = 1 .. Len(b) /\ DOMAIN c = 1 .. Len(b) - 1 /\ 1 \in DOMAIN b
      /\ Len(b) \in Nat /\ \A i \in 1 .. Len(b) - 1 : c[i] = b[i + 1]
  BY <1>2, <1>5, PopFacts, SeqFacts
<1>7. \A i \in DOMAIN b : at[i] \in 1 .. Len(s) /\ i \in Nat
  BY <1>1, <1>3, <1>6 DEF Enumerates
<1>8. \A i, j \in DOMAIN b : i < j => at[i] < at[j]
  BY <1>1 DEF Enumerates
<1>9. first = 1
  <2>1. first # 1 => 1 < first /\ at[1] < at[first]
    BY <1>4, <1>6, <1>8
  <2> QED
    BY <1>4, <1>6, <1>7, <2>1
<1> DEFINE to == [i \in DOMAIN c |-> at[i + 1] - 1]
<1>10. ASSUME NEW i \in DOMAIN c
       PROVE  /\ i + 1 \in DOMAIN b /\ at[i + 1] \in Nat /\ to[i] = at[i + 1] - 1 /\ i \in Nat
              /\ to[i] \in DOMAIN t /\ t[to[i]] = s[at[i + 1]] /\ c[i] = b[i + 1]
  <2>1. i + 1 \in DOMAIN b /\ i \in Nat /\ 1 < i + 1
    BY <1>6
  <2>2. at[i + 1] \in 1 .. Len(s) /\ at[1] < at[i + 1] /\ at[1] = 1
    BY <1>4, <1>6, <1>7, <1>8, <1>9, <2>1
  <2>3. to[i] = at[i + 1] - 1
    OBVIOUS
  <2> HIDE DEF to
  <2>4. to[i] \in 1 .. Len(s) - 1 /\ to[i] + 1 = at[i + 1]
    BY <1>3, <2>2, <2>3
  <2> QED
    BY <1>3, <1>6, <2>1, <2>2, <2>3, <2>4
<1>11. to \in [DOMAIN c -> DOMAIN t]
  BY <1>10
<1> HIDE DEF to
<1>12. ASSUME NEW i \in DOMAIN c, NEW j \in DOMAIN c, i < j PROVE to[i] < to[j]
  <2>1. i + 1 < j + 1
    BY <1>10, <1>12
  <2>2. at[i + 1] < at[j + 1]
    BY <1>8, <1>10, <2>1
  <2> QED
    BY <1>10, <2>2
<1>13. \A i \in DOMAIN c : t[to[i]].fn = "handler" /\ t[to[i]].pc = op /\ c[i] = t[to[i]].h
  BY <1>1, <1>10 DEF Enumerates
<1>14. ASSUME NEW k \in DOMAIN t, t[k].fn = "handler", t[k].pc = op
       PROVE  \E i \in DOMAIN c : to[i] = k
  <2>1. k + 1 \in DOMAIN s /\ t[k] = s[k + 1] /\ k \in Nat /\ k + 1 # 1 /\ (k + 1) - 1 = k
    BY <1>3
  <2>2. PICK i \in DOMAIN b : at[i] = k + 1
    BY <1>1, <1>14, <2>1 DEF Enumerates
  <2>3. i # 1
    BY <1>4, <1>9, <2>1, <2>2
  <2>4. i - 1 \in DOMAIN c /\ (i - 1) + 1 = i
    BY <1>6, <2>3
  <2>5. to[i - 1] = at[i] - 1
    BY <1>10, <2>4
  <2>6. to[i - 1] = k
    BY <2>1, <2>2, <2>5
  <2> QED
    BY <2>4, <2>6
<1>15. Enumerates(to, c, t, op)
  BY <1>11, <1>12, <1>13, <1>14 DEF Enumerates
<1> QED
  BY <1>2, <1>5, <1>15, Enumerated

----------------------------------------------------------------------------
(* The stack and rep_blocked_ops[] together *)

\* What a frame has at least.
Framed(fr) == {"fn", "pc", "h", "g"} \subseteq DOMAIN fr
Plain(fr) == Framed(fr) /\ fr.fn # "handler"

\* The inductive invariant, of a stack s and of rep_blocked_ops[] bl.
Exact(s, bl) ==
  /\ IsSeq(s)
  /\ \A i \in DOMAIN s : Framed(s[i])
  /\ DOMAIN bl = Op
  /\ \A op \in Op : /\ IsSeq(bl[op])
                    /\ Lists(bl[op], s, op)
                    /\ op \in LookedUp => IsInjective(bl[op])

LEMMA ExactPush ==
  ASSUME NEW s, NEW bl, Exact(s, bl), NEW x, Plain(x)
  PROVE  Exact(<<x>> \o s, bl)
<1>1. IsSeq(s) /\ DOMAIN s = 1 .. Len(s) /\ Len(s) \in Nat
  BY SeqFacts DEF Exact
<1>2. PICK t : t = <<x>> \o s
  OBVIOUS
<1>3. /\ IsSeq(t) /\ DOMAIN t = 1 .. Len(s) + 1 /\ t[1] = x
      /\ \A i \in 1 .. Len(s) : t[i + 1] = s[i]
  <2>1. IsSeq(t) /\ Len(t) = Len(s) + 1 /\ t[1] = x /\ \A i \in 1 .. Len(s) : t[i + 1] = s[i]
    BY ONLY <1>1, <1>2, PushFacts
  <2>2. DOMAIN t = 1 .. Len(t)
    BY <2>1, SeqFacts
  <2> QED
    BY ONLY <2>1, <2>2
<1>4. ASSUME NEW i \in DOMAIN t PROVE Framed(t[i])
  <2>1. CASE i = 1
    BY <1>3, <2>1 DEF Plain
  <2>2. CASE i # 1
    <3>1. i - 1 \in 1 .. Len(s) /\ t[i] = s[i - 1]
      BY <1>1, <1>3, <2>2
    <3> QED
      BY <1>1, <3>1 DEF Exact
  <2> QED
    BY <2>1, <2>2
<1>5. ASSUME NEW op \in Op PROVE Lists(bl[op], t, op)
  BY <1>1, <1>2, PushOther DEF Exact, Plain
<1> QED
  BY <1>2, <1>3, <1>4, <1>5 DEF Exact

LEMMA ExactPop ==
  ASSUME NEW s, NEW bl, Exact(s, bl), s # <<>>, s[1].fn # "handler"
  PROVE  Exact(Tail(s), bl)
<1>1. IsSeq(s) /\ DOMAIN s = 1 .. Len(s) /\ Len(s) \in Nat
  BY SeqFacts DEF Exact
<1>2. PICK t : t = Tail(s)
  OBVIOUS
<1>3. IsSeq(t) /\ DOMAIN t = 1 .. Len(s) - 1 /\ \A i \in 1 .. Len(s) - 1 : t[i] = s[i + 1]
  BY <1>1, <1>2, PopFacts, SeqFacts
<1>4. \A i \in DOMAIN t : Framed(t[i])
  BY <1>1, <1>3 DEF Exact
<1>5. ASSUME NEW op \in Op PROVE Lists(bl[op], t, op)
  BY <1>1, <1>2, PopOther DEF Exact
<1> QED
  BY <1>2, <1>3, <1>4, <1>5 DEF Exact

LEMMA ExactCall ==
  ASSUME NEW s, NEW bl, Exact(s, bl), NEW x, Framed(x), x.fn = "handler", NEW op \in Op, x.pc = op,
         op \in LookedUp => ~Contains(bl[op], x.h)
  PROVE  Exact(<<x>> \o s, [bl EXCEPT ![op] = <<x.h>> \o @])
<1>1. IsSeq(s) /\ DOMAIN s = 1 .. Len(s) /\ Len(s) \in Nat
  BY SeqFacts DEF Exact
<1>2. PICK t, c, bb : t = <<x>> \o s /\ c = <<x.h>> \o bl[op] /\ bb = [bl EXCEPT ![op] = c]
  OBVIOUS
<1>3. /\ IsSeq(t) /\ DOMAIN t = 1 .. Len(s) + 1 /\ t[1] = x
      /\ \A i \in 1 .. Len(s) : t[i + 1] = s[i]
  BY <1>1, <1>2, PushFacts, SeqFacts
<1>4. ASSUME NEW i \in DOMAIN t PROVE Framed(t[i])
  <2>1. CASE i = 1
    BY <1>3, <2>1
  <2>2. CASE i # 1
    <3>1. i - 1 \in 1 .. Len(s) /\ t[i] = s[i - 1]
      BY <1>1, <1>3, <2>2
    <3> QED
      BY <1>1, <3>1 DEF Exact
  <2> QED
    BY <2>1, <2>2
<1>5. IsSeq(bl[op]) /\ Lists(bl[op], s, op) /\ (op \in LookedUp => IsInjective(bl[op]))
  BY DEF Exact
<1>6. IsSeq(c) /\ Lists(c, t, op)
  BY <1>1, <1>2, <1>5, PushFacts, PushHandler
<1>7. op \in LookedUp => IsInjective(c)
  <2> SUFFICES ASSUME op \in LookedUp, NEW i \in DOMAIN c, NEW j \in DOMAIN c, c[i] = c[j]
               PROVE  i = j
    BY DEF IsInjective
  <2>1. /\ DOMAIN c = 1 .. Len(bl[op]) + 1 /\ c[1] = x.h /\ Len(bl[op]) \in Nat
        /\ DOMAIN bl[op] = 1 .. Len(bl[op])
        /\ \A k \in 1 .. Len(bl[op]) : c[k + 1] = bl[op][k]
    <3>1. Len(bl[op]) \in Nat /\ DOMAIN bl[op] = 1 .. Len(bl[op])
      BY <1>5, SeqFacts
    <3>2. /\ IsSeq(c) /\ Len(c) = Len(bl[op]) + 1 /\ c[1] = x.h
          /\ \A k \in 1 .. Len(bl[op]) : c[k + 1] = bl[op][k]
      <4>1. PICK b : b = bl[op]
        OBVIOUS
      <4>2. c = <<x.h>> \o b /\ IsSeq(b)
        BY <1>2, <1>5, <4>1
      <4>3. /\ IsSeq(c) /\ Len(c) = Len(b) + 1 /\ c[1] = x.h
            /\ \A k \in 1 .. Len(b) : c[k + 1] = b[k]
        BY ONLY <4>2, PushFacts
      <4> QED
        BY <4>1, <4>3
    <3>3. DOMAIN c = 1 .. Len(c)
      BY <3>2, SeqFacts
    <3> QED
      BY <3>1, <3>2, <3>3
  <2>2. \A k \in 1 .. Len(bl[op]) : bl[op][k] # x.h
    BY DEF Contains
  <2>3. ASSUME NEW k \in DOMAIN c, k # 1
        PROVE  k - 1 \in DOMAIN bl[op] /\ c[k] = bl[op][k - 1] /\ c[k] # x.h
    <3>1. k - 1 \in 1 .. Len(bl[op]) /\ (k - 1) + 1 = k
      BY <2>1, <2>3
    <3> QED
      BY <2>1, <2>2, <3>1
  <2>4. CASE i = 1 \/ j = 1
    BY <2>1, <2>3, <2>4
  <2>5. CASE i # 1 /\ j # 1
    <3>1. i - 1 = j - 1
      BY <1>5, <2>3, <2>5 DEF IsInjective
    <3> QED
      BY <2>1, <3>1
  <2> QED
    BY <2>4, <2>5
<1>8. DOMAIN bb = Op /\ bb[op] = c /\ \A o \in Op \ {op} : bb[o] = bl[o]
  BY <1>2 DEF Exact
<1>9. ASSUME NEW o \in Op \ {op}
      PROVE  IsSeq(bl[o]) /\ Lists(bl[o], t, o) /\ (o \in LookedUp => IsInjective(bl[o]))
  <2>1. IsSeq(bl[o]) /\ Lists(bl[o], s, o) /\ (o \in LookedUp => IsInjective(bl[o]))
    BY DEF Exact
  <2>2. Lists(bl[o], t, o)
    BY <1>1, <1>2, <2>1, PushOther
  <2> QED
    BY <2>1, <2>2
<1>10. Exact(t, bb)
  BY <1>3, <1>4, <1>6, <1>7, <1>8, <1>9 DEF Exact
<1> QED
  BY <1>2, <1>10

LEMMA ExactEnd ==
  ASSUME NEW s, NEW bl, Exact(s, bl), s # <<>>, s[1].fn = "handler"
  PROVE  Exact(Tail(s), [bl EXCEPT ![s[1].pc] = Tail(@)])
<1>1. IsSeq(s) /\ DOMAIN s = 1 .. Len(s) /\ Len(s) \in Nat
  BY SeqFacts DEF Exact
<1>2. PICK t, op, bb : t = Tail(s) /\ op = s[1].pc /\ bb = [bl EXCEPT ![op] = Tail(@)]
  OBVIOUS
<1>3. IsSeq(t) /\ DOMAIN t = 1 .. Len(s) - 1 /\ \A i \in 1 .. Len(s) - 1 : t[i] = s[i + 1]
  BY <1>1, <1>2, PopFacts, SeqFacts
<1>4. \A i \in DOMAIN t : Framed(t[i])
  BY <1>1, <1>3 DEF Exact
<1>5. DOMAIN bb = Op /\ \A o \in Op : bb[o] = IF o = op THEN Tail(bl[o]) ELSE bl[o]
  BY <1>2 DEF Exact
<1>6. ASSUME NEW o \in Op
      PROVE  IsSeq(bb[o]) /\ Lists(bb[o], t, o) /\ (o \in LookedUp => IsInjective(bb[o]))
  <2>1. IsSeq(bl[o]) /\ Lists(bl[o], s, o) /\ (o \in LookedUp => IsInjective(bl[o]))
    BY DEF Exact
  <2>2. CASE o # op
    <3>1. Lists(bl[o], t, o)
      BY <1>1, <1>2, <2>1, <2>2, PopOther
    <3> QED
      BY <1>5, <2>1, <2>2, <3>1
  <2>3. CASE o = op
    <3>1. bl[o] # <<>> /\ Lists(Tail(bl[o]), t, o)
      BY <1>1, <1>2, <2>1, <2>3, PopHandler
    <3>2. PICK c : c = Tail(bl[o])
      OBVIOUS
    <3>3. /\ IsSeq(c) /\ DOMAIN c = 1 .. Len(bl[o]) - 1 /\ DOMAIN bl[o] = 1 .. Len(bl[o])
          /\ Len(bl[o]) \in Nat /\ \A i \in 1 .. Len(bl[o]) - 1 : c[i] = bl[o][i + 1]
      BY <2>1, <3>1, <3>2, PopFacts, SeqFacts
    <3>4. ASSUME o \in LookedUp, NEW i \in DOMAIN c, NEW j \in DOMAIN c, c[i] = c[j]
          PROVE  i = j
      <4>1. /\ i + 1 \in DOMAIN bl[o] /\ j + 1 \in DOMAIN bl[o] /\ bl[o][i + 1] = bl[o][j + 1]
            /\ i \in Nat /\ j \in Nat
        BY <3>3, <3>4
      <4>2. i + 1 = j + 1
        BY <2>1, <3>4, <4>1 DEF IsInjective
      <4> QED
        BY <4>1, <4>2
    <3>5. o \in LookedUp => IsInjective(c)
      BY <3>4 DEF IsInjective
    <3> QED
      BY <1>5, <2>3, <3>1, <3>2, <3>3, <3>5
  <2> QED
    BY <2>2, <2>3
<1>7. Exact(t, bb)
  BY <1>3, <1>4, <1>5, <1>6 DEF Exact
<1> QED
  BY <1>2, <1>7

----------------------------------------------------------------------------
(* Steps that concern no handler, and calls of handlers *)

IndInv == Exact(stack, blocked)

\* Frames come and go, none of them a handler's.
Quiet ==
  /\ blocked' = blocked
  /\ \/ stack' = stack
     \/ \E x : Plain(x) /\ stack' = <<x>> \o stack
     \/ /\ stack # <<>> /\ Top.fn # "handler"
        /\ \/ stack' = Tail(stack)
           \/ \E x : Plain(x) /\ stack' = <<x>> \o Tail(stack)
           \/ \E x, y : Plain(x) /\ Plain(y) /\ stack' = <<x, y>> \o Tail(stack)

LEMMA TwoAtOnce ==
  ASSUME NEW s, IsSeq(s), NEW x, NEW y
  PROVE  <<x, y>> \o s = <<x>> \o (<<y>> \o s)
<1>1. PICK T : s \in Seq(T)
  BY DEF IsSeq
<1> DEFINE S == T \cup {x, y}
<1>2. s \in Seq(S) /\ x \in S /\ y \in S
  BY <1>1
<1> HIDE DEF S
<1> DEFINE u == <<x, y>> \o s
           v == <<y>> \o s
           w == <<x>> \o v
<1>3. /\ u \in Seq(S) /\ Len(u) = Len(s) + 2 /\ u[1] = x /\ u[2] = y
      /\ \A i \in 1 .. Len(s) : u[i + 2] = s[i]
  BY <1>2
<1>4. /\ v \in Seq(S) /\ Len(v) = Len(s) + 1 /\ v[1] = y
      /\ \A i \in 1 .. Len(s) : v[i + 1] = s[i]
  BY <1>2
<1> HIDE DEF v
<1>5. /\ w \in Seq(S) /\ Len(w) = Len(v) + 1 /\ w[1] = x
      /\ \A i \in 1 .. Len(v) : w[i + 1] = v[i]
  BY <1>2, <1>4
<1> HIDE DEF u, w
<1>6. Len(s) \in Nat /\ Len(u) = Len(w)
  BY <1>2, <1>3, <1>4, <1>5
<1>7. ASSUME NEW i \in 1 .. Len(u) PROVE u[i] = w[i]
  <2>1. CASE i = 1
    BY <1>3, <1>5, <2>1
  <2>2. CASE i = 2
    <3>1. 1 \in 1 .. Len(v) /\ w[1 + 1] = v[1]
      BY <1>4, <1>5, <1>6
    <3> QED
      BY <1>3, <1>4, <2>2, <3>1
  <2>3. CASE i # 1 /\ i # 2
    <3>1. i - 2 \in 1 .. Len(s) /\ (i - 2) + 2 = i /\ (i - 2) + 1 = i - 1
      BY <1>3, <1>6, <2>3
    <3>2. i - 1 \in 1 .. Len(v) /\ (i - 1) + 1 = i
      BY <1>4, <1>6, <3>1
    <3>3. u[i] = s[i - 2]
      BY <1>3, <3>1
    <3>4. v[i - 1] = s[i - 2]
      BY <1>4, <3>1
    <3>5. w[i] = v[i - 1]
      BY <1>5, <3>2
    <3> QED
      BY <3>3, <3>4, <3>5
  <2> QED
    BY <2>1, <2>2, <2>3
<1>8. u = w
  BY ONLY <1>3, <1>5, <1>6, <1>7
<1> QED
  BY <1>8 DEF u, v, w

LEMMA QuietStep == IndInv /\ Quiet => IndInv'
<1> SUFFICES ASSUME IndInv, Quiet PROVE Exact(stack', blocked)
  BY DEF IndInv, Quiet
<1>1. Exact(stack, blocked)
  BY DEF IndInv
<1>2. CASE stack' = stack
  BY <1>1, <1>2
<1>3. ASSUME NEW x, Plain(x), stack' = <<x>> \o stack PROVE Exact(stack', blocked)
  BY <1>1, <1>3, ExactPush
<1>4. CASE /\ stack # <<>> /\ Top.fn # "handler"
           /\ \/ stack' = Tail(stack)
              \/ \E x : Plain(x) /\ stack' = <<x>> \o Tail(stack)
              \/ \E x, y : Plain(x) /\ Plain(y) /\ stack' = <<x, y>> \o Tail(stack)
  <2>1. Exact(Tail(stack), blocked)
    BY <1>1, <1>4, ExactPop DEF Top
  <2>2. ASSUME NEW x, Plain(x), stack' = <<x>> \o Tail(stack) PROVE Exact(stack', blocked)
    BY <2>1, <2>2, ExactPush
  <2>3. ASSUME NEW x, NEW y, Plain(x), Plain(y), stack' = <<x, y>> \o Tail(stack)
        PROVE  Exact(stack', blocked)
    <3>1. PICK s : s = Tail(stack)
      OBVIOUS
    <3>2. Exact(s, blocked) /\ IsSeq(s)
      BY <2>1, <3>1 DEF Exact
    <3>3. Exact(<<x>> \o (<<y>> \o s), blocked)
      BY <2>3, <3>2, ExactPush
    <3> QED
      BY <2>3, <3>1, <3>2, <3>3, TwoAtOnce
  <2> QED
    BY <1>4, <2>1, <2>2, <2>3
<1> QED
  BY <1>2, <1>3, <1>4 DEF Quiet

\* The handler of an operation that is looked for is not at it already.
LEMMA HandlerFree ==
  ASSUME NEW op, NEW s, rep_get_file_handler(op, s) # NoHandler
  PROVE  ~Contains(blocked[op], rep_get_file_handler(op, s))
<1> DEFINE seen == IF throwing THEN 1 ELSE Len(Alist)
           fit == {i \in DOMAIN Alist : i <= seen /\ Matches(Alist[i], s) /\ ~Contains(blocked[op], Alist[i])}
<1>1. rep_get_file_handler(op, s) = IF fit = {} THEN NoHandler ELSE Alist[Min(fit)]
  BY DEF rep_get_file_handler
<1>2. DOMAIN Alist \subseteq Nat
  BY FilesAssumption
<1>3. fit \subseteq Nat /\ \A i \in fit : ~Contains(blocked[op], Alist[i])
  BY <1>2
<1> HIDE DEF fit
<1>4. fit # {} /\ rep_get_file_handler(op, s) = Alist[Min(fit)]
  BY <1>1
<1>5. Min(fit) \in fit
  BY <1>3, <1>4, MinIn
<1> QED
  BY <1>3, <1>4, <1>5

\* rep_call_file_handler(), over frames that agree with rep_blocked_ops[].
LEMMA CallStep ==
  ASSUME NEW below, NEW h, NEW op \in Op, NEW fr, rep_call_file_handler(below, h, op, fr),
         Exact(below, blocked), Framed(fr),
         op \in LookedUp => ~Contains(blocked[op], h)
  PROVE  IndInv'
<1>1. CASE throwing
  BY <1>1 DEF rep_call_file_handler, IndInv
<1>2. CASE ~throwing
  <2>1. PICK x : x = [fr EXCEPT !.fn = "handler", !.pc = op, !.h = h]
    OBVIOUS
  <2>2. Framed(x) /\ x.fn = "handler" /\ x.pc = op /\ x.h = h
    BY <2>1 DEF Framed
  <2>3. stack' = <<x>> \o below /\ blocked' = [blocked EXCEPT ![op] = <<x.h>> \o @]
    BY <1>2, <2>1, <2>2 DEF rep_call_file_handler
  <2>4. Exact(<<x>> \o below, [blocked EXCEPT ![op] = <<x.h>> \o @])
    BY <2>2, ExactCall
  <2> QED
    BY <2>3, <2>4 DEF IndInv
<1> QED
  BY <1>1, <1>2

\* The innermost frame.
LEMMA TopFacts ==
  ASSUME IndInv, stack # <<>>
  PROVE  /\ Framed(Top) /\ IsSeq(stack)
         /\ Top.fn # "handler" => Exact(Tail(stack), blocked) /\ Plain(Top)
<1>1. IsSeq(stack) /\ Exact(stack, blocked)
  BY DEF IndInv, Exact
<1>2. 1 \in DOMAIN stack
  BY <1>1, PopFacts, SeqFacts
<1>3. Framed(Top)
  BY <1>1, <1>2 DEF Exact, Top
<1> QED
  BY <1>1, <1>3, ExactPop DEF Top, Plain

\* A frame that has just been made, and one that has gone on.
LEMMA FramePlain ==
  ASSUME NEW fn, fn # "handler", NEW a, NEW b
  PROVE  Plain(Frame(fn, a, b)) /\ Frame(fn, a, b).fn = fn
  BY DEF Frame, Plain, Framed

LEMMA OpStrings == "handler" \notin Op /\ LookedUp \subseteq Op
  BY DEF Op, PlainOps, NameOps, LookedUp

----------------------------------------------------------------------------
(* Frames that go on *)

\* The innermost frame, which is no handler's, ends, goes on, or calls.
GoesOn ==
  \/ stack' = Tail(stack)
  \/ \E x : Plain(x) /\ stack' = <<x>> \o Tail(stack)
  \/ \E x, y : Plain(x) /\ Plain(y) /\ stack' = <<x, y>> \o Tail(stack)

LEMMA GoesOnStep ==
  ASSUME IndInv, stack # <<>>, Top.fn # "handler", GoesOn, blocked' = blocked
  PROVE  IndInv'
<1>1. Quiet
  BY DEF Quiet, GoesOn
<1> QED
  BY <1>1, QuietStep

LEMMA SameStep == ASSUME IndInv, stack' = stack, blocked' = blocked PROVE IndInv'
<1>1. Quiet
  BY DEF Quiet
<1> QED
  BY <1>1, QuietStep

LEMMA PushStep ==
  ASSUME IndInv, NEW x, Plain(x), stack' = <<x>> \o stack, blocked' = blocked
  PROVE  IndInv'
<1>1. Quiet
  BY DEF Quiet
<1> QED
  BY <1>1, QuietStep

LEMMA ReturnGoes == ASSUME NEW v, Return(v) PROVE GoesOn
  BY DEF Return, GoesOn

LEMMA EnterGoes ==
  ASSUME NEW fr, Plain(fr), NEW callee, Plain(callee), Enter(fr, callee)
  PROVE  GoesOn
  BY DEF Enter, GoesOn

LEMMA ResumeGoes == ASSUME NEW fr, Plain(fr), NEW v, Resume(fr, v) PROVE GoesOn
  BY DEF Resume, GoesOn

LEMMA ApplyGoes ==
  ASSUME NEW fr, Plain(fr), NEW pc, NEW buf, NEW chain, Apply(fr, pc, buf, chain)
  PROVE  GoesOn
<1>1. PICK x : x = [Frame("function", <<>>, <<>>) EXCEPT !.pc = pc, !.buf = buf, !.chain = chain]
  OBVIOUS
<1>2. Plain(x)
  BY <1>1, FramePlain DEF Plain, Framed
<1>3. stack' = <<x, fr>> \o Tail(stack)
  BY <1>1 DEF Apply
<1> QED
  BY <1>2, <1>3 DEF GoesOn

LEMMA GotoGoes == ASSUME NEW fr, Plain(fr), Goto(fr) PROVE GoesOn
  BY DEF Goto, GoesOn

LEMMA GetcGoes == ASSUME NEW fr, Plain(fr), rep_stream_getc(fr) PROVE GoesOn
<1>1. (\E v : Resume(fr, v)) \/ (\E chain : Apply(fr, "get", <<>>, chain))
  BY DEF rep_stream_getc
<1> QED
  BY <1>1, ResumeGoes, ApplyGoes

LEMMA UngetcGoes == ASSUME NEW fr, Plain(fr), NEW c, rep_stream_ungetc(fr, c) PROVE GoesOn
<1>1. (\E v : Resume(fr, v)) \/ Apply(fr, "unget", <<c>>, {})
  BY DEF rep_stream_ungetc
<1> QED
  BY <1>1, ResumeGoes, ApplyGoes

LEMMA PutcGoes == ASSUME NEW fr, Plain(fr), NEW c, rep_stream_putc(fr, c) PROVE GoesOn
<1>1. (\E v : Resume(fr, v)) \/ (\E chain : Apply(fr, "put", <<c>>, chain))
  BY DEF rep_stream_putc, Puts
<1> QED
  BY <1>1, ResumeGoes, ApplyGoes

LEMMA PutsGoes == ASSUME NEW fr, Plain(fr), NEW data, rep_stream_puts(fr, data) PROVE GoesOn
<1>1. (\E v : Resume(fr, v)) \/ (\E chain : Apply(fr, "put", data, chain))
  BY DEF rep_stream_puts, Puts
<1> QED
  BY <1>1, ResumeGoes, ApplyGoes

LEMMA FinishGoes == ASSUME NEW v, NEW bytes, Finish(v, bytes) PROVE GoesOn
  BY ReturnGoes DEF Finish

LEMMA AbandonGoes == ASSUME Abandon PROVE GoesOn
  BY ReturnGoes DEF Abandon

LEMMA ExitGoes == ASSUME Exit PROVE GoesOn
  BY ReturnGoes DEF Exit

----------------------------------------------------------------------------
(* Calls *)

LEMMA CallPushes ==
  ASSUME IndInv, NEW op, op # "handler", NEW a, NEW b, Call(op, a, b)
  PROVE  IndInv'
<1>1. Plain(Frame(op, a, b))
  BY FramePlain
<1>2. stack' = <<Frame(op, a, b)>> \o stack /\ blocked' = blocked
  BY DEF Call
<1> QED
  BY <1>1, <1>2, PushStep

LEMMA NameCallsStep == ASSUME IndInv, NameCalls PROVE IndInv'
<1>1. PICK s \in program.names :
        \/ \E op \in LookedUp : \E b : Call(op, s, b)
        \/ \E stream, h : MakeFileFromStream(s, stream, h)
  BY DEF NameCalls, FileNameAbsolute, FileNameNondirectory, FileNameDirectory, FileNameAsDirectory,
         DirectoryFileName, ExpandFileName, LocalFileName, CanonicalFileName, DeleteFile, MakeDirectory,
         DeleteDirectory, FileReadable, FileWritable, FileExists, FileRegular, FileDirectory, FileSymlink,
         FileOwner, FileNlinks, FileSize, FileModes, FileModesAsString, FileModtime, DirectoryFiles,
         ReadSymlink, SetFileModes, MakeSymlink, RenameFile, CopyFile, OpenFile, LookedUp, PlainOps, NameOps
<1>2. ASSUME NEW op \in LookedUp, NEW b, Call(op, s, b) PROVE IndInv'
  <2>1. op # "handler"
    BY OpStrings
  <2> QED
    BY <1>2, <2>1, CallPushes
<1>3. ASSUME NEW stream, NEW h, MakeFileFromStream(s, stream, h) PROVE IndInv'
  <2>1. stack' = stack /\ blocked' = blocked
    BY <1>3 DEF MakeFileFromStream
  <2> QED
    BY <2>1, SameStep
<1> QED
  BY <1>1, <1>2, <1>3

LEMMA CallStreamStep == ASSUME IndInv, NEW fr, Plain(fr), CallStream(fr) PROVE IndInv'
<1>1. stack' = <<fr>> \o stack /\ blocked' = blocked
  BY DEF CallStream
<1> QED
  BY <1>1, PushStep

LEMMA InputPlain == ASSUME NEW fn, fn # "handler", NEW s, NEW n PROVE Plain(Input(fn, s, n))
  BY FramePlain DEF Input, Plain, Framed

LEMMA Puts1Plain == ASSUME NEW fn, fn # "handler", NEW d, NEW parts PROVE Plain(Puts1(fn, d, parts))
  BY FramePlain DEF Puts1, Plain, Framed

\* close-file, flush-file and seek-file ask the handler that the object has.
LEMMA ByObject == "close-file" \in Op \ LookedUp /\ "flush-file" \in Op \ LookedUp /\ "seek-file" \in Op \ LookedUp
  BY DEF Op, PlainOps, NameOps, LookedUp

LEMMA CloseFileStep == ASSUME IndInv, NEW f, CloseFile(f) PROVE IndInv'
<1>1. PICK fr : fr = [Frame("close-file", <<>>, <<>>) EXCEPT !.f = f]
  OBVIOUS
<1>2. Plain(fr) /\ Framed(fr)
  BY <1>1, FramePlain DEF Plain, Framed
<1>3. \/ stack' = stack /\ blocked' = blocked
      \/ rep_call_file_handler(<<fr>> \o stack, file[f].by, "close-file", fr)
  BY <1>1 DEF CloseFile
<1>4. CASE rep_call_file_handler(<<fr>> \o stack, file[f].by, "close-file", fr)
  <2>1. Exact(<<fr>> \o stack, blocked)
    BY <1>2, ExactPush DEF IndInv
  <2> QED
    BY <1>2, <1>4, <2>1, ByObject, CallStep
<1> QED
  BY <1>3, <1>4, SameStep

LEMMA FlushFileStep == ASSUME IndInv, NEW f, FlushFile(f) PROVE IndInv'
<1>1. PICK fr : fr = [Frame("flush-file", <<>>, <<>>) EXCEPT !.f = f]
  OBVIOUS
<1>2. Plain(fr) /\ Framed(fr)
  BY <1>1, FramePlain DEF Plain, Framed
<1>3. \/ stack' = stack /\ blocked' = blocked
      \/ rep_call_file_handler(<<fr>> \o stack, file[f].by, "flush-file", fr)
  BY <1>1 DEF FlushFile
<1>4. CASE rep_call_file_handler(<<fr>> \o stack, file[f].by, "flush-file", fr)
  <2>1. Exact(<<fr>> \o stack, blocked)
    BY <1>2, ExactPush DEF IndInv
  <2> QED
    BY <1>2, <1>4, <2>1, ByObject, CallStep
<1> QED
  BY <1>3, <1>4, SameStep

LEMMA SeekFileStep == ASSUME IndInv, NEW f, NEW where, NEW n, SeekFile(f, where, n) PROVE IndInv'
<1>1. PICK fr : fr = [Frame("seek-file", <<>>, <<>>) EXCEPT !.f = f]
  OBVIOUS
<1>2. Framed(fr)
  BY <1>1, FramePlain DEF Plain, Framed
<1>3. \/ stack' = stack /\ blocked' = blocked
      \/ rep_call_file_handler(stack, file[f].by, "seek-file", fr)
  BY <1>1 DEF SeekFile
<1>4. CASE rep_call_file_handler(stack, file[f].by, "seek-file", fr)
  BY <1>2, <1>4, ByObject, CallStep DEF IndInv
<1> QED
  BY <1>3, <1>4, SameStep

\* A function called from the event loop.
LEMMA InputReadyStep == ASSUME IndInv, NEW d, InputReady(d) PROVE IndInv'
<1>1. PICK x : /\ \E f : x = [Frame("input", <<>>, <<>>) EXCEPT !.f = f]
               /\ stack' = <<x>> /\ stack = <<>> /\ blocked' = blocked
  BY DEF InputReady
<1>2. Plain(x)
  BY <1>1, FramePlain DEF Plain, Framed
<1>3. stack' = <<x>> \o stack
  BY <1>1
<1> QED
  BY <1>1, <1>2, <1>3, PushStep

\* A handler, or a function that reads, comes to its end.
LEMMA EndsStep == ASSUME IndInv, stack # <<>>, NEW v, Ends(v) PROVE IndInv'
<1>1. stack' = Tail(stack)
  BY DEF Ends, Return
<1>2. CASE Top.fn = "handler"
  <2>1. blocked' = [blocked EXCEPT ![stack[1].pc] = Tail(@)]
    BY <1>2 DEF Ends, Top
  <2>2. Exact(Tail(stack), [blocked EXCEPT ![stack[1].pc] = Tail(@)])
    BY <1>2, ExactEnd DEF IndInv, Top
  <2> QED
    BY <1>1, <2>1, <2>2 DEF IndInv
<1>3. CASE Top.fn # "handler"
  <2>1. GoesOn /\ blocked' = blocked
    BY <1>1, <1>3 DEF Ends, GoesOn
  <2> QED
    BY <1>3, <2>1, GoesOnStep
<1> QED
  BY <1>2, <1>3

LEMMA FileCallsStep == ASSUME IndInv, FileCalls PROVE IndInv'
<1>1. CASE StdFile(1) \/ GarbageCollect \/ LispGets \/ (\E f \in held : Drop(f) \/ \E on \in BOOLEAN : SetInputHandler(f, on))
  <2>1. stack' = stack /\ blocked' = blocked
    BY <1>1 DEF StdFile, GarbageCollect, LispGets, Drop, SetInputHandler
  <2> QED
    BY <2>1, SameStep
<1>2. CASE \E f \in held : CloseFile(f) \/ FlushFile(f)
  BY <1>2, CloseFileStep, FlushFileStep
<1>3. CASE \E d \in Fd : InputReady(d)
  BY <1>3, InputReadyStep
<1>4. CASE LispThrows \/ LispReturns
  <2>1. stack # <<>> /\ \E v : Ends(v)
    BY <1>4 DEF LispThrows, LispReturns
  <2> QED
    BY <2>1, EndsStep
<1> QED
  BY <1>1, <1>2, <1>3, <1>4 DEF FileCalls

----------------------------------------------------------------------------
(* The C functions of files.c *)

\* A frame that has changed in other fields is still no handler's.
LEMMA StillPlain == ASSUME NEW fr, Plain(fr), NEW x, DOMAIN x = DOMAIN fr, x.fn = fr.fn PROVE Plain(x) /\ Framed(x)
  BY DEF Plain, Framed

\* The innermost function asks the handler it has found for its operation.
LEMMA AskedStep ==
  ASSUME IndInv, stack # <<>>, Top.fn # "handler", NEW op \in Op, NEW s, NEW fr, Framed(fr),
         rep_get_file_handler(op, s) # NoHandler,
         rep_call_file_handler(Tail(stack), rep_get_file_handler(op, s), op, fr)
  PROVE  IndInv'
<1>1. PICK h : h = rep_get_file_handler(op, s)
  OBVIOUS
<1>2. ~Contains(blocked[op], h)
  BY <1>1, HandlerFree
<1>3. Exact(Tail(stack), blocked)
  BY TopFacts
<1> QED
  BY <1>1, <1>2, <1>3, CallStep

LEMMA PlainStepStep == ASSUME IndInv, PlainStep PROVE IndInv'
<1>1. stack # <<>> /\ Top.fn \in Op /\ Top.fn # "handler" /\ Framed(Top)
  BY OpStrings, TopFacts DEF PlainStep, Op
<1>2. CASE rep_get_file_handler(Top.fn, Top.a) # NoHandler
  <2>1. rep_call_file_handler(Tail(stack), rep_get_file_handler(Top.fn, Top.a), Top.fn, Top)
    BY <1>2 DEF PlainStep
  <2> QED
    BY <1>1, <1>2, <2>1, AskedStep
<1>3. CASE rep_get_file_handler(Top.fn, Top.a) = NoHandler
  <2>1. GoesOn /\ blocked' = blocked
    BY <1>3, ReturnGoes DEF PlainStep
  <2> QED
    BY <1>1, <2>1, GoesOnStep
<1> QED
  BY <1>2, <1>3

LEMMA ExpandedStep ==
  ASSUME IndInv, stack # <<>>, Top.fn # "handler", NEW s, Expanded(s)
  PROVE  IndInv'
<1>1. "expand-file-name" \in Op
  BY DEF Op
<1>2. CASE rep_get_file_handler("expand-file-name", s) # NoHandler
  <2>1. PICK fr : fr = [Top EXCEPT !.a = s]
    OBVIOUS
  <2>2. Framed(fr)
    BY <2>1, TopFacts DEF Framed
  <2>3. rep_call_file_handler(Tail(stack), rep_get_file_handler("expand-file-name", s), "expand-file-name", fr)
    BY <1>2, <2>1 DEF Expanded
  <2> QED
    BY <1>1, <1>2, <2>2, <2>3, AskedStep
<1>3. CASE rep_get_file_handler("expand-file-name", s) = NoHandler
  <2>1. GoesOn /\ blocked' = blocked
    BY <1>3, ReturnGoes DEF Expanded
  <2> QED
    BY <2>1, GoesOnStep
<1> QED
  BY <1>2, <1>3

\* The innermost function calls another of files.c and waits for it.
LEMMA EntersStep ==
  ASSUME IndInv, stack # <<>>, Top.fn # "handler", NEW fr, DOMAIN fr = DOMAIN Top, fr.fn = Top.fn,
         NEW fn, fn # "handler", NEW a, NEW b, Enter(fr, Frame(fn, a, b)), blocked' = blocked
  PROVE  IndInv'
<1>1. Plain(fr) /\ Plain(Frame(fn, a, b))
  BY TopFacts, StillPlain, FramePlain
<1>2. GoesOn
  BY <1>1, EnterGoes
<1> QED
  BY <1>2, GoesOnStep

LEMMA ReturnsStep ==
  ASSUME IndInv, stack # <<>>, Top.fn # "handler", NEW v, Return(v), blocked' = blocked
  PROVE  IndInv'
  BY ReturnGoes, GoesOnStep

LEMMA ExpandStepStep == ASSUME IndInv, ExpandStep PROVE IndInv'
<1>1. stack # <<>> /\ Top.fn # "handler" /\ Framed(Top)
  BY TopFacts DEF ExpandStep, InC
<1>2. CASE Top.pc = "start" /\ Enter([Top EXCEPT !.pc = "absolute"], Frame("file-name-absolute?", Top.a, <<>>)) /\ blocked' = blocked
  <2>1. PICK fr : fr = [Top EXCEPT !.pc = "absolute"]
    OBVIOUS
  <2>2. DOMAIN fr = DOMAIN Top /\ fr.fn = Top.fn
    BY <1>1, <2>1 DEF Framed
  <2>3. Enter(fr, Frame("file-name-absolute?", Top.a, <<>>))
    BY <1>2, <2>1
  <2> QED
    BY <1>1, <1>2, <2>2, <2>3, EntersStep
<1>3. CASE Enter([Top EXCEPT !.pc = "directory"], Frame("file-name-as-directory", Default, <<>>)) /\ blocked' = blocked
  <2>1. PICK fr : fr = [Top EXCEPT !.pc = "directory"]
    OBVIOUS
  <2>2. DOMAIN fr = DOMAIN Top /\ fr.fn = Top.fn
    BY <1>1, <2>1 DEF Framed
  <2>3. Enter(fr, Frame("file-name-as-directory", Default, <<>>))
    BY <1>3, <2>1
  <2> QED
    BY <1>1, <1>3, <2>2, <2>3, EntersStep
<1>4. CASE \E s : Expanded(s)
  BY <1>1, <1>4, ExpandedStep
<1>5. CASE Return(Null) /\ blocked' = blocked
  BY <1>1, <1>5, ReturnsStep
<1> QED
  BY <1>2, <1>3, <1>4, <1>5 DEF ExpandStep

LEMMA NameStepStep == ASSUME IndInv, NameStep PROVE IndInv'
<1>1. stack # <<>> /\ Top.fn \in Op /\ Top.fn # "handler" /\ Framed(Top)
  BY OpStrings, TopFacts DEF NameStep, Op
<1>2. CASE Enter([Top EXCEPT !.pc = "expanded"], Frame("expand-file-name", Top.a, <<>>)) /\ blocked' = blocked
  <2>1. PICK fr : fr = [Top EXCEPT !.pc = "expanded"]
    OBVIOUS
  <2>2. DOMAIN fr = DOMAIN Top /\ fr.fn = Top.fn
    BY <1>1, <2>1 DEF Framed
  <2>3. Enter(fr, Frame("expand-file-name", Top.a, <<>>))
    BY <1>2, <2>1
  <2> QED
    BY <1>1, <1>2, <2>2, <2>3, EntersStep
<1>3. CASE /\ rep_get_file_handler(Top.fn, ret.v) # NoHandler
           /\ rep_call_file_handler(Tail(stack), rep_get_file_handler(Top.fn, ret.v), Top.fn, [Top EXCEPT !.a = ret.v])
  <2>1. PICK fr : fr = [Top EXCEPT !.a = ret.v]
    OBVIOUS
  <2>2. Framed(fr)
    BY <1>1, <2>1 DEF Framed
  <2>3. rep_call_file_handler(Tail(stack), rep_get_file_handler(Top.fn, ret.v), Top.fn, fr)
    BY <1>3, <2>1
  <2> QED
    BY <1>1, <1>3, <2>2, <2>3, AskedStep
<1>4. CASE (\E v : Return(v)) /\ blocked' = blocked
  BY <1>1, <1>4, ReturnsStep
<1> QED
  BY <1>2, <1>3, <1>4 DEF NameStep

LEMMA OpenStepStep == ASSUME IndInv, OpenStep PROVE IndInv'
<1>1. stack # <<>> /\ Top.fn # "handler" /\ Framed(Top) /\ Plain(Top) /\ Exact(Tail(stack), blocked)
  BY TopFacts DEF OpenStep, InC
<1>2. CASE Enter([Top EXCEPT !.pc = "expanded"], Frame("expand-file-name", Top.a, <<>>)) /\ blocked' = blocked
  <2>1. PICK fr : fr = [Top EXCEPT !.pc = "expanded"]
    OBVIOUS
  <2>2. DOMAIN fr = DOMAIN Top /\ fr.fn = Top.fn
    BY <1>1, <2>1 DEF Framed
  <2>3. Enter(fr, Frame("expand-file-name", Top.a, <<>>))
    BY <1>2, <2>1
  <2> QED
    BY <1>1, <1>2, <2>2, <2>3, EntersStep
<1>3. PICK fr : fr = [Top EXCEPT !.a = ret.v, !.pc = "opened"]
  OBVIOUS
<1>4. CASE /\ rep_get_file_handler("open-file", ret.v) # NoHandler
           /\ rep_call_file_handler(<<fr>> \o Tail(stack), rep_get_file_handler("open-file", ret.v), "open-file", fr)
  <2>1. DOMAIN fr = DOMAIN Top /\ fr.fn = Top.fn
    BY <1>1, <1>3 DEF Framed
  <2>2. Plain(fr) /\ Framed(fr)
    BY <1>1, <2>1, StillPlain
  <2>3. Exact(<<fr>> \o Tail(stack), blocked)
    BY <1>1, <2>2, ExactPush
  <2>4. PICK h : h = rep_get_file_handler("open-file", ret.v)
    OBVIOUS
  <2>5. ~Contains(blocked["open-file"], h) /\ "open-file" \in Op
    BY <1>4, <2>4, HandlerFree DEF Op
  <2> QED
    BY <1>4, <2>2, <2>3, <2>4, <2>5, CallStep
<1>5. CASE (\E v : Return(v)) /\ blocked' = blocked
  BY <1>1, <1>5, ReturnsStep
<1> QED
  BY <1>2, <1>3, <1>4, <1>5 DEF OpenStep, Fopen

\* The halves of a copy are not looked for: the handler is the one of copy-file.
LEMMA Halves == "copy-file-to-local-fs" \in Op \ LookedUp /\ "copy-file-from-local-fs" \in Op \ LookedUp
  BY DEF Op, PlainOps, NameOps, LookedUp

\* rename-file and copy-file once the second handler G has been looked for.
LEMMA BothStep ==
  ASSUME IndInv, stack # <<>>, Top.fn \in {"rename-file", "copy-file"},
         NEW fr, DOMAIN fr = DOMAIN Top, fr.fn = Top.fn, fr.g = Found(Top.fn, ret), Both(fr)
  PROVE  IndInv'
<1>1. Top.fn # "handler" /\ Exact(Tail(stack), blocked) /\ fr.fn \in Op
  BY TopFacts DEF Op
<1>2. Plain(fr) /\ Framed(fr)
  BY <1>1, TopFacts, StillPlain
<1>3. PICK half : half = [fr EXCEPT !.pc = "half"]
  OBVIOUS
<1>4. PICK whole : whole = [fr EXCEPT !.b = Temp]
  OBVIOUS
<1>5. Plain(half) /\ Framed(whole)
  BY <1>2, <1>3, <1>4 DEF Plain, Framed
<1>6. CASE (\E v : Return(v)) /\ blocked' = blocked
  BY <1>1, <1>6, ReturnsStep
<1>7. CASE fr.g # "0" /\ fr.h = fr.g /\ fr.h \in Handler /\ rep_call_file_handler(Tail(stack), fr.h, fr.fn, fr)
  <2>1. fr.g = rep_get_file_handler(Top.fn, ret.v) /\ fr.g # NoHandler
    BY <1>7, FilesAssumption DEF Found
  <2>2. PICK h : h = rep_get_file_handler(Top.fn, ret.v)
    OBVIOUS
  <2>3. ~Contains(blocked[Top.fn], h)
    BY <2>1, <2>2, HandlerFree
  <2>4. rep_call_file_handler(Tail(stack), h, Top.fn, fr) /\ Top.fn \in Op
    BY <1>1, <1>7, <2>1, <2>2
  <2> QED
    BY <1>1, <1>2, <2>3, <2>4, CallStep
<1>8. CASE rep_call_file_handler(Tail(stack), fr.g, "copy-file-from-local-fs", fr)
  BY <1>1, <1>2, <1>8, Halves, CallStep
<1>9. CASE rep_call_file_handler(Tail(stack), fr.h, "copy-file-to-local-fs", fr)
  BY <1>1, <1>2, <1>9, Halves, CallStep
<1>10. CASE rep_call_file_handler(<<half>> \o Tail(stack), fr.h, "copy-file-to-local-fs", whole)
  <2>1. Exact(<<half>> \o Tail(stack), blocked)
    BY <1>1, <1>5, ExactPush
  <2> QED
    BY <1>5, <1>10, <2>1, Halves, CallStep
<1>11. CASE fr.h = "0" \/ fr.g = "0"
  BY <1>6, <1>11 DEF Both
<1>12. CASE fr.h # "0" /\ fr.g # "0" /\ fr.h = NoHandler /\ fr.g = NoHandler
  <2>1. (\E v : Return(v)) /\ blocked' = blocked
    BY <1>12, FilesAssumption DEF Both
  <2> QED
    BY <1>6, <2>1
<1>13. CASE fr.h # "0" /\ fr.g # "0" /\ ~(fr.h = NoHandler /\ fr.g = NoHandler) /\ fr.h = fr.g /\ fr.h \in Handler
  <2>1. rep_call_file_handler(Tail(stack), fr.h, fr.fn, fr)
    BY <1>13, FilesAssumption DEF Both
  <2> QED
    BY <1>7, <1>13, <2>1
<1>14. CASE fr.h # "0" /\ fr.g # "0" /\ ~(fr.h = NoHandler /\ fr.g = NoHandler) /\ ~(fr.h = fr.g /\ fr.h \in Handler)
  <2>1. \/ (\E v : Return(v)) /\ blocked' = blocked
        \/ rep_call_file_handler(Tail(stack), fr.g, "copy-file-from-local-fs", fr)
        \/ rep_call_file_handler(Tail(stack), fr.h, "copy-file-to-local-fs", fr)
        \/ rep_call_file_handler(<<half>> \o Tail(stack), fr.h, "copy-file-to-local-fs", whole)
    BY <1>3, <1>4, <1>14, FilesAssumption DEF Both
  <2> QED
    BY <1>6, <1>8, <1>9, <1>10, <2>1
<1> QED
  BY <1>11, <1>12, <1>13, <1>14

LEMMA RemoteStepStep ==
  ASSUME IndInv, stack # <<>>, Top.fn # "handler", RemoteStep
  PROVE  IndInv'
<1>1. PICK done : done = [Top EXCEPT !.pc = "done"]
  OBVIOUS
<1>2. PICK whole : whole = [Top EXCEPT !.a = Temp]
  OBVIOUS
<1>3. Plain(done) /\ Framed(whole)
  BY <1>1, <1>2, TopFacts DEF Plain, Framed
<1>4. CASE (\E v : Return(v)) /\ blocked' = blocked
  BY <1>4, ReturnsStep
<1>5. CASE rep_call_file_handler(<<done>> \o Tail(stack), Top.g, "copy-file-from-local-fs", whole)
  <2>1. Exact(<<done>> \o Tail(stack), blocked)
    BY <1>3, TopFacts, ExactPush
  <2> QED
    BY <1>3, <1>5, <2>1, Halves, CallStep
<1> QED
  BY <1>1, <1>2, <1>4, <1>5 DEF RemoteStep

LEMMA TwoNameStepStep == ASSUME IndInv, TwoNameStep PROVE IndInv'
<1>1. stack # <<>> /\ Top.fn \in {"rename-file", "copy-file"} /\ Top.fn # "handler" /\ Framed(Top)
  BY TopFacts DEF TwoNameStep
<1>2. PICK first : first = [Top EXCEPT !.pc = "local-b", !.a = NewName(ret, @), !.h = Found(Top.fn, ret)]
  OBVIOUS
<1>3. PICK second : second = [Top EXCEPT !.b = NewName(ret, @), !.g = Found(Top.fn, ret)]
  OBVIOUS
<1>4. DOMAIN first = DOMAIN Top /\ first.fn = Top.fn
  BY <1>1, <1>2 DEF Framed
<1>5. DOMAIN second = DOMAIN Top /\ second.fn = Top.fn
  BY <1>1, <1>3 DEF Framed
<1>6. CASE \E fr, fn, a : /\ DOMAIN fr = DOMAIN Top /\ fr.fn = Top.fn /\ fn # "handler"
                          /\ Enter(fr, Frame(fn, a, <<>>)) /\ blocked' = blocked
  BY <1>1, <1>6, EntersStep
<1>7. CASE \E pc : Enter([Top EXCEPT !.pc = pc], Frame("expand-file-name", Top.a, <<>>)) /\ blocked' = blocked
  <2>1. PICK pc : Enter([Top EXCEPT !.pc = pc], Frame("expand-file-name", Top.a, <<>>)) /\ blocked' = blocked
    BY <1>7
  <2>2. DOMAIN [Top EXCEPT !.pc = pc] = DOMAIN Top /\ [Top EXCEPT !.pc = pc].fn = Top.fn
    BY <1>1 DEF Framed
  <2> QED
    BY <1>6, <2>1, <2>2
<1>8. CASE \E pc : Enter([Top EXCEPT !.pc = pc], Frame("expand-file-name", Top.b, <<>>)) /\ blocked' = blocked
  <2>1. PICK pc : Enter([Top EXCEPT !.pc = pc], Frame("expand-file-name", Top.b, <<>>)) /\ blocked' = blocked
    BY <1>8
  <2>2. DOMAIN [Top EXCEPT !.pc = pc] = DOMAIN Top /\ [Top EXCEPT !.pc = pc].fn = Top.fn
    BY <1>1 DEF Framed
  <2> QED
    BY <1>6, <2>1, <2>2
<1>9. CASE \E pc : Enter([Top EXCEPT !.pc = pc], Frame("local-file-name", Top.a, <<>>)) /\ blocked' = blocked
  <2>1. PICK pc : Enter([Top EXCEPT !.pc = pc], Frame("local-file-name", Top.a, <<>>)) /\ blocked' = blocked
    BY <1>9
  <2>2. DOMAIN [Top EXCEPT !.pc = pc] = DOMAIN Top /\ [Top EXCEPT !.pc = pc].fn = Top.fn
    BY <1>1 DEF Framed
  <2> QED
    BY <1>6, <2>1, <2>2
<1>10. CASE Enter(first, Frame("local-file-name", Top.b, <<>>)) /\ blocked' = blocked
  BY <1>4, <1>6, <1>10
<1>11. CASE Both(second)
  <2>1. second.g = Found(Top.fn, ret)
    BY <1>1, <1>3 DEF Framed
  <2> QED
    BY <1>1, <1>5, <1>11, <2>1, BothStep
<1>12. CASE RemoteStep
  BY <1>1, <1>12, RemoteStepStep
<1> QED
  BY <1>2, <1>3, <1>7, <1>8, <1>9, <1>10, <1>11, <1>12 DEF TwoNameStep

LEMMA FileStepsStep == ASSUME IndInv, FileSteps PROVE IndInv'
<1>1. CASE CloseStep \/ FlushStep
  <2>1. stack # <<>> /\ Top.fn # "handler" /\ (\E v : Return(v)) /\ blocked' = blocked
    BY <1>1 DEF CloseStep, FlushStep, InC
  <2> QED
    BY <2>1, ReturnsStep
<1> QED
  BY <1>1, PlainStepStep, ExpandStepStep, NameStepStep, TwoNameStepStep, OpenStepStep DEF FileSteps

----------------------------------------------------------------------------
(* Streams *)

LEMMA FramesPlain ==
  ASSUME NEW d, NEW items, NEW args, NEW s
  PROVE  /\ Plain([Input("copy-stream", s, 0) EXCEPT !.d = d])
         /\ Plain([Frame("format", items, args) EXCEPT !.d = IF d = "nil" THEN "fmt" ELSE d, !.n = 1, !.arg = 1,
                                                       !.pc = "next"])
<1>1. Plain([Input("copy-stream", s, 0) EXCEPT !.d = d])
  BY InputPlain DEF Plain, Framed
<1>2. PICK x : x = Frame("format", items, args)
  OBVIOUS
<1>3. Plain(x)
  BY <1>2, FramePlain
<1>4. Plain([x EXCEPT !.d = IF d = "nil" THEN "fmt" ELSE d, !.n = 1, !.arg = 1, !.pc = "next"])
  BY <1>3 DEF Plain, Framed
<1> QED
  BY <1>1, <1>2, <1>4

LEMMA StreamCallsStep == ASSUME IndInv, StreamCalls PROVE IndInv'
<1>1. CASE \E fr : Plain(fr) /\ CallStream(fr)
  BY <1>1, CallStreamStep
<1>2. CASE \E s \in Sources : ReadByte(s) \/ PeekByte(s) \/ ReadChar(s) \/ ReadLine(s) \/ \E n \in 0 .. 2 : ReadBytes(s, n)
  BY <1>1, <1>2, InputPlain DEF ReadByte, PeekByte, ReadChar, ReadLine, ReadBytes
<1>3. CASE \E s \in Sources : \E d \in Sinks : CopyStream(s, d)
  BY <1>1, <1>3, FramesPlain DEF CopyStream
<1>4. CASE \/ \E d \in Sinks, s \in Written : ByteWrite(d, s) \/ PrintOn(d, s) \/ Princ(d, s)
           \/ \E d \in Sinks, c \in Chars : WriteChar(d, c)
  BY <1>1, <1>4, Puts1Plain DEF ByteWrite, PrintOn, Princ, WriteChar
<1>5. CASE \E d \in Sinks, x \in Formats : Format(d, x[1], x[2])
  BY <1>1, <1>5, FramesPlain DEF Format
<1>6. CASE GetOutputStreamString \/ \E f \in held, on \in BOOLEAN : SetFileIgnoreErrors(f, on)
  <2>1. stack' = stack /\ blocked' = blocked
    BY <1>6 DEF GetOutputStreamString, SetFileIgnoreErrors
  <2> QED
    BY <2>1, SameStep
<1>7. CASE \E f \in held, where \in {"start", "end", "here"}, n \in {-1, 0, 1} : SeekFile(f, where, n)
  BY <1>7, SeekFileStep
<1> QED
  BY <1>2, <1>3, <1>4, <1>5, <1>6, <1>7 DEF StreamCalls

\* What a frame may be changed in as it reads and writes.
LEMMA Changed ==
  ASSUME NEW fr, Plain(fr), NEW pc, NEW buf, NEW n, NEW arg
  PROVE  /\ Plain([fr EXCEPT !.pc = pc])
         /\ Plain([fr EXCEPT !.buf = buf])
         /\ Plain([fr EXCEPT !.pc = pc, !.buf = buf])
         /\ Plain([fr EXCEPT !.buf = buf, !.pc = pc])
         /\ Plain([fr EXCEPT !.pc = pc, !.buf = buf, !.n = n])
         /\ Plain([fr EXCEPT !.pc = pc, !.arg = arg])
         /\ Plain([fr EXCEPT !.pc = pc, !.buf = buf, !.n = n, !.arg = arg])
         /\ Plain([fr EXCEPT !.pc = pc, !.n = n, !.arg = arg, !.buf = buf])
  BY DEF Plain, Framed

LEMMA GotByteGoes ==
  ASSUME NEW c, Plain(Top), GotByte(c), Top.fn \in {"read-byte", "peek-byte", "read-char", "read-bytes", "read-line"}
  PROVE  GoesOn
<1>1. PICK buf : buf = Append(Top.buf, c)
  OBVIOUS
<1>2. PICK back : back = [Top EXCEPT !.pc = "back", !.buf = buf]
  OBVIOUS
<1>3. PICK again : again = [Top EXCEPT !.buf = buf, !.pc = "get"]
  OBVIOUS
<1>4. Plain(back) /\ Plain(again)
  BY <1>2, <1>3, Changed
<1>5. \/ \E v : Finish(v, buf)
      \/ rep_stream_ungetc(back, c)
      \/ Resume(again, NoValue)
  BY <1>1, <1>2, <1>3 DEF GotByte
<1> QED
  BY <1>4, <1>5, FinishGoes, UngetcGoes, ResumeGoes

LEMMA ReadStepStep == ASSUME IndInv, ReadStep PROVE IndInv'
<1>1. stack # <<>> /\ Top.fn # "handler" /\ Plain(Top) /\ blocked' = blocked
  BY TopFacts DEF ReadStep, Elsewhere
<1>2. PICK got : got = [Top EXCEPT !.pc = "got"]
  OBVIOUS
<1>3. Plain(got)
  BY <1>1, <1>2, Changed
<1>4. (\E v, bytes : Finish(v, bytes)) \/ rep_stream_getc(got) \/ (\E c : GotByte(c))
  BY <1>2 DEF ReadStep, LocalRead, GotEof
<1>5. GoesOn
  BY <1>1, <1>3, <1>4, FinishGoes, GetcGoes, GotByteGoes DEF ReadStep
<1> QED
  BY <1>1, <1>5, GoesOnStep

LEMMA CopyStepStep == ASSUME IndInv, CopyStep PROVE IndInv'
<1>1. stack # <<>> /\ Top.fn # "handler" /\ Plain(Top) /\ blocked' = blocked
  BY TopFacts DEF CopyStep, Elsewhere, InC
<1>2. PICK got : got = [Top EXCEPT !.pc = "got"]
  OBVIOUS
<1>3. PICK done : done = [Top EXCEPT !.pc = "done"]
  OBVIOUS
<1>4. PICK put : put = [Top EXCEPT !.pc = "put", !.buf = <<ret.v>>, !.n = @ + 1]
  OBVIOUS
<1>5. PICK more : more = [Top EXCEPT !.pc = "get", !.buf = Append(@, ret.v), !.n = @ + 1]
  OBVIOUS
<1>6. PICK get : get = [Top EXCEPT !.pc = "get"]
  OBVIOUS
<1>7. Plain(got) /\ Plain(done) /\ Plain(get)
  BY <1>1, <1>2, <1>3, <1>6, Changed
<1>8. Plain(put) /\ Plain(more)
  BY <1>1, <1>4, <1>5, Changed
<1>9. CASE Top.pc \in {"start", "get"} /\ ret = NoValue
  <2>1. rep_stream_getc(got)
    BY <1>2, <1>9 DEF CopyStep
  <2> QED
    BY <1>1, <1>7, <2>1, GetcGoes, GoesOnStep
<1>10. CASE Top.pc = "got"
  <2>1. \/ rep_stream_puts(done, Top.buf) \/ rep_stream_puts(put, Top.buf)
        \/ Abandon \/ Resume(more, NoValue)
    BY <1>3, <1>4, <1>5, <1>10 DEF CopyStep
  <2> QED
    BY <1>1, <1>7, <1>8, <2>1, PutsGoes, AbandonGoes, ResumeGoes, GoesOnStep
<1>11. CASE Top.pc = "put" \/ Top.pc = "done"
  <2>1. Abandon \/ Resume(get, NoValue) \/ Finish(IntV(Top.n), <<>>)
    BY <1>6, <1>11 DEF CopyStep
  <2> QED
    BY <1>1, <1>7, <2>1, FinishGoes, AbandonGoes, ResumeGoes, GoesOnStep
<1> QED
  BY <1>9, <1>10, <1>11 DEF CopyStep

LEMMA WriteStepStep == ASSUME IndInv, WriteStep PROVE IndInv'
<1>1. stack # <<>> /\ Top.fn # "handler" /\ Plain(Top) /\ blocked' = blocked
  BY TopFacts DEF WriteStep, Elsewhere
<1>2. PICK fr : fr = [Top EXCEPT !.buf = Tail(@), !.pc = "put"]
  OBVIOUS
<1>3. Plain(fr)
  BY <1>1, <1>2, Changed
<1>4. \/ rep_stream_putc(fr, Top.buf[1][1]) \/ rep_stream_puts(fr, Top.buf[1])
      \/ \E v : Finish(v, <<>>)
  BY <1>2 DEF WriteStep
<1>5. GoesOn
  BY <1>3, <1>4, PutcGoes, PutsGoes, FinishGoes
<1> QED
  BY <1>1, <1>5, GoesOnStep

LEMMA NextItemGoes == ASSUME Plain(Top), NextItem PROVE GoesOn
<1> DEFINE it == Top.a[Top.n]
           arg == IF it.pos > 0 THEN it.pos ELSE Top.arg
<1>1. PICK literal : literal = [Top EXCEPT !.pc = "literal", !.buf = <<it.raw>>, !.n = @ + 1]
  OBVIOUS
<1>2. PICK percent : percent = [Top EXCEPT !.pc = "converted", !.buf = <<<<37>>>>, !.n = @ + 1]
  OBVIOUS
<1>3. PICK hooked : hooked = [Top EXCEPT !.pc = "hooked", !.arg = arg]
  OBVIOUS
<1>4. PICK to : to = [Top EXCEPT !.pc = "converted", !.buf = Converted(it, Top.b[arg]), !.n = @ + 1, !.arg = arg + 1]
  OBVIOUS
<1>5. Plain(literal) /\ Plain(percent)
  BY <1>1, <1>2, Changed
<1>6. Plain(hooked) /\ Plain(to)
  BY <1>3, <1>4, Changed
<1>7. \/ \E v : Return(v)
      \/ Goto(literal) \/ Goto(percent) \/ Exit
      \/ Apply(hooked, "hook", <<>>, {}) \/ Goto(to)
  BY <1>1, <1>2, <1>3, <1>4 DEF NextItem
<1> QED
  BY <1>5, <1>6, <1>7, ReturnGoes, GotoGoes, ExitGoes, ApplyGoes

LEMMA FormatStepStep == ASSUME IndInv, FormatStep PROVE IndInv'
<1>1. stack # <<>> /\ Top.fn # "handler" /\ Plain(Top) /\ blocked' = blocked
  BY TopFacts DEF FormatStep, Elsewhere, InC
<1>2. CASE Top.pc = "next"
  <2>1. NextItem
    BY <1>2 DEF FormatStep
  <2> QED
    BY <1>1, <2>1, NextItemGoes, GoesOnStep
<1>3. CASE Top.pc = "hooked"
  <2>1. PICK fr : fr = [Top EXCEPT !.pc = "converted", !.n = @ + 1, !.arg = @ + 1,
                                   !.buf = Converted(Top.a[Top.n], [k |-> "string", text |-> ret.v])]
    OBVIOUS
  <2>2. Plain(fr)
    BY <1>1, <2>1, Changed
  <2>3. Exit \/ Goto(fr)
    BY <1>3, <2>1 DEF FormatStep
  <2> QED
    BY <1>1, <2>2, <2>3, ExitGoes, GotoGoes, GoesOnStep
<1>4. CASE Top.pc \in {"literal", "converted", "tail"}
  <2>1. PICK rest : rest = [Top EXCEPT !.buf = Tail(@)]
    OBVIOUS
  <2>2. PICK next : next = [Top EXCEPT !.pc = "next"]
    OBVIOUS
  <2>3. PICK tail : tail = [Top EXCEPT !.pc = "tail", !.buf = <<RawFrom(Top.a, Top.n)>>]
    OBVIOUS
  <2>4. Plain(rest) /\ Plain(next) /\ Plain(tail)
    BY <1>1, <2>1, <2>2, <2>3, Changed
  <2>5. rep_stream_puts(rest, Top.buf[1]) \/ Goto(next) \/ Goto(tail) \/ Exit
    BY <1>4, <2>1, <2>2, <2>3 DEF FormatStep
  <2> QED
    BY <1>1, <2>4, <2>5, PutsGoes, GotoGoes, ExitGoes, GoesOnStep
<1> QED
  BY <1>2, <1>3, <1>4 DEF FormatStep

LEMMA StreamStepsStep == ASSUME IndInv, StreamSteps PROVE IndInv'
<1>1. CASE LispFunctionReturns \/ LispFunctionThrows
  <2>1. stack # <<>> /\ Top.fn # "handler" /\ (\E v : Return(v)) /\ blocked' = blocked
    BY <1>1 DEF LispFunctionReturns, LispFunctionThrows, Elsewhere
  <2> QED
    BY <2>1, ReturnsStep
<1> QED
  BY <1>1, ReadStepStep, CopyStepStep, WriteStepStep, FormatStepStep DEF StreamSteps

----------------------------------------------------------------------------
(* The theorem *)

LEMMA InitInv == Init => IndInv
<1> SUFFICES ASSUME Init PROVE Exact(<<>>, blocked)
  BY DEF Init, IndInv
<1>1. blocked = [op \in Op |-> <<>>]
  BY DEF Init
<1>2. ASSUME NEW op \in Op PROVE Lists(<<>>, <<>>, op) /\ IsInjective(<<>>)
  <2>1. DOMAIN <<>> = {}
    BY NothingIsSeq, SeqFacts
  <2>2. Enumerates(<<>>, <<>>, <<>>, op)
    BY <2>1 DEF Enumerates
  <2> QED
    BY <2>1, <2>2, Enumerated DEF IsInjective
<1> QED
  BY <1>1, <1>2, NothingIsSeq, SeqFacts DEF Exact

\* rep_blocked_ops[] is at every moment exactly what is in progress, for every
\* *file-handler-alist*, whatever handlers and functions call, return, throw or
\* leave uncaught, however deep they call each other: it names, for each
\* operation, the handlers that are at it, the innermost first, and none twice
\* for an operation on a name.
THEOREM BlockedIsExact == Spec => []BlockedExact
<1>1. Init => IndInv
  BY InitInv
<1>2. IndInv /\ [Next]_<<filesVars, streamsVars>> => IndInv'
  <2> SUFFICES ASSUME IndInv, [Next]_<<filesVars, streamsVars>> PROVE IndInv'
    OBVIOUS
  <2>1. CASE Next
    BY <2>1, NameCallsStep, FileCallsStep, FileStepsStep, StreamCallsStep, StreamStepsStep DEF Next
  <2>2. CASE UNCHANGED <<filesVars, streamsVars>>
    BY <2>2, SameStep DEF filesVars
  <2> QED
    BY <2>1, <2>2
<1>3. IndInv => BlockedExact
  BY DEF IndInv, Exact, BlockedExact
<1> QED
  BY <1>1, <1>2, <1>3, PTL DEF Spec

----------------------------------------------------------------------------
(* Who owns what *)

\* Every input handler watches the C file of its object, and no C file has two.
Watched(fl, inp) ==
  /\ IsSeq(inp)
  /\ \A i \in DOMAIN inp :
       /\ {"fd", "f"} \subseteq DOMAIN inp[i]
       /\ inp[i].f \in File
       /\ fl[inp[i].f].state = "live" /\ fl[inp[i].f].handler = "t" /\ fl[inp[i].f].fd = inp[i].fd
  /\ \A i, j \in DOMAIN inp : inp[i].fd = inp[j].fd => i = j

\* What is in use is live.
Alive(fl, x) == x \in File => fl[x].state = "live"
HeldAlive(fl, hd) == \A f \in hd : f \in File /\ fl[f].state = "live"
RetAlive(fl, r) == r.k = "file" => r.v \in File /\ fl[r.v].state = "live"

\* A frame; one of close-file or flush-file has a file object, one of open-file
\* a mode.
FrameFields == {"fn", "pc", "a", "b", "h", "g", "f", "s", "d", "buf", "n", "arg", "chain"}
Proper(fl, fr) ==
  /\ FrameFields \subseteq DOMAIN fr
  /\ Alive(fl, fr.f) /\ Alive(fl, fr.s) /\ Alive(fl, fr.d)
  /\ fr.fn # "function" => fr.chain = {}
  /\ fr.fn \in {"close-file", "flush-file"} => fr.f \in File
  /\ fr.fn = "close-file" => fl[fr.f].handler # "t"
  /\ fr.fn = "open-file" => fr.b \in OpenModes

\* A function is called by a frame that has the files on the way to it.
Over(fr, below) == fr.fn = "function" => fr.chain \cap File \subseteq {below.s, below.d}
Framework(fl, s) ==
  /\ IsSeq(s)
  /\ \A i \in DOMAIN s : Proper(fl, s[i])
  /\ \A i \in DOMAIN s : s[i].fn = "function" => i + 1 \in DOMAIN s /\ Over(s[i], s[i + 1])

\* The inductive invariant.
OwnInv ==
  /\ Sound(file, fh)
  /\ Watched(file, inputs)
  /\ HeldAlive(file, held)
  /\ RetAlive(file, ret)
  /\ Framework(file, stack)

LEMMA FrameworkPush ==
  ASSUME NEW fl, NEW s, Framework(fl, s), NEW x, Proper(fl, x), x.fn # "function"
  PROVE  Framework(fl, <<x>> \o s)
<1>1. IsSeq(s) /\ DOMAIN s = 1 .. Len(s) /\ Len(s) \in Nat
  BY SeqFacts DEF Framework
<1>2. PICK t : t = <<x>> \o s
  OBVIOUS
<1>3. /\ IsSeq(t) /\ DOMAIN t = 1 .. Len(s) + 1 /\ t[1] = x
      /\ \A i \in 1 .. Len(s) : t[i + 1] = s[i]
  <2>1. IsSeq(t) /\ Len(t) = Len(s) + 1 /\ t[1] = x /\ \A i \in 1 .. Len(s) : t[i + 1] = s[i]
    BY ONLY <1>1, <1>2, PushFacts
  <2>2. DOMAIN t = 1 .. Len(t)
    BY <2>1, SeqFacts
  <2> QED
    BY ONLY <2>1, <2>2
<1>4. ASSUME NEW i \in DOMAIN t, i # 1
      PROVE  i - 1 \in DOMAIN s /\ t[i] = s[i - 1] /\ i \in Nat
  BY <1>1, <1>3, <1>4
<1>5. ASSUME NEW i \in DOMAIN t PROVE Proper(fl, t[i])
  BY <1>3, <1>4 DEF Framework
<1>6. ASSUME NEW i \in DOMAIN t, t[i].fn = "function"
      PROVE  i + 1 \in DOMAIN t /\ Over(t[i], t[i + 1])
  <2>1. i # 1
    BY <1>3, <1>6
  <2>2. i - 1 \in DOMAIN s /\ t[i] = s[i - 1] /\ i \in Nat
    BY <1>4, <2>1
  <2>3. (i - 1) + 1 \in DOMAIN s /\ Over(s[i - 1], s[(i - 1) + 1])
    BY <1>6, <2>2 DEF Framework
  <2>4. (i - 1) + 1 = i
    BY <2>2
  <2>5. i \in DOMAIN s /\ Over(s[i - 1], s[i])
    BY ONLY <2>3, <2>4
  <2>6. i + 1 \in DOMAIN t /\ t[i + 1] = s[i]
    BY <1>1, <1>3, <2>5
  <2> QED
    BY <2>2, <2>5, <2>6
<1>7. Framework(fl, t)
  BY <1>3, <1>5, <1>6 DEF Framework
<1> QED
  BY <1>2, <1>7

\* A function on top of the frame that calls it.
LEMMA FrameworkApply ==
  ASSUME NEW fl, NEW s, Framework(fl, s), NEW x, NEW y, Proper(fl, x), Proper(fl, y),
         y.fn # "function", Over(x, y)
  PROVE  Framework(fl, <<x, y>> \o s)
<1>1. PICK u : u = <<y>> \o s
  OBVIOUS
<1>2. Framework(fl, u)
  BY <1>1, FrameworkPush
<1>3. IsSeq(s) /\ <<x, y>> \o s = <<x>> \o u
  BY <1>1, TwoAtOnce DEF Framework
<1>4. IsSeq(u) /\ DOMAIN u = 1 .. Len(u) /\ Len(u) \in Nat /\ Len(u) >= 1 /\ u[1] = y
  <2>1. IsSeq(u) /\ Len(u) = Len(s) + 1 /\ u[1] = y
    BY <1>1, <1>3, PushFacts
  <2>2. Len(s) \in Nat /\ Len(u) \in Nat /\ DOMAIN u = 1 .. Len(u)
    BY <1>3, <2>1, SeqFacts
  <2> QED
    BY <2>1, <2>2
<1>5. PICK t : t = <<x>> \o u
  OBVIOUS
<1>6. /\ IsSeq(t) /\ DOMAIN t = 1 .. Len(u) + 1 /\ t[1] = x
      /\ \A i \in 1 .. Len(u) : t[i + 1] = u[i]
  <2>1. IsSeq(t) /\ Len(t) = Len(u) + 1 /\ t[1] = x /\ \A i \in 1 .. Len(u) : t[i + 1] = u[i]
    BY ONLY <1>4, <1>5, PushFacts
  <2>2. DOMAIN t = 1 .. Len(t)
    BY <2>1, SeqFacts
  <2> QED
    BY ONLY <2>1, <2>2
<1>7. ASSUME NEW i \in DOMAIN t, i # 1
      PROVE  i - 1 \in DOMAIN u /\ t[i] = u[i - 1] /\ i \in Nat
  BY <1>4, <1>6, <1>7
<1>8. ASSUME NEW i \in DOMAIN t PROVE Proper(fl, t[i])
  BY <1>2, <1>6, <1>7 DEF Framework
<1>9. ASSUME NEW i \in DOMAIN t, t[i].fn = "function"
      PROVE  i + 1 \in DOMAIN t /\ Over(t[i], t[i + 1])
  <2>1. CASE i = 1
    <3>1. 1 \in 1 .. Len(u) /\ 1 + 1 \in DOMAIN t /\ t[1 + 1] = u[1]
      BY <1>4, <1>6
    <3> QED
      BY <1>4, <1>6, <2>1, <3>1
  <2>2. CASE i # 1
    <3>1. i - 1 \in DOMAIN u /\ t[i] = u[i - 1] /\ i \in Nat
      BY <1>7, <2>2
    <3>2. (i - 1) + 1 \in DOMAIN u /\ Over(u[i - 1], u[(i - 1) + 1])
      BY <1>2, <1>9, <3>1 DEF Framework
    <3>3. (i - 1) + 1 = i
      BY <3>1
    <3>4. i \in DOMAIN u /\ Over(u[i - 1], u[i])
      BY ONLY <3>2, <3>3
    <3>5. i + 1 \in DOMAIN t /\ t[i + 1] = u[i]
      BY <1>4, <1>6, <3>4
    <3> QED
      BY <3>1, <3>4, <3>5
  <2> QED
    BY <2>1, <2>2
<1>10. Framework(fl, t)
  BY <1>6, <1>8, <1>9 DEF Framework
<1> QED
  BY <1>3, <1>5, <1>10

LEMMA FrameworkPop ==
  ASSUME NEW fl, NEW s, Framework(fl, s), s # <<>>
  PROVE  Framework(fl, Tail(s)) /\ Proper(fl, s[1])
<1>1. IsSeq(s) /\ DOMAIN s = 1 .. Len(s) /\ Len(s) \in Nat /\ Len(s) >= 1
  BY SeqFacts, PopFacts DEF Framework
<1>2. PICK t : t = Tail(s)
  OBVIOUS
<1>3. IsSeq(t) /\ DOMAIN t = 1 .. Len(s) - 1 /\ \A i \in 1 .. Len(s) - 1 : t[i] = s[i + 1]
  BY <1>1, <1>2, PopFacts, SeqFacts
<1>4. ASSUME NEW i \in DOMAIN t
      PROVE  i + 1 \in DOMAIN s /\ t[i] = s[i + 1] /\ i \in Nat
  BY <1>1, <1>3
<1>5. ASSUME NEW i \in DOMAIN t PROVE Proper(fl, t[i])
  BY <1>4 DEF Framework
<1>6. ASSUME NEW i \in DOMAIN t, t[i].fn = "function"
      PROVE  i + 1 \in DOMAIN t /\ Over(t[i], t[i + 1])
  <2>1. PICK j : j = i + 1
    OBVIOUS
  <2>2. j \in DOMAIN s /\ t[i] = s[j] /\ i \in Nat
    BY <1>4, <2>1
  <2>3. j + 1 \in DOMAIN s /\ Over(s[j], s[j + 1])
    BY <1>6, <2>2 DEF Framework
  <2>4. j \in DOMAIN t
    BY <1>1, <1>3, <2>1, <2>2, <2>3
  <2>5. t[j] = s[j + 1]
    BY <1>4, <2>4
  <2> QED
    BY <2>1, <2>2, <2>3, <2>4, <2>5
<1>7. Framework(fl, t)
  BY <1>3, <1>5, <1>6 DEF Framework
<1>8. Proper(fl, s[1])
  BY <1>1 DEF Framework
<1> QED
  BY <1>2, <1>7, <1>8

\* Objects and C files that have changed only in what does not matter here:
\* names, line numbers and flags, paths, positions and buffers.
Steady(fl, new) ==
  /\ DOMAIN new = File
  /\ \A f \in File : /\ DOMAIN Unbound \subseteq DOMAIN new[f]
                     /\ new[f].state = fl[f].state /\ new[f].handler = fl[f].handler /\ new[f].fd = fl[f].fd
                     /\ new[f].stream = fl[f].stream /\ new[f].std = fl[f].std
SteadyC(o, n) ==
  /\ DOMAIN n = Fd
  /\ \A d \in Fd : DOMAIN Closed \subseteq DOMAIN n[d] /\ n[d].mode = o[d].mode

\* Objects of which none has died or become local.
Survives(fl, new) ==
  \A f \in File : fl[f].state = "live" => new[f].state = "live" /\ (fl[f].handler # "t" => new[f].handler # "t")

LEMMA SteadySound ==
  ASSUME NEW fl, NEW o, Sound(fl, o), NEW new, Steady(fl, new), NEW n, SteadyC(o, n)
  PROVE  Sound(new, n)
<1>1. Typed(new, n)
  BY DEF Steady, SteadyC, Typed
<1>2. \A f \in File : OwnFile(new, f) <=> OwnFile(fl, f)
  BY DEF Steady, OwnFile
<1>3. Holds(new, n)
  <2> SUFFICES ASSUME NEW f \in File, new[f].state = "live"
               PROVE  /\ new[f].handler = "t" => /\ new[f].fd \in Fd
                                                 /\ new[f].stream = "nil"
                                                 /\ n[new[f].fd].mode \in IF new[f].std THEN {"device"} ELSE OpenModes
                      /\ new[f].std => new[f].handler = "t"
    BY DEF Holds
  <2>1. /\ new[f].state = fl[f].state /\ new[f].handler = fl[f].handler /\ new[f].fd = fl[f].fd
        /\ new[f].stream = fl[f].stream /\ new[f].std = fl[f].std
    BY DEF Steady
  <2>2. /\ fl[f].handler = "t" => /\ fl[f].fd \in Fd
                                  /\ fl[f].stream = "nil"
                                  /\ o[fl[f].fd].mode \in IF fl[f].std THEN {"device"} ELSE OpenModes
        /\ fl[f].std => fl[f].handler = "t"
    BY <2>1 DEF Sound, Holds
  <2>3. fl[f].fd \in Fd => n[fl[f].fd].mode = o[fl[f].fd].mode
    BY DEF SteadyC
  <2> QED
    BY <2>1, <2>2, <2>3
<1>4. Alone(new)
  <2> SUFFICES ASSUME NEW f \in File, NEW g \in File, OwnFile(new, f), OwnFile(new, g), new[f].fd = new[g].fd
               PROVE  f = g
    BY DEF Alone
  <2>1. fl[f].fd = fl[g].fd
    BY DEF Steady
  <2> QED
    BY <1>2, <2>1 DEF Sound, Alone
<1>5. Owner(new, n)
  <2> SUFFICES ASSUME NEW d \in Fd, n[d].mode \in OpenModes
               PROVE  \E f \in File : OwnFile(new, f) /\ new[f].fd = d
    BY DEF Owner
  <2>1. PICK f \in File : OwnFile(fl, f) /\ fl[f].fd = d
    BY DEF Sound, Owner, SteadyC
  <2> QED
    BY <1>2, <2>1 DEF Steady
<1>6. Shallow(new)
  <2> SUFFICES ASSUME NEW f \in File, new[f].stream \in File
               PROVE  new[new[f].stream].stream = "nil" /\ new[new[f].stream].state # "unborn"
    BY DEF Shallow
  <2>1. PICK g \in File : g = new[f].stream /\ g = fl[f].stream
    BY DEF Steady
  <2>2. fl[g].stream = "nil" /\ fl[g].state # "unborn"
    BY <2>1 DEF Sound, Shallow
  <2> QED
    BY <2>1, <2>2 DEF Steady
<1>7. n[1].mode = "device"
  BY ProgramsAssumption DEF Sound, SteadyC
<1> QED
  BY <1>1, <1>3, <1>4, <1>5, <1>6, <1>7 DEF Sound

LEMMA ProperKept ==
  ASSUME NEW fl, NEW new, NEW fr, Proper(fl, fr),
         \A f \in File : f \in {fr.f, fr.s, fr.d} /\ fl[f].state = "live" =>
           new[f].state = "live" /\ (fl[f].handler # "t" => new[f].handler # "t")
  PROVE  Proper(new, fr)
<1>1. Alive(new, fr.f) /\ Alive(new, fr.s) /\ Alive(new, fr.d)
  BY DEF Proper, Alive
<1>2. fr.fn = "close-file" => new[fr.f].handler # "t"
  BY DEF Proper, Alive
<1> QED
  BY <1>1, <1>2 DEF Proper

LEMMA FrameworkKept ==
  ASSUME NEW fl, NEW new, Survives(fl, new), NEW s, Framework(fl, s)
  PROVE  Framework(new, s)
<1>1. ASSUME NEW i \in DOMAIN s PROVE Proper(new, s[i])
  <2>1. Proper(fl, s[i])
    BY DEF Framework
  <2> QED
    BY <2>1, ProperKept DEF Survives
<1> QED
  BY <1>1 DEF Framework

LEMMA HeldKept ==
  ASSUME NEW fl, NEW new, Survives(fl, new), NEW hd, HeldAlive(fl, hd)
  PROVE  HeldAlive(new, hd)
  BY DEF Survives, HeldAlive

LEMMA RetKept ==
  ASSUME NEW fl, NEW new, Survives(fl, new), NEW r, RetAlive(fl, r)
  PROVE  RetAlive(new, r)
  BY DEF Survives, RetAlive

LEMMA SteadySurvives == ASSUME NEW fl, NEW new, Steady(fl, new) PROVE Survives(fl, new)
  BY DEF Steady, Survives

LEMMA WatchedKept ==
  ASSUME NEW fl, NEW new, Steady(fl, new), NEW inp, Watched(fl, inp)
  PROVE  Watched(new, inp)
<1>1. ASSUME NEW i \in DOMAIN inp
      PROVE  /\ {"fd", "f"} \subseteq DOMAIN inp[i]
             /\ inp[i].f \in File
             /\ new[inp[i].f].state = "live" /\ new[inp[i].f].handler = "t" /\ new[inp[i].f].fd = inp[i].fd
  BY DEF Watched, Steady
<1> QED
  BY <1>1 DEF Watched

\* A step that changes no object and no C file in what matters.
LEMMA SteadyStep ==
  ASSUME OwnInv, Steady(file, file'), SteadyC(fh, fh'), inputs' = inputs, held' = held,
         RetAlive(file, ret'), Framework(file, stack')
  PROVE  OwnInv'
<1>1. Survives(file, file')
  BY SteadySurvives
<1>2. Sound(file', fh')
  BY SteadySound DEF OwnInv
<1>3. Watched(file', inputs')
  BY WatchedKept DEF OwnInv
<1>4. HeldAlive(file', held')
  BY <1>1, HeldKept DEF OwnInv
<1>5. RetAlive(file', ret')
  BY <1>1, RetKept
<1>6. Framework(file', stack')
  BY <1>1, FrameworkKept
<1> QED
  BY <1>2, <1>3, <1>4, <1>5, <1>6 DEF OwnInv

\* Nothing at all is steady.
LEMMA SameFiles ==
  ASSUME OwnInv
  PROVE  Steady(file, file) /\ SteadyC(fh, fh)
  BY DEF OwnInv, Sound, Typed, Steady, SteadyC

LEMMA QuietOwn ==
  ASSUME OwnInv, file' = file, fh' = fh, inputs' = inputs, held' = held,
         RetAlive(file, ret'), Framework(file, stack')
  PROVE  OwnInv'
  BY SameFiles, SteadyStep

LEMMA OwnFacts ==
  ASSUME OwnInv
  PROVE  /\ Framework(file, stack) /\ RetAlive(file, ret) /\ HeldAlive(file, held)
         /\ stack # <<>> => Framework(file, Tail(stack)) /\ Proper(file, Top)
  BY FrameworkPop DEF OwnInv, Top

LEMMA NoFileValue ==
  /\ RetAlive(file, NoValue) /\ RetAlive(file, Null)
  /\ \A x : x # "file" => RetAlive(file, Value(x))
  /\ \A x : RetAlive(file, NameV(x)) /\ RetAlive(file, Byte(x)) /\ RetAlive(file, IntV(x)) /\ RetAlive(file, Bytes(x))
  /\ RetAlive(file, Eof)
  BY DEF RetAlive, NoValue, Null, Value, NameV, Byte, IntV, Bytes, Eof

\* A frame that has just been made.
LEMMA NewFrame ==
  ASSUME NEW fn, NEW a, NEW b, fn \notin {"close-file", "flush-file"}, fn = "open-file" => b \in OpenModes
  PROVE  Proper(file, Frame(fn, a, b)) /\ Frame(fn, a, b).fn = fn
<1>1. PICK fr : fr = Frame(fn, a, b)
  OBVIOUS
<1>2. /\ FrameFields \subseteq DOMAIN fr
      /\ fr.fn = fn /\ fr.b = b /\ fr.f = NoFile /\ fr.s = "nil" /\ fr.d = "nil" /\ fr.chain = {}
  BY <1>1 DEF Frame, FrameFields
<1>3. NoFile \notin File /\ "nil" \notin File
  BY ProgramsAssumption
<1>4. Alive(file, fr.f) /\ Alive(file, fr.s) /\ Alive(file, fr.d)
  BY <1>2, <1>3 DEF Alive
<1>5. Proper(file, fr)
  BY <1>2, <1>4 DEF Proper
<1> QED
  BY <1>1, <1>2, <1>5

\* A frame that has gone on.
Alike(fr, x) ==
  /\ FrameFields \subseteq DOMAIN x /\ x.f = fr.f /\ x.s = fr.s /\ x.d = fr.d /\ x.chain = fr.chain
  /\ fr.fn = "open-file" => x.b = fr.b

LEMMA StillProper ==
  ASSUME NEW fr, Proper(file, fr), NEW x, Alike(fr, x), x.fn = fr.fn
  PROVE  Proper(file, x)
  BY DEF Proper, Alike

\* The frame of a handler has the streams and the object of the frame that
\* calls it.
LEMMA HandlerProper ==
  ASSUME NEW fr, Proper(file, fr), fr.fn # "function", NEW op, NEW h
  PROVE  /\ Proper(file, [fr EXCEPT !.fn = "handler", !.pc = op, !.h = h])
         /\ [fr EXCEPT !.fn = "handler", !.pc = op, !.h = h].fn = "handler"
<1>1. PICK x : x = [fr EXCEPT !.fn = "handler", !.pc = op, !.h = h]
  OBVIOUS
<1>2. Alike(fr, x) /\ x.fn = "handler"
  BY <1>1 DEF Proper, Alike, FrameFields
<1>3. Proper(file, x)
  BY <1>2 DEF Proper, Alike
<1> QED
  BY <1>1, <1>2, <1>3

----------------------------------------------------------------------------
(* New objects *)

LEMMA Reborn ==
  ASSUME OwnInv, Fresh # {}
  PROVE  NewFile \in File /\ file[NewFile].state = "unborn"
  BY DEF Fresh, NewFile

\* A new object x in the place of one that is not yet born.
Newborn(x) == DOMAIN Unbound \subseteq DOMAIN x /\ x.state = "live" /\ x.stream \notin File
Becomes(fl, f, x, new) == \A g \in File : new[g] = IF g = f THEN x ELSE fl[g]
LEMMA Born ==
  ASSUME NEW fl, NEW o, Sound(fl, o), NEW f \in File, fl[f].state = "unborn",
         NEW x, Newborn(x), NEW new, DOMAIN new = File, Becomes(fl, f, x, new)
  PROVE  /\ Typed(new, o) /\ Shallow(new) /\ Survives(fl, new)
<1>1. \A g \in File : new[g] = IF g = f THEN x ELSE fl[g]
  BY DEF Becomes
<1>2. Typed(new, o)
  BY <1>1 DEF Sound, Typed, Newborn
<1>3. Shallow(new)
  <2> SUFFICES ASSUME NEW g \in File, new[g].stream \in File
               PROVE  new[new[g].stream].stream = "nil" /\ new[new[g].stream].state # "unborn"
    BY DEF Shallow
  <2>1. g # f /\ new[g] = fl[g]
    BY <1>1 DEF Newborn
  <2>2. fl[fl[g].stream].stream = "nil" /\ fl[fl[g].stream].state # "unborn"
    BY <2>1 DEF Sound, Shallow
  <2>3. fl[g].stream # f
    BY <2>2
  <2> QED
    BY <1>1, <2>1, <2>2, <2>3
<1>4. Survives(fl, new)
  BY <1>1 DEF Survives
<1> QED
  BY <1>2, <1>3, <1>4

LEMMA BornWatched ==
  ASSUME NEW fl, NEW f \in File, fl[f].state = "unborn", NEW x,
         NEW new, Becomes(fl, f, x, new), NEW inp, Watched(fl, inp)
  PROVE  Watched(new, inp)
<1>1. ASSUME NEW i \in DOMAIN inp
      PROVE  /\ {"fd", "f"} \subseteq DOMAIN inp[i]
             /\ inp[i].f \in File
             /\ new[inp[i].f].state = "live" /\ new[inp[i].f].handler = "t" /\ new[inp[i].f].fd = inp[i].fd
  <2>1. /\ {"fd", "f"} \subseteq DOMAIN inp[i]
        /\ inp[i].f \in File
        /\ fl[inp[i].f].state = "live" /\ fl[inp[i].f].handler = "t" /\ fl[inp[i].f].fd = inp[i].fd
    BY DEF Watched
  <2>2. inp[i].f # f
    BY <2>1
  <2> QED
    BY <2>1, <2>2 DEF Becomes
<1> QED
  BY <1>1 DEF Watched

\* One that is not local, or stands for the C file that is open from the start.
LEMMA BornQuiet ==
  ASSUME NEW fl, NEW o, Sound(fl, o), NEW f \in File, fl[f].state = "unborn",
         NEW x, Newborn(x),
         \/ x.handler # "t" /\ ~x.std
         \/ x.handler = "t" /\ x.std /\ x.fd = 1 /\ x.stream = "nil"
  PROVE  Sound([fl EXCEPT ![f] = x], o)
<1>1. PICK new : new = [fl EXCEPT ![f] = x]
  OBVIOUS
<1>2. DOMAIN new = File /\ \A g \in File : new[g] = IF g = f THEN x ELSE fl[g]
  BY <1>1 DEF Sound, Typed
<1>3. Becomes(fl, f, x, new)
  BY <1>2 DEF Becomes
<1>4. Typed(new, o) /\ Shallow(new)
  BY <1>2, <1>3, Born
<1>5. Holds(new, o)
  <2> SUFFICES ASSUME NEW g \in File, new[g].state = "live"
               PROVE  /\ new[g].handler = "t" => /\ new[g].fd \in Fd
                                                 /\ new[g].stream = "nil"
                                                 /\ o[new[g].fd].mode \in IF new[g].std THEN {"device"} ELSE OpenModes
                      /\ new[g].std => new[g].handler = "t"
    BY DEF Holds
  <2>1. CASE g = f
    <3>1. new[g] = x
      BY <1>2, <2>1
    <3>2. 1 \in Fd /\ o[1].mode = "device"
      BY ProgramsAssumption DEF Sound
    <3> QED
      BY <3>1, <3>2
  <2>2. CASE g # f
    <3>1. new[g] = fl[g]
      BY <1>2, <2>2
    <3> QED
      BY <3>1 DEF Sound, Holds
  <2> QED
    BY <2>1, <2>2
<1>6. \A g \in File : OwnFile(new, g) <=> OwnFile(fl, g)
  BY <1>2 DEF OwnFile
<1>7. \A g \in File : OwnFile(new, g) => new[g] = fl[g]
  BY <1>2 DEF OwnFile
<1>8. Alone(new)
  BY <1>6, <1>7 DEF Sound, Alone
<1>9. Owner(new, o)
  <2> SUFFICES ASSUME NEW d \in Fd, o[d].mode \in OpenModes
               PROVE  \E g \in File : OwnFile(new, g) /\ new[g].fd = d
    BY DEF Owner
  <2>1. PICK g \in File : OwnFile(fl, g) /\ fl[g].fd = d
    BY DEF Sound, Owner
  <2> QED
    BY <1>6, <1>7, <2>1
<1>10. Sound(new, o)
  BY <1>5, <1>8, <1>9, <1>4 DEF Sound
<1> QED
  BY <1>1, <1>10

\* One that open-file makes, with the C file d that it opens.
LEMMA BornOpen ==
  ASSUME NEW fl, NEW o, Sound(fl, o), NEW f \in File, fl[f].state = "unborn",
         NEW x, Newborn(x), x.stream = "nil",
         x.handler = "t", ~x.std, NEW d \in Fd, x.fd = d, o[d].mode = "closed",
         NEW c, DOMAIN Closed \subseteq DOMAIN c, c.mode \in OpenModes
  PROVE  Sound([fl EXCEPT ![f] = x], [o EXCEPT ![d] = c])
<1>1. PICK new : new = [fl EXCEPT ![f] = x]
  OBVIOUS
<1>2. PICK n : n = [o EXCEPT ![d] = c]
  OBVIOUS
<1>3. 1 \in Fd
  BY ProgramsAssumption
<1>4. DOMAIN new = File /\ \A g \in File : new[g] = IF g = f THEN x ELSE fl[g]
  BY <1>1 DEF Sound, Typed
<1>5. Becomes(fl, f, x, new)
  BY <1>4 DEF Becomes
<1>6. Typed(new, o) /\ Shallow(new)
  BY <1>4, <1>5, Born
<1>7. DOMAIN o = Fd
  BY DEF Sound, Typed
<1>8. DOMAIN n = Fd /\ \A e \in Fd : n[e] = IF e = d THEN c ELSE o[e]
  BY <1>2, <1>7
<1>9. Typed(new, n)
  BY <1>8, <1>6 DEF Typed
<1>10. ASSUME NEW g \in File, fl[g].state = "live", fl[g].handler = "t" PROVE fl[g].fd # d
  <2>1. o[fl[g].fd].mode \in {"device"} \cup OpenModes
    BY <1>10 DEF Sound, Holds
  <2> QED
    BY <2>1 DEF OpenModes
<1>11. Holds(new, n)
  <2> SUFFICES ASSUME NEW g \in File, new[g].state = "live"
               PROVE  /\ new[g].handler = "t" => /\ new[g].fd \in Fd
                                                 /\ new[g].stream = "nil"
                                                 /\ n[new[g].fd].mode \in IF new[g].std THEN {"device"} ELSE OpenModes
                      /\ new[g].std => new[g].handler = "t"
    BY DEF Holds
  <2>1. CASE g = f
    <3>1. new[g] = x
      BY <1>4, <2>1
    <3>2. n[d] = c
      BY <1>8
    <3> QED
      BY <3>1, <3>2
  <2>2. CASE g # f
    <3>1. new[g] = fl[g]
      BY <1>4, <2>2
    <3>2. /\ fl[g].handler = "t" => /\ fl[g].fd \in Fd
                                    /\ fl[g].stream = "nil"
                                    /\ o[fl[g].fd].mode \in IF fl[g].std THEN {"device"} ELSE OpenModes
          /\ fl[g].std => fl[g].handler = "t"
      BY <3>1 DEF Sound, Holds
    <3>3. fl[g].handler = "t" => n[fl[g].fd] = o[fl[g].fd]
      BY <1>8, <1>10, <3>1, <3>2
    <3> QED
      BY <3>1, <3>2, <3>3
  <2> QED
    BY <2>1, <2>2
<1>12. OwnFile(new, f) /\ new[f].fd = d
  BY <1>4 DEF OwnFile, Newborn
<1>13. ASSUME NEW g \in File, g # f
       PROVE  /\ new[g] = fl[g] /\ (OwnFile(new, g) <=> OwnFile(fl, g))
              /\ OwnFile(fl, g) => fl[g].fd # d
  BY <1>4, <1>10, <1>13 DEF OwnFile
<1>14. Alone(new)
  <2> SUFFICES ASSUME NEW g \in File, NEW k \in File, OwnFile(new, g), OwnFile(new, k), new[g].fd = new[k].fd
               PROVE  g = k
    BY DEF Alone
  <2>1. CASE g = f \/ k = f
    BY <1>12, <1>13, <2>1
  <2>2. CASE g # f /\ k # f
    BY <1>13, <2>2 DEF Sound, Alone
  <2> QED
    BY <2>1, <2>2
<1>15. Owner(new, n)
  <2> SUFFICES ASSUME NEW e \in Fd, n[e].mode \in OpenModes
               PROVE  \E g \in File : OwnFile(new, g) /\ new[g].fd = e
    BY DEF Owner
  <2>1. CASE e = d
    BY <1>12, <2>1
  <2>2. CASE e # d
    <3>1. PICK g \in File : OwnFile(fl, g) /\ fl[g].fd = e
      BY <1>8, <2>2 DEF Sound, Owner
    <3>2. g # f
      BY <3>1 DEF OwnFile
    <3> QED
      BY <1>13, <3>1, <3>2
  <2> QED
    BY <2>1, <2>2
<1>16. n[1].mode = "device"
  <2>1. o[1].mode = "device"
    BY DEF Sound
  <2> QED
    BY <1>3, <1>8, <2>1
<1>17. Sound(new, n)
  BY <1>9, <1>11, <1>14, <1>15, <1>16, <1>6 DEF Sound
<1> QED
  BY <1>1, <1>2, <1>17

\* A step that makes an object.
LEMMA BirthStep ==
  ASSUME OwnInv, Fresh # {},
         NEW x, Newborn(x),
         file' = [file EXCEPT ![NewFile] = x], Sound(file', fh'), inputs' = inputs, held' = held,
         RetAlive(file, ret') \/ ret' = FileV(NewFile), Framework(file, stack')
  PROVE  OwnInv'
<1>1. PICK f : f = NewFile
  OBVIOUS
<1>2. f \in File /\ file[f].state = "unborn" /\ Sound(file, fh)
  BY <1>1, Reborn DEF OwnInv
<1>3. file' = [file EXCEPT ![f] = x]
  BY <1>1
<1>4. DOMAIN file' = File /\ \A g \in File : file'[g] = IF g = f THEN x ELSE file[g]
  BY <1>2, <1>3 DEF Sound, Typed
<1>5. Becomes(file, f, x, file')
  BY <1>4 DEF Becomes
<1>6. Survives(file, file')
  BY <1>2, <1>4, <1>5, Born
<1>7. Watched(file', inputs')
  BY <1>2, <1>5, BornWatched DEF OwnInv
<1>8. HeldAlive(file', held')
  BY <1>6, HeldKept DEF OwnInv
<1>9. RetAlive(file', ret')
  <2>1. CASE RetAlive(file, ret')
    BY <1>6, <2>1, RetKept
  <2>2. CASE ret' = FileV(NewFile)
    BY <1>1, <1>2, <1>4, <2>2 DEF FileV, RetAlive, Newborn
  <2> QED
    BY <2>1, <2>2
<1>10. Framework(file', stack')
  BY <1>6, FrameworkKept
<1> QED
  BY <1>7, <1>8, <1>9, <1>10 DEF OwnInv

----------------------------------------------------------------------------
(* Calls *)

LEMMA AsksHandler ==
  ASSUME NEW below, Framework(file, below), NEW fr, Proper(file, fr), fr.fn # "function", NEW h, NEW op,
         rep_call_file_handler(below, h, op, fr)
  PROVE  Framework(file, stack') /\ RetAlive(file, ret')
<1>1. CASE throwing
  BY <1>1, NoFileValue DEF rep_call_file_handler
<1>2. CASE ~throwing
  <2>1. PICK x : x = [fr EXCEPT !.fn = "handler", !.pc = op, !.h = h]
    OBVIOUS
  <2>2. Proper(file, x) /\ x.fn = "handler"
    BY <2>1, HandlerProper
  <2>3. stack' = <<x>> \o below /\ ret' = NoValue
    BY <1>2, <2>1 DEF rep_call_file_handler
  <2>4. Framework(file, <<x>> \o below)
    BY <2>2, FrameworkPush
  <2> QED
    BY <2>3, <2>4, NoFileValue
<1> QED
  BY <1>1, <1>2

LEMMA CallOwn ==
  ASSUME OwnInv, NEW op, op \notin {"close-file", "flush-file", "function"}, NEW a, NEW b, Call(op, a, b),
         op = "open-file" => b \in OpenModes
  PROVE  OwnInv'
<1>1. PICK x : x = Frame(op, a, b)
  OBVIOUS
<1>2. Proper(file, x) /\ x.fn # "function"
  BY <1>1, NewFrame
<1>3. Framework(file, <<x>> \o stack)
  BY <1>2, OwnFacts, FrameworkPush
<1>4. /\ stack' = <<x>> \o stack
      /\ file' = file /\ fh' = fh /\ inputs' = inputs /\ held' = held /\ ret' = ret
  BY <1>1 DEF Call
<1> QED
  BY <1>3, <1>4, OwnFacts, QuietOwn

LEMMA MakeFileOwn ==
  ASSUME OwnInv, NEW s, NEW stream \in {"in", "fun"}, NEW h, MakeFileFromStream(s, stream, h)
  PROVE  OwnInv'
<1>1. PICK x : x = [Unbound EXCEPT !.name = s, !.handler = "h", !.by = h, !.stream = stream]
  OBVIOUS
<1>2. /\ DOMAIN x = DOMAIN Unbound /\ x.state = "live" /\ x.stream = stream /\ x.handler = "h" /\ x.std = FALSE
  BY <1>1 DEF Unbound
<1>3. Newborn(x) /\ x.handler # "t" /\ ~x.std
  BY <1>2, ProgramsAssumption DEF Newborn
<1>4. /\ Fresh # {} /\ file' = [file EXCEPT ![NewFile] = x] /\ ret' = FileV(NewFile)
      /\ fh' = fh /\ inputs' = inputs /\ held' = held /\ stack' = stack
  BY <1>1 DEF MakeFileFromStream
<1>5. PICK f : f = NewFile
  OBVIOUS
<1>6. f \in File /\ file[f].state = "unborn" /\ Sound(file, fh)
  BY <1>4, <1>5, Reborn DEF OwnInv
<1>7. Sound([file EXCEPT ![f] = x], fh)
  BY <1>3, <1>6, BornQuiet
<1>8. Sound(file', fh')
  BY <1>4, <1>5, <1>7
<1> QED
  BY <1>3, <1>4, <1>8, OwnFacts, BirthStep

LEMMA NameCallsOwn == ASSUME OwnInv, NameCalls PROVE OwnInv'
<1>1. PICK s \in program.names :
        \/ \E op \in LookedUp : \E b : Call(op, s, b) /\ (op = "open-file" => b \in OpenModes)
        \/ \E stream \in {"in", "fun"}, h \in Handler : MakeFileFromStream(s, stream, h)
  BY DEF NameCalls, FileNameAbsolute, FileNameNondirectory, FileNameDirectory, FileNameAsDirectory,
         DirectoryFileName, ExpandFileName, LocalFileName, CanonicalFileName, DeleteFile, MakeDirectory,
         DeleteDirectory, FileReadable, FileWritable, FileExists, FileRegular, FileDirectory, FileSymlink,
         FileOwner, FileNlinks, FileSize, FileModes, FileModesAsString, FileModtime, DirectoryFiles,
         ReadSymlink, SetFileModes, MakeSymlink, RenameFile, CopyFile, OpenFile, LookedUp, PlainOps, NameOps, OpenModes
<1>2. ASSUME NEW op \in LookedUp, NEW b, Call(op, s, b), op = "open-file" => b \in OpenModes PROVE OwnInv'
  <2>1. op \notin {"close-file", "flush-file", "function"}
    BY DEF LookedUp, PlainOps, NameOps
  <2> QED
    BY <1>2, <2>1, CallOwn
<1>3. ASSUME NEW stream \in {"in", "fun"}, NEW h \in Handler, MakeFileFromStream(s, stream, h) PROVE OwnInv'
  BY <1>3, MakeFileOwn
<1> QED
  BY <1>1, <1>2, <1>3

LEMMA StdFileOwn == ASSUME OwnInv, StdFile(1) PROVE OwnInv'
<1> DEFINE old == {f \in File : file[f].state = "live" /\ file[f].std /\ file[f].fd = 1}
<1>1. Fresh # {} /\ fh' = fh /\ inputs' = inputs /\ held' = held /\ stack' = stack
  BY DEF StdFile
<1>2. CASE old # {}
  <2>1. PICK f : f = CHOOSE g \in old : TRUE
    OBVIOUS
  <2>2. f \in old /\ file' = file /\ ret' = FileV(f)
    BY <1>2, <2>1 DEF StdFile
  <2>3. RetAlive(file, ret')
    BY <2>2 DEF RetAlive, FileV
  <2> QED
    BY <1>1, <2>2, <2>3, OwnFacts, QuietOwn
<1>3. CASE old = {}
  <2>1. PICK x : x = [Unbound EXCEPT !.name = <<"<">>, !.handler = "t", !.fd = 1, !.std = TRUE]
    OBVIOUS
  <2>2. /\ DOMAIN x = DOMAIN Unbound /\ x.state = "live" /\ x.stream = "nil" /\ x.handler = "t" /\ x.std = TRUE
        /\ x.fd = 1
    BY <2>1 DEF Unbound
  <2>3. Newborn(x)
    BY <2>2, ProgramsAssumption DEF Newborn
  <2>4. file' = [file EXCEPT ![NewFile] = x] /\ ret' = FileV(NewFile)
    BY <1>3, <2>1 DEF StdFile
  <2>5. PICK f : f = NewFile
    OBVIOUS
  <2>6. f \in File /\ file[f].state = "unborn" /\ Sound(file, fh)
    BY <1>1, <2>5, Reborn DEF OwnInv
  <2>7. Sound([file EXCEPT ![f] = x], fh)
    BY <2>2, <2>3, <2>6, BornQuiet
  <2>8. Sound(file', fh')
    BY <1>1, <2>4, <2>5, <2>7
  <2> QED
    BY <1>1, <2>3, <2>4, <2>8, OwnFacts, BirthStep
<1> QED
  BY <1>2, <1>3

----------------------------------------------------------------------------
(* Input handlers *)

LEMMA RemoveFacts ==
  ASSUME NEW s, IsSeq(s), NEW i \in 1 .. Len(s), NEW r, r = RemoveAt(s, i)
  PROVE  /\ IsSeq(r) /\ DOMAIN r = 1 .. Len(s) - 1
         /\ \A j \in 1 .. Len(s) - 1 : r[j] = s[IF j < i THEN j ELSE j + 1]
<1>1. PICK S : s \in Seq(S)
  BY DEF IsSeq
<1>2. Len(s) \in Nat /\ i \in Nat /\ i >= 1 /\ i <= Len(s)
  BY <1>1
<1>3. PICK u : u = SubSeq(s, 1, i - 1)
  OBVIOUS
<1>4. PICK v : v = SubSeq(s, i + 1, Len(s))
  OBVIOUS
<1>5. u \in Seq(S) /\ Len(u) = i - 1 /\ \A j \in 1 .. i - 1 : u[j] = s[j]
  <2>1. SubSeq(s, 1, i - 1) \in Seq(S) /\ Len(SubSeq(s, 1, i - 1)) = i - 1
    BY <1>1, <1>2
  <2>2. \A j \in 1 .. i - 1 : SubSeq(s, 1, i - 1)[j] = s[j]
    BY <1>1, <1>2
  <2> QED
    BY <1>3, <2>1, <2>2
<1>6. v \in Seq(S) /\ Len(v) = Len(s) - i /\ \A j \in 1 .. Len(s) - i : v[j] = s[j + i]
  <2>1. SubSeq(s, i + 1, Len(s)) \in Seq(S) /\ Len(SubSeq(s, i + 1, Len(s))) = Len(s) - i
    BY <1>1, <1>2
  <2>2. \A j \in 1 .. Len(s) - i : SubSeq(s, i + 1, Len(s))[j] = s[j + i]
    BY <1>1, <1>2
  <2> QED
    BY <1>4, <2>1, <2>2
<1>7. r = u \o v
  BY <1>3, <1>4 DEF RemoveAt
<1>8. /\ r \in Seq(S) /\ Len(r) = Len(s) - 1
      /\ \A j \in 1 .. Len(r) : r[j] = IF j <= Len(u) THEN u[j] ELSE v[j - Len(u)]
  BY <1>2, <1>5, <1>6, <1>7
<1>9. ASSUME NEW j \in 1 .. Len(s) - 1 PROVE r[j] = s[IF j < i THEN j ELSE j + 1]
  <2>1. CASE j < i
    <3>1. j \in 1 .. i - 1 /\ j \in 1 .. Len(r) /\ j <= Len(u)
      BY <1>2, <1>5, <1>8, <2>1
    <3> QED
      BY <1>5, <1>8, <2>1, <3>1
  <2>2. CASE ~(j < i)
    <3>1. j \in 1 .. Len(r) /\ ~(j <= Len(u)) /\ j - Len(u) = j - (i - 1)
      BY <1>2, <1>5, <1>8, <2>2
    <3>2. r[j] = v[j - (i - 1)]
      BY <1>8, <3>1
    <3>3. j - (i - 1) \in 1 .. Len(s) - i /\ (j - (i - 1)) + i = j + 1
      BY <1>2, <2>2
    <3>4. v[j - (i - 1)] = s[(j - (i - 1)) + i]
      BY <1>6, <3>3
    <3>5. r[j] = s[j + 1]
      BY ONLY <3>2, <3>3, <3>4
    <3> QED
      BY <2>2, <3>5
  <2> QED
    BY <2>1, <2>2
<1>10. IsSeq(r) /\ DOMAIN r = 1 .. Len(s) - 1
  BY <1>8 DEF IsSeq
<1> QED
  BY <1>9, <1>10

\* set-input-handler, or close-file, takes the handler of the C file d off the
\* list: then there is none.
LEMMA UnhandledWatched ==
  ASSUME OwnInv, NEW d, Unhandled(d)
  PROVE  Watched(file, inputs') /\ \A i \in DOMAIN inputs' : inputs'[i].fd # d
<1> DEFINE at == {i \in DOMAIN inputs : inputs[i].fd = d}
<1>1. /\ IsSeq(inputs) /\ DOMAIN inputs = 1 .. Len(inputs) /\ Len(inputs) \in Nat
      /\ Watched(file, inputs)
  BY SeqFacts DEF OwnInv, Watched
<1>2. CASE at = {}
  <2>1. inputs' = inputs
    BY <1>2 DEF Unhandled
  <2> QED
    BY <1>1, <1>2, <2>1
<1>3. CASE at # {}
  <2>1. at \subseteq Nat
    BY <1>1
  <2>2. PICK m : m = Min(at)
    OBVIOUS
  <2>3. m \in at
    BY <1>3, <2>1, <2>2, MinIn
  <2>4. inputs' = RemoveAt(inputs, m)
    BY <1>3, <2>2 DEF Unhandled
  <2>5. m \in 1 .. Len(inputs) /\ inputs[m].fd = d
    BY <1>1, <2>3
  <2> HIDE DEF at
  <2>6. /\ IsSeq(inputs') /\ DOMAIN inputs' = 1 .. Len(inputs) - 1
        /\ \A j \in 1 .. Len(inputs) - 1 : inputs'[j] = inputs[IF j < m THEN j ELSE j + 1]
    BY ONLY <1>1, <2>4, <2>5, RemoveFacts
  <2> DEFINE to(j) == IF j < m THEN j ELSE j + 1
  <2>7. ASSUME NEW j \in DOMAIN inputs'
        PROVE  to(j) \in DOMAIN inputs /\ to(j) # m /\ inputs'[j] = inputs[to(j)]
    BY <1>1, <2>5, <2>6
  <2>8. ASSUME NEW i \in DOMAIN inputs', NEW j \in DOMAIN inputs', to(i) = to(j) PROVE i = j
    BY <1>1, <2>5, <2>6, <2>8
  <2> HIDE DEF to
  <2>9. ASSUME NEW j \in DOMAIN inputs'
        PROVE  /\ {"fd", "f"} \subseteq DOMAIN inputs'[j]
               /\ inputs'[j].f \in File
               /\ file[inputs'[j].f].state = "live" /\ file[inputs'[j].f].handler = "t"
               /\ file[inputs'[j].f].fd = inputs'[j].fd
               /\ inputs'[j].fd # d
    BY <1>1, <2>5, <2>7 DEF Watched
  <2>10. ASSUME NEW i \in DOMAIN inputs', NEW j \in DOMAIN inputs', inputs'[i].fd = inputs'[j].fd PROVE i = j
    BY <1>1, <2>7, <2>8, <2>10 DEF Watched
  <2>11. Watched(file, inputs')
    BY <2>6, <2>9, <2>10 DEF Watched
  <2> QED
    BY <2>9, <2>11
<1> QED
  BY <1>2, <1>3

LEMMA HandledWatched ==
  ASSUME OwnInv, NEW f \in File, file[f].state = "live", file[f].handler = "t",
         NEW at, at = {i \in DOMAIN inputs : inputs[i].fd = file[f].fd},
         NEW new, new = IF at # {} THEN [inputs EXCEPT ![Min(at)].f = f] ELSE <<[fd |-> file[f].fd, f |-> f]>> \o inputs
  PROVE  Watched(file, new)
<1>1. /\ IsSeq(inputs) /\ DOMAIN inputs = 1 .. Len(inputs) /\ Len(inputs) \in Nat
      /\ Watched(file, inputs)
  BY SeqFacts DEF OwnInv, Watched
<1>2. CASE at # {}
  <2>1. at \subseteq Nat
    BY <1>1
  <2>2. PICK m : m = Min(at)
    OBVIOUS
  <2>3. m \in at
    BY <1>2, <2>1, <2>2, MinIn
  <2>4. PICK x : x = [inputs[m] EXCEPT !.f = f]
    OBVIOUS
  <2>5. m \in DOMAIN inputs /\ inputs[m].fd = file[f].fd /\ {"fd", "f"} \subseteq DOMAIN inputs[m]
    BY <1>1, <2>3 DEF Watched
  <2>6. {"fd", "f"} \subseteq DOMAIN x /\ x.f = f /\ x.fd = file[f].fd
    BY <2>4, <2>5
  <2>7. new = [inputs EXCEPT ![m] = x]
    BY <1>2, <2>2, <2>4
  <2>8. DOMAIN new = DOMAIN inputs /\ \A i \in DOMAIN inputs : new[i] = IF i = m THEN x ELSE inputs[i]
    BY <2>7
  <2>9. IsSeq(new)
    <3>1. PICK T : inputs \in Seq(T)
      BY <1>1 DEF IsSeq
    <3> DEFINE S == T \cup {x}
    <3>2. inputs \in Seq(S) /\ x \in S
      BY <3>1
    <3> HIDE DEF S
    <3>3. new \in [1 .. Len(inputs) -> S]
      <4>1. \A i \in 1 .. Len(inputs) : inputs[i] \in S
        BY <3>2
      <4>2. DOMAIN new = 1 .. Len(inputs) /\ \A i \in 1 .. Len(inputs) : new[i] \in S
        BY <1>1, <2>8, <3>2, <4>1
      <4>3. new = [i \in 1 .. Len(inputs) |-> new[i]]
        BY <1>1, <2>7
      <4> QED
        BY <4>2, <4>3
    <3>4. new \in Seq(S)
      BY <1>1, <3>3, SeqDef
    <3> QED
      BY <3>4 DEF IsSeq
  <2>10. ASSUME NEW j \in DOMAIN new
        PROVE  /\ {"fd", "f"} \subseteq DOMAIN new[j]
               /\ new[j].f \in File
               /\ file[new[j].f].state = "live" /\ file[new[j].f].handler = "t"
               /\ file[new[j].f].fd = new[j].fd
               /\ new[j].fd = inputs[j].fd
    <3>1. CASE j = m
      BY <2>5, <2>6, <2>8, <3>1
    <3>2. CASE j # m
      <4>1. j \in DOMAIN inputs /\ new[j] = inputs[j]
        BY <1>1, <2>8, <3>2
      <4> QED
        BY <1>1, <4>1 DEF Watched
    <3> QED
      BY <3>1, <3>2
  <2>11. ASSUME NEW i \in DOMAIN new, NEW j \in DOMAIN new, new[i].fd = new[j].fd PROVE i = j
    <3>1. i \in DOMAIN inputs /\ j \in DOMAIN inputs
      BY <1>1, <2>8
    <3>2. inputs[i].fd = inputs[j].fd
      BY <2>10, <2>11
    <3> QED
      BY <1>1, <3>1, <3>2 DEF Watched
  <2> QED
    BY <2>9, <2>10, <2>11 DEF Watched
<1>3. CASE at = {}
  <2>1. PICK x : x = [fd |-> file[f].fd, f |-> f]
    OBVIOUS
  <2>2. {"fd", "f"} \subseteq DOMAIN x /\ x.f = f /\ x.fd = file[f].fd
    BY <2>1
  <2>3. new = <<x>> \o inputs
    BY <1>3, <2>1
  <2>4. IsSeq(new) /\ Len(new) = Len(inputs) + 1 /\ new[1] = x /\ \A i \in 1 .. Len(inputs) : new[i + 1] = inputs[i]
    BY ONLY <1>1, <2>3, PushFacts
  <2>5. DOMAIN new = 1 .. Len(inputs) + 1
    BY <2>4, SeqFacts
  <2>6. ASSUME NEW j \in DOMAIN new, j # 1
        PROVE  j - 1 \in DOMAIN inputs /\ new[j] = inputs[j - 1] /\ j \in Nat
    <3>1. Len(inputs) \in Nat /\ DOMAIN inputs = 1 .. Len(inputs)
      BY <1>1, SeqFacts
    <3>2. j - 1 \in 1 .. Len(inputs) /\ j \in Nat /\ j - 1 + 1 = j
      BY ONLY <2>5, <2>6, <3>1, j \in DOMAIN new
    <3>3. new[j - 1 + 1] = inputs[j - 1]
      BY ONLY <2>4, <3>2
    <3> QED
      BY <3>1, <3>2, <3>3
  <2>7. \A i \in DOMAIN inputs : inputs[i].fd # file[f].fd
    BY <1>3
  <2>8. ASSUME NEW j \in DOMAIN new
        PROVE  /\ {"fd", "f"} \subseteq DOMAIN new[j]
               /\ new[j].f \in File
               /\ file[new[j].f].state = "live" /\ file[new[j].f].handler = "t"
               /\ file[new[j].f].fd = new[j].fd
    <3>1. CASE j = 1
      BY <2>2, <2>4, <3>1
    <3>2. CASE j # 1
      <4>1. j - 1 \in DOMAIN inputs /\ new[j] = inputs[j - 1]
        BY <2>6, <3>2
      <4> QED
        BY <1>1, <4>1 DEF Watched
    <3> QED
      BY <3>1, <3>2
  <2>9. ASSUME NEW i \in DOMAIN new, NEW j \in DOMAIN new, new[i].fd = new[j].fd PROVE i = j
    <3>1. \A k \in DOMAIN new \ {1} : new[k].fd # file[f].fd
      <4> TAKE k \in DOMAIN new \ {1}
      <4>1. k - 1 \in DOMAIN inputs /\ new[k] = inputs[k - 1]
        BY <2>6
      <4> QED
        BY <2>7, <4>1
    <3>2. CASE i = 1 \/ j = 1
      <4>1. new[1].fd = file[f].fd
        BY <2>2, <2>4
      <4> QED
        BY ONLY <2>9, <3>2, <3>1, <4>1, i \in DOMAIN new, j \in DOMAIN new
    <3>3. CASE i # 1 /\ j # 1
      <4>1. /\ i - 1 \in DOMAIN inputs /\ new[i] = inputs[i - 1] /\ i \in Nat
            /\ j - 1 \in DOMAIN inputs /\ new[j] = inputs[j - 1] /\ j \in Nat
        BY <2>6, <3>3
      <4>2. i - 1 = j - 1
        BY <1>1, <2>9, <4>1 DEF Watched
      <4> QED
        BY <4>1, <4>2
    <3> QED
      BY <3>2, <3>3
  <2> QED
    BY <2>4, <2>8, <2>9 DEF Watched
<1> QED
  BY <1>2, <1>3

LEMMA SetInputHandlerOwn == ASSUME OwnInv, NEW f \in held, NEW on \in BOOLEAN, SetInputHandler(f, on) PROVE OwnInv'
<1>1. file' = file /\ fh' = fh /\ stack' = stack /\ held' = held
  BY DEF SetInputHandler
<1>2. f \in File /\ file[f].state = "live"
  BY OwnFacts DEF HeldAlive
<1>3. RetAlive(file, ret')
  <2>1. ret' = Null \/ ret' = Value("t") \/ ret' = Value("nil")
    BY DEF SetInputHandler
  <2> QED
    BY <2>1, NoFileValue
<1>4. Watched(file, inputs')
  <2>1. CASE ~Local(f)
    BY <2>1 DEF SetInputHandler, OwnInv
  <2>2. CASE Local(f) /\ on
    <3>1. PICK at : at = {i \in DOMAIN inputs : inputs[i].fd = file[f].fd}
      OBVIOUS
    <3>2. inputs' = IF at # {} THEN [inputs EXCEPT ![Min(at)].f = f] ELSE <<[fd |-> file[f].fd, f |-> f]>> \o inputs
      BY <2>2, <3>1 DEF SetInputHandler
    <3>3. file[f].handler = "t"
      BY <2>2 DEF Local
    <3> QED
      BY ONLY OwnInv, <1>2, <3>1, <3>2, <3>3, HandledWatched
  <2>3. CASE Local(f) /\ ~on
    <3>1. Unhandled(file[f].fd)
      BY <2>3 DEF SetInputHandler
    <3> QED
      BY <3>1, UnhandledWatched
  <2> QED
    BY <2>1, <2>2, <2>3
<1> QED
  BY <1>1, <1>3, <1>4 DEF OwnInv

----------------------------------------------------------------------------
(* Objects that are closed *)

\* The object as it is when the file has been closed.
Loose(r, x) ==
  /\ DOMAIN Unbound \subseteq DOMAIN x
  /\ x.state = r.state /\ x.std = r.std /\ x.handler = "nil" /\ x.stream = "nil"

LEMMA UnbindFacts ==
  ASSUME OwnInv, NEW f \in File, NEW new, new = Unbind(f)
  PROVE  DOMAIN new = File /\ \E x : Loose(file[f], x) /\ Becomes(file, f, x, new)
<1>1. DOMAIN file = File /\ DOMAIN Unbound \subseteq DOMAIN file[f]
  BY DEF OwnInv, Sound, Typed
<1>2. PICK x : x = [file[f] EXCEPT !.name = <<>>, !.handler = "nil", !.by = NoHandler, !.fd = NoFd, !.stream = "nil"]
  OBVIOUS
<1>3. {"state", "std", "handler", "stream"} \subseteq DOMAIN file[f]
  BY <1>1 DEF Unbound
<1>4. DOMAIN x = DOMAIN file[f] /\ x.state = file[f].state /\ x.std = file[f].std /\ x.handler = "nil" /\ x.stream = "nil"
  BY <1>2, <1>3
<1>5. new = [file EXCEPT ![f] = x]
  BY <1>1, <1>2 DEF Unbind
<1>6. DOMAIN new = File /\ Becomes(file, f, x, new)
  BY <1>1, <1>5 DEF Becomes
<1>7. Loose(file[f], x)
  BY <1>1, <1>4 DEF Loose
<1> QED
  BY <1>6, <1>7

\* What holds whether or not the object was local.
LEMMA LooseFacts ==
  ASSUME NEW fl, NEW o, Sound(fl, o), NEW f \in File, NEW x, Loose(fl[f], x),
         NEW new, DOMAIN new = File, Becomes(fl, f, x, new)
  PROVE  Typed(new, o) /\ Shallow(new) /\ Survives(fl, new) /\ ~OwnFile(new, f)
<1>1. \A g \in File : new[g] = IF g = f THEN x ELSE fl[g]
  BY DEF Becomes
<1>2. Typed(new, o)
  BY <1>1 DEF Sound, Typed, Loose
<1>3. Shallow(new)
  <2> SUFFICES ASSUME NEW g \in File, new[g].stream \in File
               PROVE  new[new[g].stream].stream = "nil" /\ new[new[g].stream].state # "unborn"
    BY DEF Shallow
  <2>1. g # f /\ new[g] = fl[g]
    BY <1>1, ProgramsAssumption DEF Loose
  <2>2. fl[fl[g].stream].stream = "nil" /\ fl[fl[g].stream].state # "unborn"
    BY <2>1 DEF Sound, Shallow
  <2>3. CASE fl[g].stream # f
    BY <1>1, <2>1, <2>2, <2>3
  <2>4. CASE fl[g].stream = f
    BY <1>1, <2>1, <2>2, <2>4 DEF Loose
  <2> QED
    BY <2>3, <2>4
<1>4. Survives(fl, new)
  BY <1>1 DEF Survives, Loose
<1>5. ~OwnFile(new, f)
  BY <1>1 DEF OwnFile, Loose
<1> QED
  BY <1>2, <1>3, <1>4, <1>5

\* An object that is not local is closed.
LEMMA LooseSound ==
  ASSUME NEW fl, NEW o, Sound(fl, o), NEW f \in File, fl[f].state = "live", fl[f].handler # "t",
         NEW x, Loose(fl[f], x), NEW new, DOMAIN new = File, Becomes(fl, f, x, new)
  PROVE  Sound(new, o)
<1>1. \A g \in File : new[g] = IF g = f THEN x ELSE fl[g]
  BY DEF Becomes
<1>2. Typed(new, o) /\ Shallow(new) /\ ~OwnFile(new, f)
  BY LooseFacts
<1>3. \A g \in File : OwnFile(new, g) <=> OwnFile(fl, g)
  BY <1>1, <1>2 DEF OwnFile
<1>4. \A g \in File : OwnFile(new, g) => new[g] = fl[g]
  BY <1>1, <1>2
<1>5. Alone(new)
  BY <1>3, <1>4 DEF Sound, Alone
<1>6. Owner(new, o)
  <2> SUFFICES ASSUME NEW d \in Fd, o[d].mode \in OpenModes
               PROVE  \E g \in File : OwnFile(new, g) /\ new[g].fd = d
    BY DEF Owner
  <2>1. PICK g \in File : OwnFile(fl, g) /\ fl[g].fd = d
    BY DEF Sound, Owner
  <2> QED
    BY <1>3, <1>4, <2>1
<1>7. Holds(new, o)
  <2> SUFFICES ASSUME NEW g \in File, new[g].state = "live"
               PROVE  /\ new[g].handler = "t" => /\ new[g].fd \in Fd
                                                 /\ new[g].stream = "nil"
                                                 /\ o[new[g].fd].mode \in IF new[g].std THEN {"device"} ELSE OpenModes
                      /\ new[g].std => new[g].handler = "t"
    BY DEF Holds
  <2>1. CASE g = f
    <3>1. new[g] = x
      BY <1>1, <2>1
    <3>2. ~fl[f].std
      BY DEF Sound, Holds
    <3> QED
      BY <3>1, <3>2 DEF Loose
  <2>2. CASE g # f
    <3>1. new[g] = fl[g]
      BY <1>1, <2>2
    <3> QED
      BY <3>1 DEF Sound, Holds
  <2> QED
    BY <2>1, <2>2
<1> QED
  BY <1>2, <1>5, <1>6, <1>7 DEF Sound

\* A local one is closed with its C file.
LEMMA ShutSound ==
  ASSUME NEW fl, NEW o, Sound(fl, o), NEW f \in File, OwnFile(fl, f),
         NEW x, Loose(fl[f], x), NEW new, DOMAIN new = File, Becomes(fl, f, x, new),
         NEW d, d = fl[f].fd, NEW n, n = [o EXCEPT ![d] = Closed]
  PROVE  Sound(new, n)
<1>1. \A g \in File : new[g] = IF g = f THEN x ELSE fl[g]
  BY DEF Becomes
<1>2. Typed(new, o) /\ Shallow(new) /\ ~OwnFile(new, f)
  BY LooseFacts
<1>3. d \in Fd /\ o[d].mode \in OpenModes /\ 1 \in Fd /\ o[1].mode = "device"
  BY ProgramsAssumption DEF Sound, Holds, OwnFile
<1>4. d # 1
  BY <1>3 DEF OpenModes
<1>5. DOMAIN n = Fd /\ \A e \in Fd : n[e] = IF e = d THEN Closed ELSE o[e]
  BY DEF Sound, Typed
<1>6. Typed(new, n)
  BY <1>2, <1>5 DEF Typed
<1>7. ASSUME NEW g \in File, g # f
      PROVE  new[g] = fl[g] /\ (OwnFile(new, g) <=> OwnFile(fl, g)) /\ (OwnFile(fl, g) => fl[g].fd # d)
  <2>1. new[g] = fl[g]
    BY <1>1, <1>7
  <2>2. OwnFile(fl, g) => fl[g].fd # d
    BY <1>7 DEF Sound, Alone
  <2> QED
    BY <2>1, <2>2 DEF OwnFile
<1>8. Alone(new)
  <2> SUFFICES ASSUME NEW g \in File, NEW k \in File, OwnFile(new, g), OwnFile(new, k), new[g].fd = new[k].fd
               PROVE  g = k
    BY DEF Alone
  <2>1. g # f /\ k # f
    BY <1>2
  <2> QED
    BY <1>7, <2>1 DEF Sound, Alone
<1>9. Owner(new, n)
  <2> SUFFICES ASSUME NEW e \in Fd, n[e].mode \in OpenModes
               PROVE  \E g \in File : OwnFile(new, g) /\ new[g].fd = e
    BY DEF Owner
  <2>1. e # d /\ n[e] = o[e]
    <3>1. Closed.mode \notin OpenModes
      BY DEF Closed, OpenModes
    <3> QED
      BY <1>5, <3>1
  <2>2. PICK g \in File : OwnFile(fl, g) /\ fl[g].fd = e
    BY <2>1 DEF Sound, Owner
  <2>3. g # f
    BY <2>1, <2>2
  <2> QED
    BY <1>7, <2>2, <2>3
<1>10. Holds(new, n)
  <2> SUFFICES ASSUME NEW g \in File, new[g].state = "live"
               PROVE  /\ new[g].handler = "t" => /\ new[g].fd \in Fd
                                                 /\ new[g].stream = "nil"
                                                 /\ n[new[g].fd].mode \in IF new[g].std THEN {"device"} ELSE OpenModes
                      /\ new[g].std => new[g].handler = "t"
    BY DEF Holds
  <2>1. CASE g = f
    <3>1. new[g] = x
      BY <1>1, <2>1
    <3> QED
      BY <3>1 DEF Loose, OwnFile
  <2>2. CASE g # f
    <3>1. new[g] = fl[g]
      BY <1>1, <2>2
    <3>2. /\ fl[g].handler = "t" => /\ fl[g].fd \in Fd
                                    /\ fl[g].stream = "nil"
                                    /\ o[fl[g].fd].mode \in IF fl[g].std THEN {"device"} ELSE OpenModes
          /\ fl[g].std => fl[g].handler = "t"
      BY <3>1 DEF Sound, Holds
    <3>3. fl[g].handler = "t" => fl[g].fd # d
      <4>1. CASE fl[g].std
        BY <1>3, <3>2, <4>1 DEF OpenModes
      <4>2. CASE ~fl[g].std
        BY <1>7, <2>2, <3>1, <4>2 DEF OwnFile
      <4> QED
        BY <4>1, <4>2
    <3> QED
      BY <1>5, <3>1, <3>2, <3>3
  <2> QED
    BY <2>1, <2>2
<1>11. n[1].mode = "device"
  BY <1>3, <1>4, <1>5
<1> QED
  BY <1>2, <1>6, <1>8, <1>9, <1>10, <1>11 DEF Sound

\* The input handlers that stay are for other objects.
LEMMA LooseWatched ==
  ASSUME NEW fl, NEW inp, Watched(fl, inp), NEW f \in File, \A i \in DOMAIN inp : inp[i].f # f,
         NEW x, NEW new, Becomes(fl, f, x, new)
  PROVE  Watched(new, inp)
<1>1. ASSUME NEW i \in DOMAIN inp
      PROVE  /\ {"fd", "f"} \subseteq DOMAIN inp[i]
             /\ inp[i].f \in File
             /\ new[inp[i].f].state = "live" /\ new[inp[i].f].handler = "t" /\ new[inp[i].f].fd = inp[i].fd
  BY DEF Watched, Becomes
<1> QED
  BY <1>1 DEF Watched

LEMMA CloseLocalOwn ==
  ASSUME OwnInv, NEW f \in File, file[f].state = "live", file[f].handler = "t", CloseLocal(f),
         held' = held, RetAlive(file, ret'), stack' = stack
  PROVE  OwnInv'
<1>1. PICK d : d = file[f].fd
  OBVIOUS
<1>2. Watched(file, inputs') /\ \A i \in DOMAIN inputs' : inputs'[i].fd # d
  BY <1>1, UnhandledWatched DEF CloseLocal
<1>3. Sound(file, fh)
  BY DEF OwnInv
<1>4. CASE file[f].std
  <2>1. file' = file /\ fh' = [fh EXCEPT ![d].path = <<>>, ![d].pos = 0, ![d].buf = <<>>]
    BY <1>1, <1>4 DEF CloseLocal
  <2>2. DOMAIN fh = Fd /\ \A e \in Fd : DOMAIN Closed \subseteq DOMAIN fh[e]
    BY <1>3 DEF Sound, Typed
  <2>3. PICK c : c = [fh[d] EXCEPT !.path = <<>>, !.pos = 0, !.buf = <<>>]
    OBVIOUS
  <2>4. d \in Fd => DOMAIN c = DOMAIN fh[d] /\ c.mode = fh[d].mode
    <3>1. d \in Fd => "mode" \in DOMAIN fh[d]
      BY <2>2 DEF Closed
    <3> QED
      BY <2>3, <3>1
  <2>5. DOMAIN fh' = Fd /\ \A e \in Fd : fh'[e] = IF e = d THEN c ELSE fh[e]
    BY <2>1, <2>2, <2>3
  <2>6. SteadyC(fh, fh')
    BY <2>2, <2>4, <2>5 DEF SteadyC
  <2>7. Steady(file, file)
    BY SameFiles
  <2>8. Sound(file', fh')
    BY <1>3, <2>1, <2>6, <2>7, SteadySound
  <2> QED
    BY <1>2, <2>1, <2>8 DEF OwnInv
<1>5. CASE ~file[f].std
  <2>1. file' = Unbind(f) /\ fh' = [fh EXCEPT ![d] = Closed]
    BY <1>1, <1>5 DEF CloseLocal
  <2>2. PICK x : DOMAIN file' = File /\ Loose(file[f], x) /\ Becomes(file, f, x, file')
    BY <2>1, UnbindFacts
  <2>3. OwnFile(file, f)
    BY <1>5 DEF OwnFile
  <2>4. Sound(file', fh')
    BY ONLY <1>1, <1>3, <2>1, <2>2, <2>3, ShutSound, f \in File
  <2>5. Survives(file, file')
    BY <1>3, <2>2, LooseFacts
  <2>6. \A i \in DOMAIN inputs' : inputs'[i].f # f
    BY <1>1, <1>2 DEF Watched
  <2>7. Watched(file', inputs')
    BY <1>2, <2>2, <2>6, LooseWatched
  <2>8. HeldAlive(file', held') /\ RetAlive(file', ret') /\ Framework(file', stack')
    BY <2>5, OwnFacts, HeldKept, RetKept, FrameworkKept
  <2> QED
    BY <2>4, <2>7, <2>8 DEF OwnInv
<1> QED
  BY <1>4, <1>5

LEMMA CloseStepOwn == ASSUME OwnInv, CloseStep PROVE OwnInv'
<1>1. stack # <<>> /\ Top.fn = "close-file" /\ file' = Unbind(Top.f) /\ Return(Value("t"))
  BY DEF CloseStep, InC
<1>2. fh' = fh /\ inputs' = inputs /\ held' = held
  BY DEF CloseStep
<1>3. PICK f : f = Top.f
  OBVIOUS
<1>4. f \in File /\ file[f].state = "live" /\ file[f].handler # "t"
  BY <1>1, <1>3, OwnFacts DEF Proper, Alive
<1>5. Sound(file, fh) /\ Watched(file, inputs)
  BY DEF OwnInv
<1>6. PICK x : DOMAIN file' = File /\ Loose(file[f], x) /\ Becomes(file, f, x, file')
  BY <1>1, <1>3, <1>4, UnbindFacts
<1>7. Sound(file', fh')
  BY <1>2, <1>4, <1>5, <1>6, LooseSound
<1>8. Survives(file, file')
  BY <1>4, <1>5, <1>6, LooseFacts
<1>9. \A i \in DOMAIN inputs : inputs[i].f # f
  BY <1>4, <1>5 DEF Watched
<1>10. Watched(file', inputs')
  BY <1>2, <1>4, <1>5, <1>6, <1>9, LooseWatched
<1>11. HeldAlive(file', held')
  BY <1>2, <1>8, OwnFacts, HeldKept
<1>12. RetAlive(file', ret') /\ Framework(file', stack')
  <2>1. RetAlive(file, ret') /\ Framework(file, stack')
    BY <1>1, OwnFacts, NoFileValue DEF Return
  <2> QED
    BY <1>8, <2>1, RetKept, FrameworkKept
<1> QED
  BY <1>7, <1>10, <1>11, <1>12 DEF OwnInv

----------------------------------------------------------------------------
(* The collector *)

\* What Lisp code, a call in progress, an input handler or the standard files
\* refer to is marked.
LEMMA RootsMarked ==
  ASSUME NEW f \in File,
         \/ f \in held
         \/ \E i \in DOMAIN stack : f \in {stack[i].f, stack[i].s, stack[i].d}
         \/ \E i \in DOMAIN inputs : f = inputs[i].f
  PROVE  f \in Marked
<1> DEFINE called == UNION {{stack[i].f, stack[i].s, stack[i].d} : i \in DOMAIN stack}
<1> DEFINE standard == {g \in File : file[g].state = "live" /\ file[g].std}
<1> DEFINE watched == {inputs[i].f : i \in DOMAIN inputs}
<1> DEFINE roots == held \cup called \cup standard \cup watched
<1>1. Marked = WithStreams(WithStreams(roots \cap File) \cap File) \cap File
  BY DEF Marked
<1>2. (\E i \in DOMAIN inputs : f = inputs[i].f) => f \in watched
  OBVIOUS
<1>3. ASSUME NEW i \in DOMAIN stack, f \in {stack[i].f, stack[i].s, stack[i].d} PROVE f \in called
  BY <1>3
<1> HIDE DEF called, standard, watched
<1>4. f \in roots
  BY <1>2, <1>3
<1> HIDE DEF roots
<1> QED
  BY <1>1, <1>4 DEF WithStreams

\* Objects fl with those in dead freed, and C files o with those in shut closed.
Freed(fl, dead, new) ==
  DOMAIN new = File /\ \A f \in File : new[f] = IF f \in dead THEN [Unbound EXCEPT !.state = "freed"] ELSE fl[f]
Shut(o, shut, n) == DOMAIN n = Fd /\ \A d \in Fd : n[d] = IF d \in shut THEN Closed ELSE o[d]
FdsOf(fl, dead, shut) == \A d : d \in shut <=> \E f \in dead : OwnFile(fl, f) /\ fl[f].fd = d

LEMMA SweptSound ==
  ASSUME NEW fl, NEW o, Sound(fl, o), NEW dead, \A f \in dead : f \in File /\ fl[f].state = "live",
         NEW shut, FdsOf(fl, dead, shut), NEW new, Freed(fl, dead, new), NEW n, Shut(o, shut, n)
  PROVE  Sound(new, n)
<1>1. PICK x : x = [Unbound EXCEPT !.state = "freed"]
  OBVIOUS
<1>2. DOMAIN x = DOMAIN Unbound /\ x.state = "freed" /\ x.stream = "nil"
  BY <1>1 DEF Unbound
<1>3. DOMAIN new = File /\ \A f \in File : new[f] = IF f \in dead THEN x ELSE fl[f]
  BY <1>1 DEF Freed
<1>4. DOMAIN n = Fd /\ \A d \in Fd : n[d] = IF d \in shut THEN Closed ELSE o[d]
  BY DEF Shut
<1>5. Closed.mode = "closed"
  BY DEF Closed
<1>6. Typed(new, n)
  BY <1>2, <1>3, <1>4 DEF Sound, Typed
<1>7. ASSUME NEW d \in shut
      PROVE  \E f \in dead : OwnFile(fl, f) /\ fl[f].fd = d /\ d \in Fd /\ o[d].mode \in OpenModes
  <2>1. PICK f \in dead : OwnFile(fl, f) /\ fl[f].fd = d
    BY DEF FdsOf
  <2>2. f \in File
    OBVIOUS
  <2>3. d \in Fd /\ o[d].mode \in OpenModes
    BY <2>1, <2>2 DEF Sound, Holds, OwnFile
  <2> QED
    BY <2>1, <2>3
<1>8. ASSUME NEW f \in dead, OwnFile(fl, f) PROVE fl[f].fd \in shut
  BY <1>8 DEF FdsOf
<1>9. ASSUME NEW f \in File
      PROVE  OwnFile(new, f) <=> OwnFile(fl, f) /\ f \notin dead
  BY <1>2, <1>3 DEF OwnFile
<1>10. Alone(new)
  <2> SUFFICES ASSUME NEW f \in File, NEW g \in File, OwnFile(new, f), OwnFile(new, g), new[f].fd = new[g].fd
               PROVE  f = g
    BY DEF Alone
  <2>1. OwnFile(fl, f) /\ OwnFile(fl, g) /\ new[f] = fl[f] /\ new[g] = fl[g]
    BY <1>3, <1>9
  <2> QED
    BY <2>1 DEF Sound, Alone
<1>11. Owner(new, n)
  <2> SUFFICES ASSUME NEW d \in Fd, n[d].mode \in OpenModes
               PROVE  \E f \in File : OwnFile(new, f) /\ new[f].fd = d
    BY DEF Owner
  <2>1. d \notin shut /\ n[d] = o[d]
    BY <1>4, <1>5 DEF OpenModes
  <2>2. PICK f \in File : OwnFile(fl, f) /\ fl[f].fd = d
    BY <2>1 DEF Sound, Owner
  <2>3. f \notin dead
    BY <1>8, <2>1, <2>2
  <2> QED
    BY <1>3, <1>9, <2>2, <2>3
<1>12. Shallow(new)
  <2> SUFFICES ASSUME NEW f \in File, new[f].stream \in File
               PROVE  new[new[f].stream].stream = "nil" /\ new[new[f].stream].state # "unborn"
    BY DEF Shallow
  <2>1. f \notin dead /\ new[f] = fl[f]
    BY <1>2, <1>3, ProgramsAssumption
  <2>2. PICK g \in File : g = fl[f].stream /\ fl[g].stream = "nil" /\ fl[g].state # "unborn"
    BY <2>1 DEF Sound, Shallow
  <2>3. new[g].stream = "nil" /\ new[g].state # "unborn"
    BY <1>2, <1>3, <2>2
  <2> QED
    BY <2>1, <2>2, <2>3
<1>13. Holds(new, n)
  <2> SUFFICES ASSUME NEW f \in File, new[f].state = "live"
               PROVE  /\ new[f].handler = "t" => /\ new[f].fd \in Fd
                                                 /\ new[f].stream = "nil"
                                                 /\ n[new[f].fd].mode \in IF new[f].std THEN {"device"} ELSE OpenModes
                      /\ new[f].std => new[f].handler = "t"
    BY DEF Holds
  <2>1. f \notin dead /\ new[f] = fl[f]
    BY <1>2, <1>3
  <2>2. /\ fl[f].handler = "t" => /\ fl[f].fd \in Fd
                                  /\ fl[f].stream = "nil"
                                  /\ o[fl[f].fd].mode \in IF fl[f].std THEN {"device"} ELSE OpenModes
        /\ fl[f].std => fl[f].handler = "t"
    BY <2>1 DEF Sound, Holds
  <2>3. ASSUME fl[f].handler = "t" PROVE fl[f].fd \notin shut
    <3> SUFFICES ASSUME fl[f].fd \in shut PROVE FALSE
      OBVIOUS
    <3>1. PICK g \in dead : OwnFile(fl, g) /\ fl[g].fd = fl[f].fd /\ o[fl[f].fd].mode \in OpenModes
      BY <1>7
    <3>2. ~fl[f].std
      BY <2>2, <2>3, <3>1 DEF OpenModes
    <3>3. OwnFile(fl, f) /\ g \in File
      BY <2>1, <2>3, <3>2 DEF OwnFile
    <3>4. f = g
      BY <3>1, <3>3 DEF Sound, Alone
    <3> QED
      BY <2>1, <3>4
  <2> QED
    BY <1>4, <2>1, <2>2, <2>3
<1>14. n[1].mode = "device"
  <2>1. 1 \in Fd /\ o[1].mode = "device"
    BY ProgramsAssumption DEF Sound
  <2>2. 1 \notin shut
    BY <1>7, <2>1 DEF OpenModes
  <2> QED
    BY <1>4, <2>1, <2>2
<1> QED
  BY <1>6, <1>10, <1>11, <1>12, <1>13, <1>14 DEF Sound

LEMMA GarbageCollectOwn == ASSUME OwnInv, GarbageCollect PROVE OwnInv'
<1>1. PICK dead : dead = {f \in File : file[f].state = "live"} \ Marked
  OBVIOUS
<1>2. PICK shut : shut = {file[f].fd : f \in {g \in dead : file[g].handler = "t" /\ ~file[g].std}}
  OBVIOUS
<1>3. /\ file' = [f \in File |-> IF f \in dead THEN [Unbound EXCEPT !.state = "freed"] ELSE file[f]]
      /\ fh' = [d \in Fd |-> IF d \in shut THEN Closed ELSE fh[d]]
  BY <1>1, <1>2 DEF GarbageCollect, file_sweep, Local
<1>4. inputs' = inputs /\ held' = held /\ stack' = stack /\ ret' = ret /\ ret = NoValue
  BY DEF GarbageCollect, InLisp
<1>5. Sound(file, fh) /\ \A f \in dead : f \in File /\ file[f].state = "live"
  BY <1>1 DEF OwnInv
<1>6. Sound(file', fh')
  <2>1. FdsOf(file, dead, shut)
    <3>1. ASSUME NEW f \in dead, OwnFile(file, f) PROVE file[f].fd \in shut
      BY <1>2, <3>1 DEF OwnFile
    <3>2. ASSUME NEW d \in shut PROVE \E f \in dead : OwnFile(file, f) /\ file[f].fd = d
      <4>1. PICK f \in {g \in dead : file[g].handler = "t" /\ ~file[g].std} : file[f].fd = d
        BY <1>2
      <4> QED
        BY <1>5, <4>1 DEF OwnFile
    <3> QED
      BY <3>1, <3>2 DEF FdsOf
  <2>2. Freed(file, dead, file') /\ Shut(fh, shut, fh')
    BY <1>3 DEF Freed, Shut
  <2> QED
    BY <1>5, <2>1, <2>2, SweptSound
<1>7. ASSUME NEW f \in File, f \in Marked PROVE file'[f] = file[f]
  BY <1>1, <1>3, <1>7
<1>8. HeldAlive(file', held')
  <2> SUFFICES ASSUME NEW f \in held PROVE f \in File /\ file'[f].state = "live"
    BY <1>4 DEF HeldAlive
  <2>1. f \in File /\ file[f].state = "live"
    BY OwnFacts DEF HeldAlive
  <2>2. f \in Marked
    BY <2>1, RootsMarked
  <2> QED
    BY <1>7, <2>1, <2>2
<1>9. Watched(file', inputs')
  <2>1. ASSUME NEW i \in DOMAIN inputs
        PROVE  /\ {"fd", "f"} \subseteq DOMAIN inputs[i]
               /\ inputs[i].f \in File
               /\ file'[inputs[i].f].state = "live" /\ file'[inputs[i].f].handler = "t"
               /\ file'[inputs[i].f].fd = inputs[i].fd
    <3>1. /\ {"fd", "f"} \subseteq DOMAIN inputs[i]
          /\ inputs[i].f \in File
          /\ file[inputs[i].f].state = "live" /\ file[inputs[i].f].handler = "t"
          /\ file[inputs[i].f].fd = inputs[i].fd
      BY DEF OwnInv, Watched
    <3>2. inputs[i].f \in Marked
      BY <3>1, RootsMarked
    <3>3. file'[inputs[i].f] = file[inputs[i].f]
      BY <1>7, <3>1, <3>2
    <3> QED
      BY <3>1, <3>3
  <2>2. IsSeq(inputs) /\ \A i, j \in DOMAIN inputs : inputs[i].fd = inputs[j].fd => i = j
    BY DEF OwnInv, Watched
  <2> QED
    BY <1>4, <2>1, <2>2 DEF Watched
<1>10. Framework(file', stack')
  <2>1. ASSUME NEW i \in DOMAIN stack PROVE Proper(file', stack[i])
    <3>1. Proper(file, stack[i])
      BY OwnFacts DEF Framework
    <3>2. ASSUME NEW f \in File, f \in {stack[i].f, stack[i].s, stack[i].d} PROVE file'[f] = file[f]
      BY <1>7, <3>2, RootsMarked
    <3> QED
      BY <3>1, <3>2, ProperKept
  <2> QED
    BY <1>4, <2>1, OwnFacts DEF Framework
<1>11. RetAlive(file', ret')
  BY <1>4 DEF RetAlive, NoValue, Value
<1> QED
  BY <1>6, <1>8, <1>9, <1>10, <1>11 DEF OwnInv

----------------------------------------------------------------------------
(* Lisp code *)

LEMMA CloseFileOwn == ASSUME OwnInv, NEW f \in held, CloseFile(f) PROVE OwnInv'
<1>1. f \in File /\ file[f].state = "live" /\ held' = held
  BY OwnFacts DEF HeldAlive, CloseFile
<1>2. CASE file[f].name = <<>>
  <2>1. file' = file /\ fh' = fh /\ inputs' = inputs /\ stack' = stack /\ ret' = Null
    BY <1>2 DEF CloseFile, Signalled
  <2> QED
    BY <1>1, <2>1, OwnFacts, NoFileValue, QuietOwn
<1>3. CASE file[f].name # <<>> /\ ~Local(f)
  <2>1. PICK x : x = Frame("close-file", <<>>, <<>>)
    OBVIOUS
  <2>2. PICK fr : fr = [x EXCEPT !.f = f]
    OBVIOUS
  <2>3. /\ FrameFields \subseteq DOMAIN fr /\ fr.fn = "close-file" /\ fr.f = f /\ fr.s = "nil" /\ fr.d = "nil"
        /\ fr.chain = {}
    BY <2>1, <2>2 DEF Frame, FrameFields
  <2>4. Proper(file, fr)
    BY <1>1, <1>3, <2>3, ProgramsAssumption DEF Proper, Alive, Local
  <2>5. /\ rep_call_file_handler(<<fr>> \o stack, file[f].by, "close-file", fr)
        /\ file' = file /\ fh' = fh /\ inputs' = inputs
    BY <1>3, <2>1, <2>2 DEF CloseFile
  <2>6. Framework(file, <<fr>> \o stack)
    BY <2>3, <2>4, OwnFacts, FrameworkPush
  <2>7. Framework(file, stack') /\ RetAlive(file, ret')
    BY <2>3, <2>4, <2>5, <2>6, AsksHandler
  <2> QED
    BY <1>1, <2>5, <2>7, QuietOwn
<1>4. CASE file[f].name # <<>> /\ Local(f)
  <2>1. CloseLocal(f) /\ ret' = Value("t") /\ stack' = stack
    BY <1>4 DEF CloseFile
  <2>2. file[f].handler = "t" /\ RetAlive(file, ret')
    BY <1>4, <2>1, NoFileValue DEF Local
  <2> QED
    BY <1>1, <2>1, <2>2, CloseLocalOwn
<1> QED
  BY <1>2, <1>3, <1>4

LEMMA FlushFileOwn == ASSUME OwnInv, NEW f \in held, FlushFile(f) PROVE OwnInv'
<1>1. f \in File /\ file[f].state = "live" /\ held' = held /\ file' = file /\ inputs' = inputs
  BY OwnFacts DEF HeldAlive, FlushFile
<1>2. CASE file[f].name = <<>>
  <2>1. fh' = fh /\ stack' = stack /\ ret' = Null
    BY <1>2 DEF FlushFile, Signalled
  <2> QED
    BY <1>1, <2>1, OwnFacts, NoFileValue, QuietOwn
<1>3. CASE file[f].name # <<>> /\ ~Local(f)
  <2>1. PICK x : x = Frame("flush-file", <<>>, <<>>)
    OBVIOUS
  <2>2. PICK fr : fr = [x EXCEPT !.f = f]
    OBVIOUS
  <2>3. /\ FrameFields \subseteq DOMAIN fr /\ fr.fn = "flush-file" /\ fr.f = f /\ fr.s = "nil" /\ fr.d = "nil"
        /\ fr.chain = {}
    BY <2>1, <2>2 DEF Frame, FrameFields
  <2>4. Proper(file, fr)
    BY <1>1, <1>3, <2>3, ProgramsAssumption DEF Proper, Alive, Local
  <2>5. rep_call_file_handler(<<fr>> \o stack, file[f].by, "flush-file", fr) /\ fh' = fh
    BY <1>3, <2>1, <2>2 DEF FlushFile
  <2>6. Framework(file, <<fr>> \o stack)
    BY <2>3, <2>4, OwnFacts, FrameworkPush
  <2>7. Framework(file, stack') /\ RetAlive(file, ret')
    BY <2>3, <2>4, <2>5, <2>6, AsksHandler
  <2> QED
    BY <1>1, <2>5, <2>7, QuietOwn
<1>4. CASE file[f].name # <<>> /\ Local(f)
  <2>1. fh' = [fh EXCEPT ![file[f].fd].buf = <<>>] /\ ret' = FileV(f) /\ stack' = stack
    BY <1>4 DEF FlushFile
  <2>2. RetAlive(file, ret')
    BY <1>1, <2>1 DEF RetAlive, FileV
  <2>3. PICK d, c : d = file[f].fd /\ c = [fh[d] EXCEPT !.buf = <<>>]
    OBVIOUS
  <2>4. DOMAIN fh = Fd /\ \A e \in Fd : DOMAIN Closed \subseteq DOMAIN fh[e]
    BY DEF OwnInv, Sound, Typed
  <2>5. d \in Fd => DOMAIN c = DOMAIN fh[d] /\ c.mode = fh[d].mode
    <3>1. d \in Fd => "mode" \in DOMAIN fh[d]
      BY <2>4 DEF Closed
    <3> QED
      BY <2>3, <3>1
  <2>6. DOMAIN fh' = Fd /\ \A e \in Fd : fh'[e] = IF e = d THEN c ELSE fh[e]
    BY <2>1, <2>3, <2>4
  <2>7. SteadyC(fh, fh')
    BY <2>4, <2>5, <2>6 DEF SteadyC
  <2> QED
    BY <1>1, <2>1, <2>2, <2>7, SameFiles, OwnFacts, SteadyStep
<1> QED
  BY <1>2, <1>3, <1>4

LEMMA InputReadyOwn == ASSUME OwnInv, NEW d, InputReady(d) PROVE OwnInv'
<1> DEFINE at == {i \in DOMAIN inputs : inputs[i].fd = d}
<1>1. /\ stack = <<>> /\ at # {} /\ file' = file /\ fh' = fh /\ inputs' = inputs /\ held' = held /\ ret' = ret
      /\ stack' = <<[Frame("input", <<>>, <<>>) EXCEPT !.f = inputs[Min(at)].f]>>
  BY DEF InputReady
<1>2. IsSeq(inputs) /\ DOMAIN inputs = 1 .. Len(inputs)
  BY SeqFacts DEF OwnInv, Watched
<1>3. Min(at) \in at
  BY <1>1, <1>2, MinIn
<1>4. PICK m : m = Min(at)
  OBVIOUS
<1>5. PICK f : f = inputs[m].f
  OBVIOUS
<1>6. f \in File /\ file[f].state = "live"
  BY <1>3, <1>4, <1>5 DEF OwnInv, Watched
<1>7. PICK fr : fr = [Frame("input", <<>>, <<>>) EXCEPT !.f = f]
  OBVIOUS
<1>8. stack' = <<fr>>
  BY <1>1, <1>4, <1>5, <1>7
<1> HIDE DEF at
<1>9. /\ FrameFields \subseteq DOMAIN fr /\ fr.fn = "input" /\ fr.f = f /\ fr.s = "nil" /\ fr.d = "nil"
      /\ fr.chain = {}
  BY <1>7 DEF Frame, FrameFields
<1>10. Proper(file, fr)
  BY <1>6, <1>9, ProgramsAssumption DEF Proper, Alive
<1>11. Framework(file, <<fr>> \o <<>>)
  BY <1>1, <1>9, <1>10, OwnFacts, FrameworkPush
<1>12. <<fr>> \o <<>> = <<fr>>
  OBVIOUS
<1>13. Framework(file, stack')
  BY <1>8, <1>11, <1>12
<1> QED
  BY <1>1, <1>13, OwnFacts, QuietOwn

LEMMA DropOwn == ASSUME OwnInv, NEW f, Drop(f) PROVE OwnInv'
<1>1. /\ held' = held \ {f} /\ file' = file /\ fh' = fh /\ inputs' = inputs /\ stack' = stack /\ ret' = ret
  BY DEF Drop
<1> QED
  BY <1>1 DEF OwnInv, HeldAlive

LEMMA LispGetsOwn == ASSUME OwnInv, LispGets PROVE OwnInv'
<1>1. /\ ret' = NoValue /\ held' = (IF ret.k = "file" THEN held \cup {ret.v} ELSE held)
      /\ file' = file /\ fh' = fh /\ inputs' = inputs /\ stack' = stack
  BY DEF LispGets
<1>2. HeldAlive(file, held')
  BY <1>1 DEF OwnInv, HeldAlive, RetAlive
<1> QED
  BY <1>1, <1>2, NoFileValue DEF OwnInv

LEMMA EndsOwn ==
  ASSUME OwnInv, stack # <<>>, NEW v, RetAlive(file, v), Ends(v),
         file' = file, fh' = fh, inputs' = inputs, held' = held
  PROVE  OwnInv'
<1>1. stack' = Tail(stack) /\ ret' = v
  BY DEF Ends, Return
<1> QED
  BY <1>1, OwnFacts, QuietOwn

\* The primitives return no file object.
LEMMA PlainValues == ASSUME NEW op \in PlainOps, NEW s PROVE RetAlive(file, PlainPrimitive(op, s))
<1>1. \/ PlainPrimitive(op, s) = Bool(rep_file_name_absolute_p(s))
      \/ \E x : PlainPrimitive(op, s) = NameV(x)
  BY DEF PlainPrimitive, PlainOps
<1>2. Bool(rep_file_name_absolute_p(s)).k # "file"
  BY DEF Bool, Value
<1> QED
  BY <1>1, <1>2, NoFileValue DEF RetAlive

\* A result of local-files.c.
NoObject(p) == p.v.k # "file"

LEMMA ResultKinds ==
  ASSUME NEW x, NEW y, NEW ok, NEW v, v.k # "file"
  PROVE  NoObject(Done(x)) /\ NoObject(Failed(x)) /\ NoObject(Try(ok, x, y)) /\ NoObject(Answer(x, v))
<1>1. NoObject(Done(x)) /\ NoObject(Failed(x)) /\ NoObject(Done(y))
  BY DEF NoObject, Done, Failed, Value
<1>2. NoObject(Answer(x, v))
  BY DEF NoObject, Answer
<1> QED
  BY <1>1, <1>2 DEF Try

LEMMA AnswerKinds ==
  ASSUME NEW x, NEW s, NEW m, NEW n, NEW test
  PROVE  /\ NoObject(Answer(x, Bool(test)))
         /\ NoObject(Answer(x, NameV(m)))
         /\ NoObject(Answer(x, [k |-> "int", v |-> m]))
         /\ NoObject(Answer(x, [k |-> "modes", v |-> m]))
         /\ NoObject(Answer(x, [k |-> "modes-string", v |-> m]))
         /\ NoObject(Answer(x, [k |-> "names", v |-> m]))
         /\ NoObject(Stat(x, s, Value("t")))
         /\ NoObject(Stat(x, s, [k |-> "int", v |-> m]))
         /\ NoObject(Stat(x, s, [k |-> "modes", v |-> m]))
<1>1. Bool(test).k # "file" /\ NameV(m).k # "file" /\ Value("t").k # "file" /\ Value("nil").k # "file"
  BY DEF Bool, NameV, Value
<1>2. [k |-> "int", v |-> m].k # "file" /\ [k |-> "modes", v |-> m].k # "file"
      /\ [k |-> "modes-string", v |-> m].k # "file" /\ [k |-> "names", v |-> m].k # "file"
  OBVIOUS
<1>3. ASSUME NEW v, v.k # "file" PROVE NoObject(Answer(x, v)) /\ NoObject(Stat(x, s, v))
  <2>1. NoObject(Answer(x, v)) /\ NoObject(Answer(x, Value("nil")))
    BY <1>1, <1>3, ResultKinds
  <2> QED
    BY <2>1 DEF Stat
<1> QED
  BY <1>1, <1>2, <1>3

LEMMA TwoNamesValue == ASSUME NEW op, NEW a, NEW b, NEW kept PROVE NoObject(TwoNames(op, a, b, kept))
<1>1. NoObject(rep_rename_file(fs, a, b))
  BY ResultKinds, NoFileValue DEF rep_rename_file, Null, Value
<1>2. (\E x : rep_copy_file(fs, a, b, kept) = Failed(x)) \/ (\E x : rep_copy_file(fs, a, b, kept) = Done(x))
  BY DEF rep_copy_file
<1>3. NoObject(rep_copy_file(fs, a, b, kept))
  BY <1>2 DEF NoObject, Done, Failed, Value
<1> QED
  BY <1>1, <1>3 DEF TwoNames

LEMMA PrimitiveValue == ASSUME NEW op \in NameOps, NEW s, NEW b PROVE NoObject(Primitive(op, s, b))
<1>1. CASE op \in {"local-file-name", "canonical-file-name"}
  <2>1. \E n : Primitive(op, s, b) = [v |-> NameV(n), fs |-> fs]
    BY <1>1 DEF Primitive
  <2> QED
    BY <2>1 DEF NoObject, NameV
<1>2. CASE op \in {"delete-file", "make-directory", "delete-directory", "make-symlink"}
  <2>1. \E ok, new : Primitive(op, s, b) = Try(ok, fs, new)
    BY <1>2 DEF Primitive, rep_delete_file, rep_make_directory, rep_delete_directory, rep_make_symlink
  <2>2. Null.k # "file"
    BY DEF Null, Value
  <2> QED
    BY <2>1, <2>2, ResultKinds
<1>3. CASE op \in {"file-readable?", "file-writable?", "file-exists?", "file-regular?", "file-directory?", "file-symlink?"}
  <2>1. \E test : Primitive(op, s, b) = Answer(fs, Bool(test))
    BY <1>3 DEF Primitive, rep_file_readable_p, rep_file_writable_p, rep_file_exists_p, rep_file_regular_p,
                rep_file_directory_p, rep_file_symlink_p
  <2> QED
    BY <2>1, AnswerKinds
<1>4. CASE op \in {"file-owner?", "file-nlinks", "file-size", "file-modes"}
  <2>1. \/ Primitive(op, s, b) = Stat(fs, s, Value("t"))
        \/ \E m : Primitive(op, s, b) = Stat(fs, s, [k |-> "int", v |-> m])
        \/ \E m : Primitive(op, s, b) = Stat(fs, s, [k |-> "modes", v |-> m])
    BY <1>4 DEF Primitive, rep_file_owner_p, rep_file_nlinks, rep_file_size, rep_file_modes
  <2> QED
    BY <2>1, AnswerKinds
<1>5. CASE op \in {"file-modes-as-string", "file-modtime"}
  <2>1. \/ \E m : Primitive(op, s, b) = Answer(fs, [k |-> "modes-string", v |-> m])
        \/ \E m : Primitive(op, s, b) = Answer(fs, [k |-> "int", v |-> m])
    BY <1>5 DEF Primitive, rep_file_modes_string, rep_file_modtime
  <2> QED
    BY <2>1, AnswerKinds
<1>6. CASE op \in {"set-file-modes", "directory-files", "read-symlink"}
  <2>1. \/ \E x : Primitive(op, s, b) = Failed(x)
        \/ \E x, m : Primitive(op, s, b) = Answer(x, [k |-> "modes", v |-> m])
        \/ \E x, m : Primitive(op, s, b) = Answer(x, [k |-> "names", v |-> m])
        \/ \E x, m : Primitive(op, s, b) = Answer(x, NameV(m))
    BY <1>6 DEF Primitive, rep_set_file_modes, rep_directory_files, rep_read_symlink
  <2>2. \A x : NoObject(Failed(x))
    BY DEF NoObject, Failed, Value
  <2> QED
    BY <2>1, <2>2, AnswerKinds
<1> QED
  BY <1>1, <1>2, <1>3, <1>4, <1>5, <1>6 DEF NameOps

\* A handler returns no object but one that Lisp code has.
LEMMA AnswersAlive ==
  ASSUME OwnInv, NEW op, NEW a, NEW b, NEW x \in Answers(op, a, b)
  PROVE  RetAlive(file, x.v)
<1>1. CASE op \in PlainOps
  <2>1. x.v = Value("t") \/ x.v = PlainPrimitive(op, a)
    <3>1. CASE op = "file-name-absolute?"
      BY <3>1 DEF Answers, PlainOps, NameOps
    <3>2. CASE op # "file-name-absolute?"
      <4>1. Answers(op, a, b) = {[v |-> PlainPrimitive(op, a), fs |-> fs]}
        BY <1>1, <3>2 DEF Answers, PlainOps, NameOps
      <4> QED
        BY <4>1
    <3> QED
      BY <3>1, <3>2
  <2> QED
    BY <1>1, <2>1, NoFileValue, PlainValues
<1>2. CASE op = "expand-file-name" \/ op = "local-file-name"
  <2>1. x.v = Value("nil") \/ \E n : x.v = NameV(n)
    BY <1>2 DEF Answers, PlainOps, NameOps
  <2> QED
    BY <2>1, NoFileValue
<1>3. CASE op \in NameOps \ {"local-file-name"}
  <2>1. x = Primitive(op, a, b)
    BY <1>3 DEF Answers, PlainOps, NameOps
  <2> QED
    BY <1>3, <2>1, PrimitiveValue DEF NoObject, RetAlive
<1>4. CASE op \in {"rename-file", "copy-file", "copy-file-to-local-fs", "copy-file-from-local-fs"}
  <2>1. x = TwoNames(op, a, b, 9)
    BY <1>4 DEF Answers, PlainOps, NameOps
  <2> QED
    BY <2>1, TwoNamesValue DEF NoObject, RetAlive
<1>5. CASE op = "open-file"
  <2>1. \E f \in held : x.v = FileV(f)
    BY <1>5 DEF Answers, PlainOps, NameOps
  <2> QED
    BY <2>1, OwnFacts DEF RetAlive, FileV, HeldAlive
<1>6. CASE /\ op \notin PlainOps /\ op \notin NameOps
           /\ op \notin {"expand-file-name", "local-file-name", "rename-file", "copy-file", "copy-file-to-local-fs",
                         "copy-file-from-local-fs", "open-file"}
  <2>1. x.v = Value("t")
    BY <1>6 DEF Answers, PlainOps, NameOps
  <2> QED
    BY <2>1, NoFileValue
<1> QED
  BY <1>1, <1>2, <1>3, <1>4, <1>5, <1>6

LEMMA FileCallsOwn == ASSUME OwnInv, FileCalls PROVE OwnInv'
<1>1. CASE \E f \in held : CloseFile(f) \/ FlushFile(f) \/ \E on \in BOOLEAN : SetInputHandler(f, on)
  BY <1>1, CloseFileOwn, FlushFileOwn, SetInputHandlerOwn
<1>2. CASE LispThrows
  <2>1. PICK v : v = IF Top.fn = "input" THEN Value("-") ELSE Null
    OBVIOUS
  <2>2. stack # <<>> /\ Ends(v) /\ file' = file /\ fh' = fh /\ inputs' = inputs /\ held' = held
    BY <1>2, <2>1 DEF LispThrows
  <2>3. RetAlive(file, v)
    BY <2>1, NoFileValue
  <2> QED
    BY <2>2, <2>3, EndsOwn
<1>3. CASE LispReturns
  <2>1. stack # <<>> /\ file' = file /\ fh' = fh /\ inputs' = inputs /\ held' = held
    BY <1>3 DEF LispReturns
  <2>2. Ends(NoValue) \/ \E x \in Answers(Top.pc, Top.a, Top.b) : Ends(x.v)
    BY <1>3 DEF LispReturns
  <2> QED
    BY <2>1, <2>2, NoFileValue, AnswersAlive, EndsOwn
<1> QED
  BY <1>1, <1>2, <1>3, StdFileOwn, InputReadyOwn, GarbageCollectOwn, DropOwn, LispGetsOwn DEF FileCalls

----------------------------------------------------------------------------
(* The functions of files.c *)

\* The same function, further on.
Later(fr, x) == Alike(fr, x) /\ x.fn = fr.fn
\* Where a step leads to.
OwnGoes == RetAlive(file, ret') /\ Framework(file, stack')

LEMMA LaterProper == ASSUME NEW fr, Proper(file, fr), NEW x, Later(fr, x) PROVE Proper(file, x)
  BY StillProper DEF Later

LEMMA LaterFrames ==
  ASSUME NEW fr, Proper(file, fr), NEW pc, NEW a, NEW b, NEW h
  PROVE  /\ Later(fr, [fr EXCEPT !.pc = pc])
         /\ Later(fr, [fr EXCEPT !.a = a])
         /\ fr.fn # "open-file" => Later(fr, [fr EXCEPT !.b = b])
         /\ Later(fr, [fr EXCEPT !.a = a, !.pc = pc])
         /\ Later(fr, [fr EXCEPT !.pc = pc, !.a = a, !.h = h])
         /\ fr.fn # "open-file" => Later(fr, [fr EXCEPT !.b = b, !.g = h])
<1>1. FrameFields \subseteq DOMAIN fr
  BY DEF Proper
<1>2. /\ Later(fr, [fr EXCEPT !.pc = pc]) /\ Later(fr, [fr EXCEPT !.a = a])
      /\ fr.fn # "open-file" => Later(fr, [fr EXCEPT !.b = b])
  BY <1>1 DEF Later, Alike, FrameFields
<1>3. Later(fr, [fr EXCEPT !.a = a, !.pc = pc])
  BY <1>1 DEF Later, Alike, FrameFields
<1>4. Later(fr, [fr EXCEPT !.pc = pc, !.a = a, !.h = h])
  BY <1>1 DEF Later, Alike, FrameFields
<1>5. fr.fn # "open-file" => Later(fr, [fr EXCEPT !.b = b, !.g = h])
  BY <1>1 DEF Later, Alike, FrameFields
<1> QED
  BY <1>2, <1>3, <1>4, <1>5

LEMMA ReturnOwn ==
  ASSUME OwnInv, stack # <<>>, NEW v, RetAlive(file, v), Return(v)
  PROVE  OwnGoes
<1>1. stack' = Tail(stack) /\ ret' = v
  BY DEF Return
<1> QED
  BY <1>1, OwnFacts DEF OwnGoes

LEMMA EnterOwn ==
  ASSUME OwnInv, stack # <<>>, Top.fn # "function", NEW fr, Later(Top, fr), NEW fn, NEW a, NEW b,
         fn \notin {"close-file", "flush-file", "open-file", "function"}, Enter(fr, Frame(fn, a, b))
  PROVE  OwnGoes
<1>1. PICK x : x = Frame(fn, a, b)
  OBVIOUS
<1>2. Proper(file, x) /\ x.fn # "function"
  BY <1>1, NewFrame
<1>3. Proper(file, fr) /\ fr.fn # "function"
  BY OwnFacts, LaterProper DEF Later
<1>4. stack' = <<x, fr>> \o Tail(stack) /\ ret' = NoValue
  BY <1>1 DEF Enter
<1>5. Over(x, fr)
  BY <1>2 DEF Over
<1>6. Framework(file, <<x, fr>> \o Tail(stack))
  BY <1>2, <1>3, <1>5, OwnFacts, FrameworkApply
<1> QED
  BY <1>4, <1>6, NoFileValue DEF OwnGoes

\* The innermost function asks a handler, and returns what it returns.
LEMMA AskedOwn ==
  ASSUME OwnInv, stack # <<>>, Top.fn # "function", NEW fr, Later(Top, fr), NEW h, NEW op,
         rep_call_file_handler(Tail(stack), h, op, fr)
  PROVE  OwnGoes
<1>1. Proper(file, fr) /\ fr.fn # "function" /\ Framework(file, Tail(stack))
  BY OwnFacts, LaterProper DEF Later
<1> QED
  BY <1>1, AsksHandler DEF OwnGoes

\* It asks a handler, and goes on as `next'.
LEMMA AskedOnOwn ==
  ASSUME OwnInv, stack # <<>>, Top.fn # "function", NEW next, Later(Top, next), NEW fr, Later(Top, fr), NEW h, NEW op,
         rep_call_file_handler(<<next>> \o Tail(stack), h, op, fr)
  PROVE  OwnGoes
<1>1. Proper(file, fr) /\ fr.fn # "function" /\ Proper(file, next) /\ next.fn # "function"
  BY OwnFacts, LaterProper DEF Later
<1>2. PICK below : below = <<next>> \o Tail(stack)
  OBVIOUS
<1>3. Framework(file, below)
  BY <1>1, <1>2, OwnFacts, FrameworkPush
<1>4. rep_call_file_handler(below, h, op, fr)
  BY <1>2
<1> QED
  BY <1>1, <1>3, <1>4, AsksHandler DEF OwnGoes

LEMMA LaterSelf == ASSUME NEW fr, Proper(file, fr) PROVE Later(fr, fr)
  BY DEF Later, Alike, Proper

LEMMA GoesOwn ==
  ASSUME OwnInv, OwnGoes, file' = file, fh' = fh, inputs' = inputs, held' = held
  PROVE  OwnInv'
  BY QuietOwn DEF OwnGoes

LEMMA NotFunction ==
  /\ "function" \notin PlainOps /\ "function" \notin NameOps
  /\ \A x \in PlainOps \cup NameOps : x # "function"
  BY DEF PlainOps, NameOps

LEMMA PlainStepOwn == ASSUME OwnInv, PlainStep PROVE OwnInv'
<1>1. stack # <<>> /\ Top.fn \in PlainOps /\ Top.fn # "function"
  BY NotFunction DEF PlainStep
<1>2. file' = file /\ fh' = fh /\ inputs' = inputs /\ held' = held
  BY DEF PlainStep
<1>3. Later(Top, Top)
  BY <1>1, OwnFacts, LaterSelf
<1>4. CASE rep_get_file_handler(Top.fn, Top.a) # NoHandler
  <2>1. rep_call_file_handler(Tail(stack), rep_get_file_handler(Top.fn, Top.a), Top.fn, Top)
    BY <1>4 DEF PlainStep
  <2> QED
    BY <1>1, <1>2, <1>3, <2>1, AskedOwn, GoesOwn
<1>5. CASE rep_get_file_handler(Top.fn, Top.a) = NoHandler
  <2>1. Return(PlainPrimitive(Top.fn, Top.a))
    BY <1>5 DEF PlainStep
  <2>2. RetAlive(file, PlainPrimitive(Top.fn, Top.a))
    BY <1>1, PlainValues
  <2> QED
    BY <1>1, <1>2, <2>1, <2>2, ReturnOwn, GoesOwn
<1> QED
  BY <1>4, <1>5

LEMMA ExpandedOwn ==
  ASSUME OwnInv, stack # <<>>, Top.fn # "function", NEW s, Expanded(s)
  PROVE  OwnGoes
<1>1. CASE rep_get_file_handler("expand-file-name", s) # NoHandler
  <2>1. PICK fr : fr = [Top EXCEPT !.a = s]
    OBVIOUS
  <2>2. Later(Top, fr)
    BY <2>1, OwnFacts, LaterFrames
  <2>3. rep_call_file_handler(Tail(stack), rep_get_file_handler("expand-file-name", s), "expand-file-name", fr)
    BY <1>1, <2>1 DEF Expanded
  <2> QED
    BY <2>2, <2>3, AskedOwn
<1>2. CASE rep_get_file_handler("expand-file-name", s) = NoHandler
  <2>1. Return(NameV(rep_expand_file_name(s)))
    BY <1>2 DEF Expanded
  <2> QED
    BY <2>1, NoFileValue, ReturnOwn
<1> QED
  BY <1>1, <1>2

LEMMA ExpandStepOwn == ASSUME OwnInv, ExpandStep PROVE OwnInv'
<1>1. stack # <<>> /\ Top.fn # "function"
  BY DEF ExpandStep, InC
<1>2. file' = file /\ fh' = fh /\ inputs' = inputs /\ held' = held
  BY DEF ExpandStep
<1>3. PICK absolute : absolute = [Top EXCEPT !.pc = "absolute"]
  OBVIOUS
<1>4. PICK directory : directory = [Top EXCEPT !.pc = "directory"]
  OBVIOUS
<1>5. Later(Top, absolute) /\ Later(Top, directory)
  BY <1>1, <1>3, <1>4, OwnFacts, LaterFrames
<1>6. \/ Enter(absolute, Frame("file-name-absolute?", Top.a, <<>>))
      \/ Enter(directory, Frame("file-name-as-directory", Default, <<>>))
      \/ \E s : Expanded(s)
      \/ Return(Null)
  BY <1>3, <1>4 DEF ExpandStep
<1>7. OwnGoes
  BY <1>1, <1>5, <1>6, EnterOwn, ExpandedOwn, ReturnOwn, NoFileValue
<1> QED
  BY <1>2, <1>7, GoesOwn

LEMMA NameStepOwn == ASSUME OwnInv, NameStep PROVE OwnInv'
<1>1. stack # <<>> /\ Top.fn \in NameOps /\ Top.fn # "function"
  BY NotFunction DEF NameStep
<1>2. file' = file /\ fh' = fh /\ inputs' = inputs /\ held' = held
  BY DEF NameStep
<1>3. PICK expanded : expanded = [Top EXCEPT !.pc = "expanded"]
  OBVIOUS
<1>4. PICK fr : fr = [Top EXCEPT !.a = ret.v]
  OBVIOUS
<1>5. Later(Top, expanded) /\ Later(Top, fr)
  BY <1>1, <1>3, <1>4, OwnFacts, LaterFrames
<1>6. \/ Enter(expanded, Frame("expand-file-name", Top.a, <<>>))
      \/ Return(Null)
      \/ rep_call_file_handler(Tail(stack), rep_get_file_handler(Top.fn, ret.v), Top.fn, fr)
      \/ Return(Primitive(Top.fn, ret.v, Top.b).v)
  BY <1>3, <1>4 DEF NameStep
<1>7. RetAlive(file, Primitive(Top.fn, ret.v, Top.b).v)
  BY <1>1, PrimitiveValue DEF NoObject, RetAlive
<1>8. OwnGoes
  BY <1>1, <1>5, <1>6, <1>7, EnterOwn, AskedOwn, ReturnOwn, NoFileValue
<1> QED
  BY <1>2, <1>8, GoesOwn

LEMMA BothOwn ==
  ASSUME OwnInv, stack # <<>>, Top.fn \in {"rename-file", "copy-file"}, NEW fr, Later(Top, fr), Both(fr)
  PROVE  OwnGoes
<1>1. Top.fn # "function" /\ Proper(file, fr) /\ fr.fn # "open-file"
  BY OwnFacts, LaterProper DEF Later
<1>2. PICK half : half = [fr EXCEPT !.pc = "half"]
  OBVIOUS
<1>3. PICK whole : whole = [fr EXCEPT !.b = Temp]
  OBVIOUS
<1>4. Later(Top, half) /\ Later(Top, whole)
  <2>1. Later(fr, half) /\ Later(fr, whole)
    BY <1>1, <1>2, <1>3, LaterFrames
  <2> QED
    BY <2>1 DEF Later, Alike
<1>5. \/ Return(Null)
      \/ \E kept \in {0, 9} : Return(TwoNames(fr.fn, fr.a, fr.b, kept).v)
      \/ \E h, op : rep_call_file_handler(Tail(stack), h, op, fr)
      \/ rep_call_file_handler(<<half>> \o Tail(stack), fr.h, "copy-file-to-local-fs", whole)
  BY <1>2, <1>3, FilesAssumption DEF Both
<1>6. \A kept : RetAlive(file, TwoNames(fr.fn, fr.a, fr.b, kept).v)
  BY TwoNamesValue DEF NoObject, RetAlive
<1> QED
  BY <1>1, <1>4, <1>5, <1>6, AskedOwn, AskedOnOwn, ReturnOwn, NoFileValue

LEMMA RemoteStepOwn ==
  ASSUME OwnInv, stack # <<>>, Top.fn # "function", RemoteStep
  PROVE  OwnGoes
<1>1. PICK done : done = [Top EXCEPT !.pc = "done"]
  OBVIOUS
<1>2. PICK whole : whole = [Top EXCEPT !.a = Temp]
  OBVIOUS
<1>3. Later(Top, done) /\ Later(Top, whole)
  BY <1>1, <1>2, OwnFacts, LaterFrames
<1>4. \/ Return(Null) \/ Return(ret)
      \/ rep_call_file_handler(<<done>> \o Tail(stack), Top.g, "copy-file-from-local-fs", whole)
  BY <1>1, <1>2 DEF RemoteStep
<1> QED
  BY <1>3, <1>4, AskedOnOwn, ReturnOwn, NoFileValue, OwnFacts

LEMMA TwoNameStepOwn == ASSUME OwnInv, TwoNameStep PROVE OwnInv'
<1>1. /\ stack # <<>> /\ Top.fn \in {"rename-file", "copy-file"} /\ Top.fn # "function" /\ Top.fn # "open-file"
      /\ Proper(file, Top)
  BY OwnFacts DEF TwoNameStep
<1>2. file' = file /\ fh' = fh /\ inputs' = inputs /\ held' = held
  BY DEF TwoNameStep
<1>3. PICK first : first = [Top EXCEPT !.pc = "local-b", !.a = NewName(ret, @), !.h = Found(Top.fn, ret)]
  OBVIOUS
<1>4. PICK second : second = [Top EXCEPT !.b = NewName(ret, @), !.g = Found(Top.fn, ret)]
  OBVIOUS
<1>5. Later(Top, first)
  <2>1. first = [Top EXCEPT !.pc = "local-b", !.a = NewName(ret, Top.a), !.h = Found(Top.fn, ret)]
    BY <1>3
  <2> QED
    BY <1>1, <2>1, LaterFrames
<1>6. Later(Top, second)
  <2>1. second = [Top EXCEPT !.b = NewName(ret, Top.b), !.g = Found(Top.fn, ret)]
    BY <1>4
  <2> QED
    BY <1>1, <2>1, LaterFrames
<1>7. PICK locala : locala = [Top EXCEPT !.pc = "local-a"]
  OBVIOUS
<1>8. PICK expanda : expanda = [Top EXCEPT !.pc = "expand-a"]
  OBVIOUS
<1>9. PICK expandb : expandb = [Top EXCEPT !.pc = "expand-b"]
  OBVIOUS
<1>10. Later(Top, locala) /\ Later(Top, expanda) /\ Later(Top, expandb)
  BY <1>1, <1>7, <1>8, <1>9, LaterFrames
<1>11. \/ Enter(locala, Frame("local-file-name", Top.a, <<>>))
       \/ Enter(expanda, Frame("expand-file-name", Top.a, <<>>))
       \/ Enter(expandb, Frame("expand-file-name", Top.b, <<>>))
       \/ Enter(first, Frame("local-file-name", Top.b, <<>>))
       \/ Both(second) \/ RemoteStep
  BY <1>3, <1>4, <1>7, <1>8, <1>9 DEF TwoNameStep
<1>12. OwnGoes
  BY <1>1, <1>5, <1>6, <1>10, <1>11, EnterOwn, BothOwn, RemoteStepOwn
<1> QED
  BY <1>2, <1>12, GoesOwn

\* fopen() fails: the object is new and bound to nothing.
LEMMA NotOpenedOwn ==
  ASSUME OwnInv, stack # <<>>, Fresh # {}, file' = [file EXCEPT ![NewFile] = Unbound], Return(Null),
         fh' = fh, inputs' = inputs, held' = held
  PROVE  OwnInv'
<1>1. PICK f : f = NewFile
  OBVIOUS
<1>2. f \in File /\ file[f].state = "unborn" /\ Sound(file, fh)
  BY <1>1, Reborn DEF OwnInv
<1>3. Unbound.state = "live" /\ Unbound.handler = "nil" /\ Unbound.std = FALSE /\ Unbound.stream = "nil"
  BY DEF Unbound
<1>4. PICK x : x = Unbound
  OBVIOUS
<1>5. Newborn(x) /\ x.handler # "t" /\ ~x.std
  BY <1>3, <1>4, ProgramsAssumption DEF Newborn
<1>6. Sound([file EXCEPT ![f] = x], fh)
  BY <1>2, <1>5, BornQuiet
<1>7. Sound(file', fh') /\ file' = [file EXCEPT ![NewFile] = x]
  BY <1>1, <1>4, <1>6
<1>8. OwnGoes
  BY NoFileValue, ReturnOwn
<1> QED
  BY <1>5, <1>7, <1>8, BirthStep DEF OwnGoes

\* The first descriptor that is free.
LEMMA FreeFdFacts == ASSUME FreeFd # {} PROVE Min(FreeFd) \in Fd /\ fh[Min(FreeFd)].mode = "closed"
<1>1. FreeFd \subseteq Nat
  BY ProgramsAssumption DEF FreeFd
<1>2. Min(FreeFd) \in FreeFd
  BY <1>1, MinIn
<1> QED
  BY <1>2 DEF FreeFd

\* fopen() has opened the C file d for the new object.
LEMMA OpenedOwn ==
  ASSUME OwnInv, stack # <<>>, Fresh # {}, NEW d \in Fd, fh[d].mode = "closed",
         NEW x, DOMAIN x = DOMAIN Unbound, x.state = "live", x.handler = "t", x.fd = d, x.stream = "nil", x.std = FALSE,
         file' = [file EXCEPT ![NewFile] = x],
         NEW c, DOMAIN c = DOMAIN Closed, c.mode \in OpenModes, fh' = [fh EXCEPT ![d] = c],
         Return(FileV(NewFile)), inputs' = inputs, held' = held
  PROVE  OwnInv'
<1>1. PICK f : f = NewFile
  OBVIOUS
<1>2. f \in File /\ file[f].state = "unborn" /\ Sound(file, fh)
  BY <1>1, Reborn DEF OwnInv
<1>3. Newborn(x)
  BY ProgramsAssumption DEF Newborn
<1>4. Sound([file EXCEPT ![f] = x], [fh EXCEPT ![d] = c])
  BY <1>2, <1>3, BornOpen
<1>5. Sound(file', fh')
  BY <1>1, <1>4
<1>6. stack' = Tail(stack) /\ ret' = FileV(NewFile)
  BY DEF Return
<1>7. Framework(file, stack')
  BY <1>6, OwnFacts
<1> QED
  BY <1>3, <1>5, <1>6, <1>7, BirthStep

LEMMA FopenOwn ==
  ASSUME OwnInv, stack # <<>>, Fresh # {}, NEW s, NEW mode \in OpenModes, Fopen(s, mode), inputs' = inputs, held' = held
  PROVE  OwnInv'
<1> DEFINE to == SysFollow(fs, s)
           can == /\ FreeFd # {}
                  /\ IF mode = "read" THEN SysNode(fs, to).kind = "file"
                     ELSE SysCanMake(fs, to) /\ SysNode(fs, to).kind \in {"none", "file"}
           data == IF mode = "write" THEN <<>> ELSE fs[to].data
<1>1. CASE ~can
  <2>1. file' = [file EXCEPT ![NewFile] = Unbound] /\ Return(Null) /\ fh' = fh
    BY <1>1 DEF Fopen
  <2> QED
    BY <2>1, NotOpenedOwn
<1>2. CASE can
  <2>1. PICK d : d = Min(FreeFd)
    OBVIOUS
  <2>2. PICK x : x = [Unbound EXCEPT !.name = s, !.handler = "t", !.fd = d, !.bogus = mode = "write",
                                     !.line = IF mode = "write" THEN 0 ELSE 1]
    OBVIOUS
  <2>3. PICK c : c = [path |-> to, pos |-> IF mode = "append" THEN Len(data) ELSE 0, mode |-> mode, buf |-> <<>>]
    OBVIOUS
  <2>4. file' = [file EXCEPT ![NewFile] = x] /\ fh' = [fh EXCEPT ![d] = c] /\ Return(FileV(NewFile))
    BY <1>2, <2>1, <2>2, <2>3 DEF Fopen
  <2>5. d \in Fd /\ fh[d].mode = "closed"
    BY <1>2, <2>1, FreeFdFacts
  <2>6. /\ DOMAIN x = DOMAIN Unbound /\ x.state = "live" /\ x.handler = "t" /\ x.fd = d /\ x.stream = "nil"
        /\ x.std = FALSE
    BY <2>2 DEF Unbound
  <2>7. DOMAIN c = DOMAIN Closed /\ c.mode \in OpenModes
    BY <2>3 DEF Closed
  <2> QED
    BY <2>4, <2>5, <2>6, <2>7, OpenedOwn
<1> QED
  BY <1>1, <1>2

\* The name that open-file puts into the object.
LEMMA RenamedSteady ==
  ASSUME OwnInv, NEW f \in File, NEW s
  PROVE  Steady(file, [file EXCEPT ![f].name = s])
<1>1. DOMAIN file = File /\ \A g \in File : DOMAIN Unbound \subseteq DOMAIN file[g]
  BY DEF OwnInv, Sound, Typed
<1>2. PICK x : x = [file[f] EXCEPT !.name = s]
  OBVIOUS
<1>3. PICK new : new = [file EXCEPT ![f].name = s]
  OBVIOUS
<1>4. DOMAIN new = File /\ \A g \in File : new[g] = IF g = f THEN x ELSE file[g]
  BY <1>1, <1>2, <1>3
<1>5. {"state", "handler", "fd", "stream", "std"} \subseteq DOMAIN file[f]
  BY <1>1 DEF Unbound
<1>6. /\ DOMAIN x = DOMAIN file[f] /\ x.state = file[f].state /\ x.handler = file[f].handler /\ x.fd = file[f].fd
      /\ x.stream = file[f].stream /\ x.std = file[f].std
  BY <1>2, <1>5
<1>7. Steady(file, new)
  BY <1>1, <1>4, <1>6 DEF Steady
<1> QED
  BY <1>3, <1>7

LEMMA OpenStepOwn == ASSUME OwnInv, OpenStep PROVE OwnInv'
<1>1. stack # <<>> /\ Top.fn = "open-file" /\ Proper(file, Top) /\ inputs' = inputs /\ held' = held
  BY OwnFacts DEF OpenStep, InC
<1>2. PICK expanded : expanded = [Top EXCEPT !.pc = "expanded"]
  OBVIOUS
<1>3. PICK fr : fr = [Top EXCEPT !.a = ret.v, !.pc = "opened"]
  OBVIOUS
<1>4. Later(Top, expanded) /\ Later(Top, fr)
  BY <1>1, <1>2, <1>3, LaterFrames
<1>5. CASE /\ \/ Enter(expanded, Frame("expand-file-name", Top.a, <<>>))
              \/ Return(Null)
              \/ rep_call_file_handler(<<fr>> \o Tail(stack), rep_get_file_handler("open-file", ret.v), "open-file", fr)
           /\ file' = file /\ fh' = fh
  <2>1. OwnGoes
    BY <1>1, <1>4, <1>5, EnterOwn, ReturnOwn, AskedOnOwn, NoFileValue
  <2> QED
    BY <1>1, <1>5, <2>1, GoesOwn
<1>6. CASE Fresh # {} /\ Fopen(ret.v, Top.b)
  <2>1. Top.b \in OpenModes
    BY <1>1 DEF Proper
  <2> QED
    BY <1>1, <1>6, <2>1, FopenOwn
<1>7. CASE /\ file' = IF ret.k = "file" THEN [file EXCEPT ![ret.v].name = Top.a] ELSE file
           /\ Return(ret) /\ fh' = fh
  <2>1. Steady(file, file')
    <3>1. CASE ret.k = "file"
      <4>1. ret.v \in File
        BY <3>1, OwnFacts DEF RetAlive
      <4> QED
        BY <1>7, <3>1, <4>1, RenamedSteady
    <3>2. CASE ret.k # "file"
      BY <1>7, <3>2, SameFiles
    <3> QED
      BY <3>1, <3>2
  <2>2. OwnGoes
    BY <1>1, <1>7, OwnFacts, ReturnOwn
  <2>3. SteadyC(fh, fh')
    BY <1>7, SameFiles
  <2> QED
    BY <1>1, <2>1, <2>2, <2>3, SteadyStep DEF OwnGoes
<1>8. CASE Top.pc = "start"
  <2>1. Enter(expanded, Frame("expand-file-name", Top.a, <<>>)) /\ file' = file /\ fh' = fh
    BY <1>2, <1>8 DEF OpenStep
  <2> QED
    BY <1>5, <2>1
<1>9. CASE Top.pc = "expanded"
  <2>1. \/ /\ \/ Return(Null)
              \/ rep_call_file_handler(<<fr>> \o Tail(stack), rep_get_file_handler("open-file", ret.v), "open-file", fr)
           /\ file' = file /\ fh' = fh
        \/ Fresh # {} /\ Fopen(ret.v, Top.b)
    BY <1>3, <1>9 DEF OpenStep
  <2> QED
    BY <1>5, <1>6, <2>1
<1>10. CASE Top.pc = "opened"
  <2>1. /\ file' = IF ret.k = "file" THEN [file EXCEPT ![ret.v].name = Top.a] ELSE file
        /\ Return(ret) /\ fh' = fh
    BY <1>10 DEF OpenStep
  <2> QED
    BY <1>7, <2>1
<1> QED
  BY <1>8, <1>9, <1>10 DEF OpenStep

LEMMA FlushStepOwn == ASSUME OwnInv, FlushStep PROVE OwnInv'
<1>1. stack # <<>> /\ Top.fn = "flush-file" /\ Return(FileV(Top.f)) /\ Proper(file, Top)
  BY OwnFacts DEF FlushStep, InC
<1>2. file' = file /\ fh' = fh /\ inputs' = inputs /\ held' = held
  BY DEF FlushStep
<1>3. Top.f \in File /\ file[Top.f].state = "live"
  BY <1>1 DEF Proper, Alive
<1>4. RetAlive(file, FileV(Top.f))
  BY <1>3 DEF RetAlive, FileV
<1> QED
  BY <1>1, <1>2, <1>4, ReturnOwn, GoesOwn

LEMMA FileStepsOwn == ASSUME OwnInv, FileSteps PROVE OwnInv'
  BY PlainStepOwn, ExpandStepOwn, NameStepOwn, TwoNameStepOwn, OpenStepOwn, CloseStepOwn, FlushStepOwn DEF FileSteps

----------------------------------------------------------------------------
(* The way to a function *)

\* One step on the way of a stream, and a way of n steps.
Onward(x, std) == IF x \in File /\ Bound(x) THEN Deref(file[x].stream, std) ELSE x
IsWay(w, n, x, std) == w = [i \in 0 .. n |-> IF i = 0 THEN x ELSE Onward(w[i - 1], std)]

\* A way that stands still after two steps.
LEMMA ShortWay ==
  ASSUME NEW n \in Nat, NEW std, NEW x, NEW y, NEW z, y = Onward(x, std), z = Onward(y, std), Onward(z, std) = z,
         NEW W, W = CHOOSE w : IsWay(w, n, x, std)
  PROVE  W[0] = x /\ \A i \in 1 .. n : W[i] \in {y, z}
<1> DEFINE v == [i \in 0 .. n |-> IF i = 0 THEN x ELSE IF i = 1 THEN y ELSE z]
<1>1. IsWay(v, n, x, std)
  <2>1. ASSUME NEW i \in 0 .. n PROVE v[i] = IF i = 0 THEN x ELSE Onward(v[i - 1], std)
    <3>1. CASE i = 0
      BY <3>1
    <3>2. CASE i = 1
      <4>1. v[1] = y /\ v[0] = x
        BY <3>2
      <4> HIDE DEF v
      <4> QED
        BY <3>2, <4>1
    <3>3. CASE i # 0 /\ i # 1
      <4>1. i - 1 \in 0 .. n /\ i - 1 # 0
        BY <3>3
      <4>2. v[i] = z /\ v[i - 1] \in {y, z}
        BY <3>3, <4>1
      <4> HIDE DEF v
      <4> QED
        BY <3>3, <4>2
    <3> QED
      BY <3>1, <3>2, <3>3
  <2> QED
    BY <2>1 DEF IsWay
<1> HIDE DEF v
<1>2. IsWay(W, n, x, std)
  BY <1>1
<1>3. W = [i \in 0 .. n |-> IF i = 0 THEN x ELSE Onward(W[i - 1], std)]
  BY <1>2 DEF IsWay
<1>4. \A i \in 0 .. n : W[i] = IF i = 0 THEN x ELSE Onward(W[i - 1], std)
  BY <1>3
<1>5. W[0] = x
  BY <1>4
<1> DEFINE T == {i \in 1 .. n : W[i] \notin {y, z}}
<1>6. T = {}
  <2> SUFFICES ASSUME T # {} PROVE FALSE
    OBVIOUS
  <2>1. T \subseteq Nat
    OBVIOUS
  <2>2. PICK m \in T : \A j \in T : ~(<<j, m>> \in OpToRel(<, Nat))
    BY <2>1, NatLessThanWellFounded, WFMin
  <2>3. m \in 1 .. n /\ W[m] \notin {y, z} /\ m \in 0 .. n /\ m # 0
    <3>1. m \in 1 .. n /\ W[m] \notin {y, z}
      BY ONLY m \in T
    <3> QED
      BY ONLY <3>1, n \in Nat
  <2>4. W[m] = Onward(W[m - 1], std)
    BY <1>4, <2>3
  <2>5. m # 1
    BY <1>5, <2>3, <2>4
  <2>6. m - 1 \in 1 .. n /\ m - 1 < m /\ m - 1 \in Nat /\ m \in Nat
    BY <2>3, <2>5
  <2>7. m - 1 \notin T
    BY <2>2, <2>6 DEF OpToRel
  <2>8. W[m - 1] \in {y, z}
    BY <2>6, <2>7
  <2> QED
    BY <2>3, <2>4, <2>8
<1> QED
  BY <1>5, <1>6

\* The only file on the way to a function is the one that is bound to it.
LEMMA FunctionChain ==
  ASSUME OwnInv, NEW s, NEW std \in {"in", "out"}, Base(s, std) = "fun"
  PROVE  Chain(s, std) \subseteq {s}
<1>1. PICK n : n = Cardinality(File)
  OBVIOUS
<1>2. n \in Nat /\ (n = 0 => File = {})
  BY <1>1, ProgramsAssumption, FS_CardinalityType, FS_EmptySet
<1>3. PICK W : W = Way(s, std, Bound)
  OBVIOUS
<1>4. PICK x, y, z : x = Deref(s, std) /\ y = Onward(x, std) /\ z = Onward(y, std)
  OBVIOUS
<1>5. W = CHOOSE w : IsWay(w, n, x, std)
  BY <1>1, <1>3, <1>4 DEF Way, IsWay, Onward
<1>6. std \notin File /\ "fun" \notin File /\ std # "fun" /\ "nil" \notin File
  BY ProgramsAssumption
<1>7. x \in File => x = s
  BY <1>4, <1>6 DEF Deref
<1>8. y \in File /\ y # x => z \in {y, std}
  <2> SUFFICES ASSUME y \in File, y # x PROVE z \in {y, std}
    OBVIOUS
  <2>1. x \in File /\ y = Deref(file[x].stream, std)
    BY <1>4 DEF Onward
  <2>2. y = file[x].stream
    BY <1>6, <2>1 DEF Deref
  <2>3. file[y].stream = "nil"
    BY <2>1, <2>2 DEF OwnInv, Sound, Shallow
  <2> QED
    BY <1>4, <2>3 DEF Onward, Deref
<1>9. y \notin File \/ y = x => z = y
  BY <1>4 DEF Onward
<1>10. Onward(z, std) = z
  BY <1>4, <1>6, <1>8, <1>9 DEF Onward
<1>11. W[0] = x /\ \A i \in 1 .. n : W[i] \in {y, z}
  BY <1>2, <1>4, <1>5, <1>10, ShortWay
<1>12. CASE n = 0
  BY <1>2, <1>12 DEF Chain
<1>13. CASE n # 0
  <2>1. W[n] = "fun" /\ n \in 1 .. n
    BY <1>1, <1>2, <1>3, <1>13 DEF Base
  <2>2. "fun" \in {y, z}
    BY <1>11, <2>1
  <2>3. y \notin File
    <3> SUFFICES ASSUME y \in File PROVE FALSE
      OBVIOUS
    <3>1. z = "fun"
      BY <1>6, <2>2
    <3> QED
      BY <1>6, <1>8, <1>9, <3>1
  <2>4. z = y
    BY <1>9, <2>3
  <2>5. ASSUME NEW i \in 0 .. n, W[i] \in File PROVE W[i] = s
    <3>1. i = 0 \/ i \in 1 .. n
      BY <1>2
    <3> QED
      BY <1>7, <1>11, <2>3, <2>4, <2>5, <3>1
  <2>6. Chain(s, std) = {W[i] : i \in 0 .. n} \cap File
    BY <1>1, <1>3 DEF Chain
  <2> QED
    BY <2>5, <2>6
<1> QED
  BY <1>12, <1>13

----------------------------------------------------------------------------
(* The functions of streams.c *)

\* What reading and writing change of a C file, and of an object.
LEMMA CFileSteady ==
  ASSUME OwnInv, NEW d, NEW x
  PROVE  SteadyC(fh, [fh EXCEPT ![d].pos = x]) /\ SteadyC(fh, [fh EXCEPT ![d].buf = x])
<1>1. DOMAIN fh = Fd /\ \A e \in Fd : DOMAIN Closed \subseteq DOMAIN fh[e]
  BY DEF OwnInv, Sound, Typed
<1>2. ASSUME NEW c, d \in Fd => DOMAIN c = DOMAIN fh[d] /\ c.mode = fh[d].mode,
             NEW n, DOMAIN n = Fd, \A e \in Fd : n[e] = IF e = d THEN c ELSE fh[e]
      PROVE  SteadyC(fh, n)
  BY <1>1, <1>2 DEF SteadyC
<1>3. d \in Fd => "mode" \in DOMAIN fh[d]
  BY <1>1 DEF Closed
<1>4. SteadyC(fh, [fh EXCEPT ![d].pos = x])
  <2>1. PICK c : c = [fh[d] EXCEPT !.pos = x]
    OBVIOUS
  <2>2. PICK n : n = [fh EXCEPT ![d].pos = x]
    OBVIOUS
  <2>3. d \in Fd => DOMAIN c = DOMAIN fh[d] /\ c.mode = fh[d].mode
    BY <1>3, <2>1
  <2>4. DOMAIN n = Fd /\ \A e \in Fd : n[e] = IF e = d THEN c ELSE fh[e]
    BY <1>1, <2>1, <2>2
  <2>5. SteadyC(fh, n)
    BY <1>2, <2>3, <2>4
  <2> QED
    BY <2>2, <2>5
<1>5. SteadyC(fh, [fh EXCEPT ![d].buf = x])
  <2>1. PICK c : c = [fh[d] EXCEPT !.buf = x]
    OBVIOUS
  <2>2. PICK n : n = [fh EXCEPT ![d].buf = x]
    OBVIOUS
  <2>3. d \in Fd => DOMAIN c = DOMAIN fh[d] /\ c.mode = fh[d].mode
    BY <1>3, <2>1
  <2>4. DOMAIN n = Fd /\ \A e \in Fd : n[e] = IF e = d THEN c ELSE fh[e]
    BY <1>1, <2>1, <2>2
  <2>5. SteadyC(fh, n)
    BY <1>2, <2>3, <2>4
  <2> QED
    BY <2>2, <2>5
<1> QED
  BY <1>4, <1>5

LEMMA MovedSteady == ASSUME OwnInv, NEW b, NEW n, Moved(b, n) PROVE SteadyC(fh, fh')
<1>1. CASE b \in File
  <2>1. PICK d, x : d = file[b].fd /\ x = fh[d].pos + n
    OBVIOUS
  <2>2. fh' = [fh EXCEPT ![d].pos = x]
    BY <1>1, <2>1 DEF Moved
  <2> QED
    BY <2>2, CFileSteady
<1>2. CASE b \notin File
  BY <1>2, SameFiles DEF Moved
<1> QED
  BY <1>1, <1>2

\* An object x that differs from y in flags or in the line number.
Flagged(y, x) ==
  /\ DOMAIN x = DOMAIN y
  /\ x.state = y.state /\ x.handler = y.handler /\ x.fd = y.fd /\ x.stream = y.stream /\ x.std = y.std

LEMMA FlaggedSteady ==
  ASSUME OwnInv, NEW new, DOMAIN new = File, \A f \in File : new[f] = file[f] \/ Flagged(file[f], new[f])
  PROVE  Steady(file, new)
<1>1. \A f \in File : DOMAIN Unbound \subseteq DOMAIN file[f]
  BY DEF OwnInv, Sound, Typed
<1>2. ASSUME NEW f \in File
      PROVE  /\ DOMAIN Unbound \subseteq DOMAIN new[f]
             /\ new[f].state = file[f].state /\ new[f].handler = file[f].handler /\ new[f].fd = file[f].fd
             /\ new[f].stream = file[f].stream /\ new[f].std = file[f].std
  <2>1. CASE new[f] = file[f]
    BY <1>1, <2>1
  <2>2. CASE Flagged(file[f], new[f])
    BY <1>1, <2>2 DEF Flagged
  <2> QED
    BY <2>1, <2>2
<1> QED
  BY <1>2 DEF Steady

LEMMA ObjectFlags ==
  ASSUME OwnInv, NEW f \in File, NEW u, NEW v
  PROVE  /\ Flagged(file[f], [file[f] EXCEPT !.line = u])
         /\ Flagged(file[f], [file[f] EXCEPT !.bogus = u])
         /\ Flagged(file[f], [file[f] EXCEPT !.silent = u])
         /\ Flagged(file[f], [file[f] EXCEPT !.bogus = u, !.line = v])
<1>1. {"state", "handler", "fd", "stream", "std"} \subseteq DOMAIN file[f]
  BY DEF OwnInv, Sound, Typed, Unbound
<1>2. PICK y : y = file[f]
  OBVIOUS
<1>3. Flagged(y, [y EXCEPT !.line = u]) /\ Flagged(y, [y EXCEPT !.bogus = u]) /\ Flagged(y, [y EXCEPT !.silent = u])
  BY <1>1, <1>2 DEF Flagged
<1>4. Flagged(y, [y EXCEPT !.bogus = u, !.line = v])
  BY <1>1, <1>2 DEF Flagged
<1> QED
  BY <1>2, <1>3, <1>4

LEMMA CountedSteady == ASSUME OwnInv, NEW chain, NEW c, NEW n, Counted(chain, c, n) PROVE Steady(file, file')
<1>1. DOMAIN file' = File
  BY DEF Counted
<1>2. ASSUME NEW f \in File PROVE file'[f] = file[f] \/ Flagged(file[f], file'[f])
  <2>1. PICK u : u = file[f].line + n
    OBVIOUS
  <2>2. file'[f] = file[f] \/ file'[f] = [file[f] EXCEPT !.line = u]
    BY <2>1 DEF Counted
  <2>3. Flagged(file[f], [file[f] EXCEPT !.line = u])
    BY ObjectFlags
  <2> QED
    BY <2>2, <2>3
<1> QED
  BY <1>1, <1>2, FlaggedSteady

LEMMA OneFlagged ==
  ASSUME OwnInv, NEW f \in File, NEW x, Flagged(file[f], x)
  PROVE  Steady(file, [file EXCEPT ![f] = x])
<1>1. PICK new : new = [file EXCEPT ![f] = x]
  OBVIOUS
<1>2. DOMAIN file = File
  BY DEF OwnInv, Sound, Typed
<1>3. DOMAIN new = File /\ \A g \in File : new[g] = IF g = f THEN x ELSE file[g]
  BY <1>1, <1>2
<1>4. \A g \in File : new[g] = file[g] \/ Flagged(file[g], new[g])
  BY <1>3
<1>5. Steady(file, new)
  BY <1>3, <1>4, FlaggedSteady
<1> QED
  BY <1>1, <1>5

\* A function reads or writes, and goes on.
LEMMA ResumeOwn ==
  ASSUME OwnInv, stack # <<>>, Top.fn # "function", NEW fr, Later(Top, fr), NEW v, RetAlive(file, v), Resume(fr, v)
  PROVE  OwnGoes
<1>1. Proper(file, fr) /\ fr.fn # "function"
  BY OwnFacts, LaterProper DEF Later
<1>2. stack' = <<fr>> \o Tail(stack) /\ ret' = v
  BY DEF Resume
<1>3. Framework(file, <<fr>> \o Tail(stack))
  BY <1>1, OwnFacts, FrameworkPush
<1> QED
  BY <1>2, <1>3 DEF OwnGoes

LEMMA ApplyOwn ==
  ASSUME OwnInv, stack # <<>>, Top.fn # "function", NEW fr, Later(Top, fr), NEW pc, NEW buf,
         NEW chain, chain \cap File \subseteq {fr.s, fr.d}, Apply(fr, pc, buf, chain)
  PROVE  OwnGoes
<1>1. Proper(file, fr) /\ fr.fn # "function"
  BY OwnFacts, LaterProper DEF Later
<1>2. PICK x : x = [Frame("function", <<>>, <<>>) EXCEPT !.pc = pc, !.buf = buf, !.chain = chain]
  OBVIOUS
<1>3. /\ FrameFields \subseteq DOMAIN x /\ x.fn = "function" /\ x.f = NoFile /\ x.s = "nil" /\ x.d = "nil"
      /\ x.chain = chain
  BY <1>2 DEF Frame, FrameFields
<1>4. NoFile \notin File /\ "nil" \notin File
  BY ProgramsAssumption
<1>5. Proper(file, x)
  BY <1>3, <1>4 DEF Proper, Alive
<1>6. Over(x, fr)
  BY <1>3 DEF Over
<1>7. stack' = <<x, fr>> \o Tail(stack) /\ ret' = NoValue
  BY <1>2 DEF Apply
<1>8. Framework(file, <<x, fr>> \o Tail(stack))
  BY <1>1, <1>5, <1>6, OwnFacts, FrameworkApply
<1> QED
  BY <1>7, <1>8, NoFileValue DEF OwnGoes

StreamGoes == Steady(file, file') /\ SteadyC(fh, fh') /\ OwnGoes

LEMMA SameGoes == ASSUME OwnInv, OwnGoes, file' = file, fh' = fh PROVE StreamGoes
  BY SameFiles DEF StreamGoes

LEMMA GetcOwn ==
  ASSUME OwnInv, stack # <<>>, Top.fn # "function", NEW fr, Later(Top, fr), rep_stream_getc(fr)
  PROVE  StreamGoes
<1>1. PICK b : b = Base(fr.s, StandardInput)
  OBVIOUS
<1>2. PICK chain : chain = Chain(fr.s, StandardInput)
  OBVIOUS
<1>3. CASE Resume(fr, Eof) /\ file' = file /\ fh' = fh
  BY <1>3, NoFileValue, ResumeOwn, SameGoes
<1>4. CASE b = "fun" /\ Apply(fr, "get", <<>>, chain) /\ file' = file /\ fh' = fh
  <2>1. chain \subseteq {fr.s}
    BY <1>1, <1>2, <1>4, FunctionChain DEF StandardInput
  <2>2. chain \cap File \subseteq {fr.s, fr.d}
    BY <2>1
  <2> QED
    BY <1>4, <2>2, ApplyOwn, SameGoes
<1>5. CASE \E c : Resume(fr, Byte(c)) /\ Moved(b, 1) /\ Counted(chain, c, 1)
  BY <1>5, NoFileValue, ResumeOwn, MovedSteady, CountedSteady DEF StreamGoes
<1>6. \/ Resume(fr, Eof) /\ file' = file /\ fh' = fh
      \/ b = "fun" /\ Apply(fr, "get", <<>>, chain) /\ file' = file /\ fh' = fh
      \/ \E c : Resume(fr, Byte(c)) /\ Moved(b, 1) /\ Counted(chain, c, 1)
  BY <1>1, <1>2 DEF rep_stream_getc
<1> QED
  BY <1>3, <1>4, <1>5, <1>6

LEMMA UngetcOwn ==
  ASSUME OwnInv, stack # <<>>, Top.fn # "function", NEW fr, Later(Top, fr), NEW c, rep_stream_ungetc(fr, c)
  PROVE  StreamGoes
<1>1. CASE Resume(fr, Byte(c)) /\ file' = file /\ fh' = fh
  BY <1>1, NoFileValue, ResumeOwn, SameGoes
<1>2. CASE Apply(fr, "unget", <<c>>, {}) /\ (\E chain : Counted(chain, c, -1)) /\ fh' = fh
  <2>1. {} \cap File \subseteq {fr.s, fr.d}
    OBVIOUS
  <2>2. OwnGoes
    BY <1>2, <2>1, ApplyOwn
  <2> QED
    BY <1>2, <2>2, SameFiles, CountedSteady DEF StreamGoes
<1>3. CASE Resume(fr, Byte(c)) /\ (\E b : Moved(b, -1)) /\ \E chain : Counted(chain, c, -1)
  BY <1>3, NoFileValue, ResumeOwn, MovedSteady, CountedSteady DEF StreamGoes
<1>4. \/ Resume(fr, Byte(c)) /\ file' = file /\ fh' = fh
      \/ Apply(fr, "unget", <<c>>, {}) /\ (\E chain : Counted(chain, c, -1)) /\ fh' = fh
      \/ Resume(fr, Byte(c)) /\ (\E b : Moved(b, -1)) /\ \E chain : Counted(chain, c, -1)
  BY DEF rep_stream_ungetc
<1> QED
  BY <1>1, <1>2, <1>3, <1>4

\* What rep_stream_putc() and rep_stream_puts() do with the bytes.
Wrote(fr, data) ==
  \/ (\E n : Resume(fr, IntV(n))) /\ (fh' = fh \/ \E d, x : fh' = [fh EXCEPT ![d].buf = x])
  \/ Base(fr.d, StandardOutput) = "fun" /\ Apply(fr, "put", data, Chain(fr.d, StandardOutput)) /\ fh' = fh

LEMMA PutsWrote ==
  ASSUME NEW fr, NEW data
  PROVE  /\ rep_stream_puts(fr, data) => Wrote(fr, data)
         /\ \A c : data = <<c>> /\ rep_stream_putc(fr, c) => Wrote(fr, data)
<1>1. PICK b : b = Base(fr.d, StandardOutput)
  OBVIOUS
<1>2. ASSUME b \in File,
             \E n : /\ fh' = [fh EXCEPT ![file[b].fd].buf = @ \o SubSeq(data, 1, n)]
                    /\ Resume(fr, IntV(n))
      PROVE  Wrote(fr, data)
  <2>1. PICK n : fh' = [fh EXCEPT ![file[b].fd].buf = @ \o SubSeq(data, 1, n)] /\ Resume(fr, IntV(n))
    BY <1>2
  <2>2. PICK d, x : d = file[b].fd /\ x = fh[d].buf \o SubSeq(data, 1, n)
    OBVIOUS
  <2>3. fh' = [fh EXCEPT ![d].buf = x]
    BY <2>1, <2>2
  <2> QED
    BY <2>1, <2>3 DEF Wrote
<1>3. ASSUME rep_stream_puts(fr, data) PROVE Wrote(fr, data)
  <2>1. \/ /\ b \in File
           /\ \E n : /\ fh' = [fh EXCEPT ![file[b].fd].buf = @ \o SubSeq(data, 1, n)]
                     /\ Resume(fr, IntV(n))
        \/ (\E n : Resume(fr, IntV(n))) /\ fh' = fh
        \/ b = "fun" /\ Apply(fr, "put", data, Chain(fr.d, StandardOutput)) /\ fh' = fh
    BY <1>1, <1>3 DEF rep_stream_puts, Puts
  <2> QED
    BY <1>1, <1>2, <2>1 DEF Wrote
<1>4. ASSUME NEW c, data = <<c>>, rep_stream_putc(fr, c) PROVE Wrote(fr, data)
  <2>1. \/ /\ b \in File
           /\ \E n : /\ fh' = [fh EXCEPT ![file[b].fd].buf = @ \o SubSeq(data, 1, n)]
                     /\ Resume(fr, IntV(n))
        \/ (\E n : Resume(fr, IntV(n))) /\ fh' = fh
        \/ b = "fun" /\ Apply(fr, "put", data, Chain(fr.d, StandardOutput)) /\ fh' = fh
    BY <1>1, <1>4 DEF rep_stream_putc, Puts
  <2> QED
    BY <1>1, <1>2, <2>1 DEF Wrote
<1> QED
  BY <1>3, <1>4

LEMMA WroteOwn ==
  ASSUME OwnInv, stack # <<>>, Top.fn # "function", NEW fr, Later(Top, fr), NEW data, Wrote(fr, data), file' = file
  PROVE  StreamGoes
<1>1. CASE (\E n : Resume(fr, IntV(n))) /\ (fh' = fh \/ \E d, x : fh' = [fh EXCEPT ![d].buf = x])
  <2>1. OwnGoes
    BY <1>1, NoFileValue, ResumeOwn
  <2>2. SteadyC(fh, fh')
    <3>1. CASE fh' = fh
      BY <3>1, SameFiles
    <3>2. CASE \E d, x : fh' = [fh EXCEPT ![d].buf = x]
      <4>1. PICK d, x : fh' = [fh EXCEPT ![d].buf = x]
        BY <3>2
      <4>2. SteadyC(fh, [fh EXCEPT ![d].buf = x])
        BY CFileSteady
      <4> QED
        BY <4>1, <4>2
    <3> QED
      BY <1>1, <3>1, <3>2
  <2> QED
    BY <2>1, <2>2, SameFiles DEF StreamGoes
<1>2. CASE Base(fr.d, StandardOutput) = "fun" /\ Apply(fr, "put", data, Chain(fr.d, StandardOutput)) /\ fh' = fh
  <2>1. PICK chain : chain = Chain(fr.d, StandardOutput)
    OBVIOUS
  <2>2. chain \subseteq {fr.d}
    BY <1>2, <2>1, FunctionChain DEF StandardOutput
  <2>3. chain \cap File \subseteq {fr.s, fr.d}
    BY <2>2
  <2>4. OwnGoes
    BY <1>2, <2>1, <2>3, ApplyOwn
  <2> QED
    BY <1>2, <2>4, SameGoes
<1> QED
  BY <1>1, <1>2 DEF Wrote

LEMMA PutsOwn ==
  ASSUME OwnInv, stack # <<>>, Top.fn # "function", NEW fr, Later(Top, fr), file' = file,
         \/ \E data : rep_stream_puts(fr, data)
         \/ \E c : rep_stream_putc(fr, c)
  PROVE  StreamGoes
<1>1. \E data : Wrote(fr, data)
  BY PutsWrote
<1> QED
  BY <1>1, WroteOwn

LEMMA FinishOwn ==
  ASSUME OwnInv, stack # <<>>, NEW v, RetAlive(file, v), NEW bytes, Finish(v, bytes)
  PROVE  OwnGoes
<1>1. Return(v) \/ Return(Null)
  BY DEF Finish
<1> QED
  BY <1>1, NoFileValue, ReturnOwn

LEMMA GivesUpOwn == ASSUME OwnInv, stack # <<>>, Abandon \/ Exit PROVE OwnGoes
<1>1. Return(Null)
  BY DEF Abandon, Exit
<1> QED
  BY <1>1, NoFileValue, ReturnOwn

LEMMA LaterStreams ==
  ASSUME NEW fr, Proper(file, fr), NEW pc, NEW buf, NEW n, NEW arg
  PROVE  /\ Later(fr, [fr EXCEPT !.pc = pc])
         /\ Later(fr, [fr EXCEPT !.buf = buf])
         /\ Later(fr, [fr EXCEPT !.pc = pc, !.buf = buf])
         /\ Later(fr, [fr EXCEPT !.buf = buf, !.pc = pc])
         /\ Later(fr, [fr EXCEPT !.pc = pc, !.buf = buf, !.n = n])
         /\ Later(fr, [fr EXCEPT !.pc = pc, !.arg = arg])
         /\ Later(fr, [fr EXCEPT !.pc = pc, !.buf = buf, !.n = n, !.arg = arg])
         /\ Later(fr, [fr EXCEPT !.pc = pc, !.n = n, !.arg = arg, !.buf = buf])
<1>1. FrameFields \subseteq DOMAIN fr
  BY DEF Proper
<1>2. Later(fr, [fr EXCEPT !.pc = pc]) /\ Later(fr, [fr EXCEPT !.buf = buf])
  BY <1>1 DEF Later, Alike, FrameFields
<1>3. Later(fr, [fr EXCEPT !.pc = pc, !.buf = buf]) /\ Later(fr, [fr EXCEPT !.buf = buf, !.pc = pc])
  BY <1>1 DEF Later, Alike, FrameFields
<1>4. Later(fr, [fr EXCEPT !.pc = pc, !.buf = buf, !.n = n])
  BY <1>1 DEF Later, Alike, FrameFields
<1>5. Later(fr, [fr EXCEPT !.pc = pc, !.arg = arg])
  BY <1>1 DEF Later, Alike, FrameFields
<1>6. Later(fr, [fr EXCEPT !.pc = pc, !.buf = buf, !.n = n, !.arg = arg])
  BY <1>1 DEF Later, Alike, FrameFields
<1>7. Later(fr, [fr EXCEPT !.pc = pc, !.n = n, !.arg = arg, !.buf = buf])
  BY <1>1 DEF Later, Alike, FrameFields
<1> QED
  BY <1>2, <1>3, <1>4, <1>5, <1>6, <1>7

LEMMA StreamStepOwn == ASSUME OwnInv, StreamGoes, inputs' = inputs, held' = held PROVE OwnInv'
  BY SteadyStep DEF StreamGoes, OwnGoes

\* fread() and getline().
LEMMA LocalReadOwn == ASSUME OwnInv, stack # <<>>, Top.s \in File, LocalRead PROVE StreamGoes
<1>1. PICK b : b = Top.s
  OBVIOUS
<1>2. \E n : Moved(b, n)
  BY <1>1 DEF LocalRead
<1>3. SteadyC(fh, fh')
  BY <1>2, MovedSteady
<1>4. \E v, bytes : RetAlive(file, v) /\ Finish(v, bytes)
  BY NoFileValue DEF LocalRead
<1>5. OwnGoes
  BY <1>4, FinishOwn
<1>6. file' = file \/ file' = [file EXCEPT ![b].bogus = TRUE]
  BY <1>1 DEF LocalRead
<1>7. Steady(file, file')
  <2>1. CASE file' = file
    BY <2>1, SameFiles
  <2>2. CASE file' = [file EXCEPT ![b].bogus = TRUE]
    <3>1. PICK x : x = [file[b] EXCEPT !.bogus = TRUE]
      OBVIOUS
    <3>2. Flagged(file[b], x)
      BY <1>1, <3>1, ObjectFlags
    <3>3. file' = [file EXCEPT ![b] = x]
      BY <2>2, <3>1
    <3> QED
      BY <1>1, <3>2, <3>3, OneFlagged
  <2> QED
    BY <1>6, <2>1, <2>2
<1> QED
  BY <1>3, <1>5, <1>7 DEF StreamGoes

LEMMA GotByteOwn ==
  ASSUME OwnInv, stack # <<>>, NEW c, GotByte(c),
         Top.fn \in {"read-byte", "peek-byte", "read-char", "read-bytes", "read-line"}
  PROVE  StreamGoes
<1>1. PICK buf : buf = Append(Top.buf, c)
  OBVIOUS
<1>2. PICK back : back = [Top EXCEPT !.pc = "back", !.buf = buf]
  OBVIOUS
<1>3. PICK again : again = [Top EXCEPT !.buf = buf, !.pc = "get"]
  OBVIOUS
<1>4. Later(Top, back) /\ Later(Top, again) /\ Top.fn # "function"
  BY <1>2, <1>3, OwnFacts, LaterStreams
<1>5. \/ (\E v : RetAlive(file, v) /\ Finish(v, buf)) /\ file' = file /\ fh' = fh
      \/ rep_stream_ungetc(back, c)
      \/ Resume(again, NoValue) /\ file' = file /\ fh' = fh
  BY <1>1, <1>2, <1>3, NoFileValue DEF GotByte
<1> QED
  BY <1>4, <1>5, FinishOwn, UngetcOwn, ResumeOwn, NoFileValue, SameGoes

LEMMA GotEofOwn == ASSUME OwnInv, stack # <<>>, GotEof PROVE StreamGoes
<1>1. (\E v, bytes : RetAlive(file, v) /\ Finish(v, bytes)) /\ file' = file /\ fh' = fh
  BY NoFileValue DEF GotEof
<1> QED
  BY <1>1, FinishOwn, SameGoes

LEMMA ReadStepOwn == ASSUME OwnInv, ReadStep PROVE OwnInv'
<1>1. /\ stack # <<>> /\ Top.fn \in {"read-byte", "peek-byte", "read-char", "read-bytes", "read-line"}
      /\ Top.fn # "function" /\ Proper(file, Top)
  BY OwnFacts DEF ReadStep
<1>2. inputs' = inputs /\ held' = held
  BY DEF ReadStep, Elsewhere
<1>3. PICK got : got = [Top EXCEPT !.pc = "got"]
  OBVIOUS
<1>4. Later(Top, got)
  BY <1>1, <1>3, LaterStreams
<1>5. \/ Top.s \in File /\ LocalRead
      \/ GotEof
      \/ rep_stream_getc(got)
      \/ \E c : GotByte(c)
      \/ Finish(Byte(Top.buf[1]), Top.buf) /\ file' = file /\ fh' = fh
  BY <1>3 DEF ReadStep, Direct
<1>6. StreamGoes
  BY <1>1, <1>4, <1>5, LocalReadOwn, GotEofOwn, GetcOwn, GotByteOwn, FinishOwn, NoFileValue, SameGoes
<1> QED
  BY <1>2, <1>6, StreamStepOwn

LEMMA CopyStepOwn == ASSUME OwnInv, CopyStep PROVE OwnInv'
<1>1. stack # <<>> /\ Top.fn # "function" /\ Proper(file, Top)
  BY OwnFacts DEF CopyStep, InC
<1>2. inputs' = inputs /\ held' = held
  BY DEF CopyStep, Elsewhere
<1>3. PICK got : got = [Top EXCEPT !.pc = "got"]
  OBVIOUS
<1>4. PICK done : done = [Top EXCEPT !.pc = "done"]
  OBVIOUS
<1>5. PICK put : put = [Top EXCEPT !.pc = "put", !.buf = <<ret.v>>, !.n = @ + 1]
  OBVIOUS
<1>6. PICK more : more = [Top EXCEPT !.pc = "get", !.buf = Append(@, ret.v), !.n = @ + 1]
  OBVIOUS
<1>7. PICK get : get = [Top EXCEPT !.pc = "get"]
  OBVIOUS
<1>8. Later(Top, got) /\ Later(Top, done) /\ Later(Top, get)
  BY <1>1, <1>3, <1>4, <1>7, LaterStreams
<1>9. Later(Top, put) /\ Later(Top, more)
  BY <1>1, <1>5, <1>6, LaterStreams
<1>10. CASE Top.pc \in {"start", "get"} /\ ret = NoValue
  <2>1. rep_stream_getc(got)
    BY <1>3, <1>10 DEF CopyStep
  <2> QED
    BY <1>1, <1>2, <1>8, <2>1, GetcOwn, StreamStepOwn
<1>11. CASE Top.pc = "got"
  <2>1. \/ (rep_stream_puts(done, Top.buf) \/ rep_stream_puts(put, Top.buf)) /\ file' = file
        \/ (Abandon \/ Resume(more, NoValue)) /\ file' = file /\ fh' = fh
    BY <1>4, <1>5, <1>6, <1>11 DEF CopyStep
  <2>2. StreamGoes
    BY <1>1, <1>8, <1>9, <2>1, PutsOwn, GivesUpOwn, ResumeOwn, NoFileValue, SameGoes
  <2> QED
    BY <1>2, <2>2, StreamStepOwn
<1>12. CASE Top.pc = "put" \/ Top.pc = "done"
  <2>1. (Abandon \/ Resume(get, NoValue) \/ Finish(IntV(Top.n), <<>>)) /\ file' = file /\ fh' = fh
    BY <1>7, <1>12 DEF CopyStep
  <2>2. StreamGoes
    BY <1>1, <1>8, <2>1, FinishOwn, GivesUpOwn, ResumeOwn, NoFileValue, SameGoes
  <2> QED
    BY <1>2, <2>2, StreamStepOwn
<1> QED
  BY <1>10, <1>11, <1>12 DEF CopyStep

LEMMA WriteStepOwn == ASSUME OwnInv, WriteStep PROVE OwnInv'
<1>1. stack # <<>> /\ Top.fn # "function" /\ Proper(file, Top)
  BY OwnFacts DEF WriteStep
<1>2. inputs' = inputs /\ held' = held
  BY DEF WriteStep, Elsewhere
<1>3. PICK fr : fr = [Top EXCEPT !.buf = Tail(@), !.pc = "put"]
  OBVIOUS
<1>4. Later(Top, fr)
  BY <1>1, <1>3, LaterStreams
<1>5. \/ (rep_stream_putc(fr, Top.buf[1][1]) \/ rep_stream_puts(fr, Top.buf[1])) /\ file' = file
      \/ (Finish(IntV(1), <<>>) \/ Finish(ret, <<>>)) /\ file' = file /\ fh' = fh
  BY <1>3 DEF WriteStep
<1>6. CASE (rep_stream_putc(fr, Top.buf[1][1]) \/ rep_stream_puts(fr, Top.buf[1])) /\ file' = file
  <2>1. StreamGoes
    BY <1>1, <1>4, <1>6, PutsOwn
  <2> QED
    BY <1>2, <2>1, StreamStepOwn
<1>7. CASE (Finish(IntV(1), <<>>) \/ Finish(ret, <<>>)) /\ file' = file /\ fh' = fh
  <2>1. OwnGoes
    BY <1>1, <1>7, FinishOwn, NoFileValue, OwnFacts
  <2> QED
    BY <1>2, <1>7, <2>1, SameGoes, StreamStepOwn
<1> QED
  BY <1>5, <1>6, <1>7

LEMMA GotoOwn ==
  ASSUME OwnInv, stack # <<>>, Top.fn # "function", NEW fr, Later(Top, fr), Goto(fr)
  PROVE  OwnGoes
<1>1. Resume(fr, NoValue)
  BY DEF Goto, Resume
<1> QED
  BY <1>1, NoFileValue, ResumeOwn

LEMMA NextItemOwn == ASSUME OwnInv, stack # <<>>, Top.fn # "function", NextItem PROVE OwnGoes
<1> DEFINE it == Top.a[Top.n]
           arg == IF it.pos > 0 THEN it.pos ELSE Top.arg
<1>1. PICK literal : literal = [Top EXCEPT !.pc = "literal", !.buf = <<it.raw>>, !.n = @ + 1]
  OBVIOUS
<1>2. PICK percent : percent = [Top EXCEPT !.pc = "converted", !.buf = <<<<37>>>>, !.n = @ + 1]
  OBVIOUS
<1>3. PICK hooked : hooked = [Top EXCEPT !.pc = "hooked", !.arg = arg]
  OBVIOUS
<1>4. PICK to : to = [Top EXCEPT !.pc = "converted", !.buf = Converted(it, Top.b[arg]), !.n = @ + 1, !.arg = arg + 1]
  OBVIOUS
<1>5. Proper(file, Top)
  BY OwnFacts
<1>6. Later(Top, literal) /\ Later(Top, percent)
  <2>1. Later(Top, literal)
    BY <1>1, <1>5, LaterStreams
  <2>2. Later(Top, percent)
    BY <1>2, <1>5, LaterStreams
  <2> QED
    BY <2>1, <2>2
<1>7. Later(Top, hooked) /\ Later(Top, to)
  <2>1. Later(Top, hooked)
    BY <1>3, <1>5, LaterStreams
  <2>2. Later(Top, to)
    <3>1. PICK buf, n, a : buf = Converted(it, Top.b[arg]) /\ n = Top.n + 1 /\ a = arg + 1
      OBVIOUS
    <3>2. to = [Top EXCEPT !.pc = "converted", !.buf = buf, !.n = n, !.arg = a]
      BY <1>4, <3>1
    <3> QED
      BY ONLY <1>5, <3>2, LaterStreams
  <2> QED
    BY <2>1, <2>2
<1>8. \/ Return(Null) \/ Return(Bytes(strm["fmt"].data))
      \/ Goto(literal) \/ Goto(percent) \/ Exit
      \/ Apply(hooked, "hook", <<>>, {}) \/ Goto(to)
  BY <1>1, <1>2, <1>3, <1>4 DEF NextItem
<1>9. {} \cap File \subseteq {hooked.s, hooked.d}
  OBVIOUS
<1>10. CASE Apply(hooked, "hook", <<>>, {})
  BY <1>7, <1>9, <1>10, ApplyOwn
<1> HIDE DEF it, arg
<1> QED
  BY <1>6, <1>7, <1>8, <1>10, ReturnOwn, GotoOwn, GivesUpOwn, NoFileValue

LEMMA FormatStepOwn == ASSUME OwnInv, FormatStep PROVE OwnInv'
<1>1. stack # <<>> /\ Top.fn # "function" /\ Proper(file, Top)
  BY OwnFacts DEF FormatStep, InC
<1>2. inputs' = inputs /\ held' = held /\ file' = file
  BY DEF FormatStep, Elsewhere
<1>3. CASE Top.pc = "next"
  <2>1. NextItem /\ fh' = fh
    BY <1>3 DEF FormatStep
  <2> QED
    BY <1>1, <1>2, <2>1, NextItemOwn, GoesOwn
<1>4. CASE Top.pc = "hooked"
  <2>1. PICK fr : fr = [Top EXCEPT !.pc = "converted", !.n = @ + 1, !.arg = @ + 1,
                                   !.buf = Converted(Top.a[Top.n], [k |-> "string", text |-> ret.v])]
    OBVIOUS
  <2>2. Later(Top, fr)
    BY <1>1, <2>1, LaterStreams
  <2>3. (Exit \/ Goto(fr)) /\ fh' = fh
    BY <1>4, <2>1 DEF FormatStep
  <2> QED
    BY <1>1, <1>2, <2>2, <2>3, GivesUpOwn, GotoOwn, GoesOwn
<1>5. CASE Top.pc \in {"literal", "converted", "tail"}
  <2>1. PICK rest : rest = [Top EXCEPT !.buf = Tail(@)]
    OBVIOUS
  <2>2. PICK next : next = [Top EXCEPT !.pc = "next"]
    OBVIOUS
  <2>3. PICK tail : tail = [Top EXCEPT !.pc = "tail", !.buf = <<RawFrom(Top.a, Top.n)>>]
    OBVIOUS
  <2>4. Later(Top, rest) /\ Later(Top, next) /\ Later(Top, tail)
    BY <1>1, <2>1, <2>2, <2>3, LaterStreams
  <2>5. rep_stream_puts(rest, Top.buf[1]) \/ ((Goto(next) \/ Goto(tail) \/ Exit) /\ fh' = fh)
    BY <1>5, <2>1, <2>2, <2>3 DEF FormatStep
  <2>6. CASE rep_stream_puts(rest, Top.buf[1])
    <3>1. StreamGoes
      BY <1>1, <1>2, <2>4, <2>6, PutsOwn
    <3> QED
      BY <1>2, <3>1, StreamStepOwn
  <2>7. CASE (Goto(next) \/ Goto(tail) \/ Exit) /\ fh' = fh
    BY <1>1, <1>2, <2>4, <2>7, GotoOwn, GivesUpOwn, GoesOwn
  <2> QED
    BY <2>5, <2>6, <2>7
<1> QED
  BY <1>3, <1>4, <1>5 DEF FormatStep

LEMMA FunctionOwn == ASSUME OwnInv, LispFunctionReturns \/ LispFunctionThrows PROVE OwnInv'
<1>1. stack # <<>> /\ inputs' = inputs /\ held' = held /\ fh' = fh
  BY DEF LispFunctionReturns, LispFunctionThrows, Elsewhere
<1>2. file' = file \/ \E chain, c : Counted(chain, c, 1)
  BY DEF LispFunctionReturns, LispFunctionThrows
<1>3. \E v : RetAlive(file, v) /\ Return(v)
  BY NoFileValue DEF LispFunctionReturns, LispFunctionThrows
<1>4. OwnGoes
  BY <1>1, <1>3, ReturnOwn
<1>5. Steady(file, file') /\ SteadyC(fh, fh')
  BY <1>1, <1>2, SameFiles, CountedSteady
<1> QED
  BY <1>1, <1>4, <1>5, StreamStepOwn DEF StreamGoes

LEMMA StreamStepsOwn == ASSUME OwnInv, StreamSteps PROVE OwnInv'
  BY ReadStepOwn, CopyStepOwn, WriteStepOwn, FormatStepOwn, FunctionOwn DEF StreamSteps

\* The frame of a stream function that Lisp code calls.
Opens(fr) ==
  /\ FrameFields \subseteq DOMAIN fr
  /\ fr.fn \notin {"function", "close-file", "flush-file", "open-file"}
  /\ fr.f = NoFile /\ fr.chain = {} /\ fr.s \in Sources /\ fr.d \in Sinks \cup {"fmt"}

LEMMA CallStreamOwn == ASSUME OwnInv, NEW fr, Opens(fr), CallStream(fr) PROVE OwnInv'
<1>1. File \cap {NoFile, "nil", "in", "out", "fun", "t", "fmt"} = {}
  BY ProgramsAssumption
<1>2. Alive(file, fr.s)
  BY <1>1, OwnFacts DEF Opens, Sources, HeldAlive, Alive
<1>3. Alive(file, fr.d)
  BY <1>1, OwnFacts DEF Opens, Sinks, HeldAlive, Alive
<1>4. Alive(file, fr.f)
  BY <1>1 DEF Opens, Alive
<1>5. Proper(file, fr) /\ fr.fn # "function"
  BY <1>2, <1>3, <1>4 DEF Opens, Proper
<1>6. Framework(file, <<fr>> \o stack)
  BY <1>5, OwnFacts, FrameworkPush
<1>7. stack' = <<fr>> \o stack /\ file' = file /\ fh' = fh /\ inputs' = inputs /\ held' = held /\ ret' = ret
  BY DEF CallStream
<1> QED
  BY <1>6, <1>7, OwnFacts, QuietOwn

StreamNames == {"read-byte", "peek-byte", "read-char", "read-bytes", "read-line", "copy-stream", "byte-write", "write",
                "print", "princ", "format"}

LEMMA StreamFrames ==
  ASSUME NEW fn \in StreamNames, NEW s \in Sources, NEW d \in Sinks, NEW n, NEW parts, NEW items, NEW args
  PROVE  /\ Opens(Input(fn, s, n))
         /\ Opens([Input(fn, s, n) EXCEPT !.d = d])
         /\ Opens(Puts1(fn, d, parts))
         /\ Opens([Frame(fn, items, args) EXCEPT !.d = IF d = "nil" THEN "fmt" ELSE d, !.n = 1, !.arg = 1, !.pc = "next"])
<1>1. fn \notin {"function", "close-file", "flush-file", "open-file"}
  BY DEF StreamNames
<1>2. "nil" \in Sources /\ "nil" \in Sinks
  BY DEF Sources, Sinks
<1>3. Opens(Input(fn, s, n))
  <2>1. PICK fr : fr = Input(fn, s, n)
    OBVIOUS
  <2>2. /\ FrameFields \subseteq DOMAIN fr /\ fr.fn = fn /\ fr.f = NoFile /\ fr.chain = {} /\ fr.s = s /\ fr.d = "nil"
    BY <2>1 DEF Input, Frame, FrameFields
  <2> QED
    BY <1>1, <1>2, <2>1, <2>2 DEF Opens
<1>4. Opens([Input(fn, s, n) EXCEPT !.d = d])
  <2>1. PICK fr : fr = [Input(fn, s, n) EXCEPT !.d = d]
    OBVIOUS
  <2>2. /\ FrameFields \subseteq DOMAIN fr /\ fr.fn = fn /\ fr.f = NoFile /\ fr.chain = {} /\ fr.s = s /\ fr.d = d
    BY <2>1 DEF Input, Frame, FrameFields
  <2> QED
    BY <1>1, <2>1, <2>2 DEF Opens
<1>5. Opens(Puts1(fn, d, parts))
  <2>1. PICK fr : fr = Puts1(fn, d, parts)
    OBVIOUS
  <2>2. /\ FrameFields \subseteq DOMAIN fr /\ fr.fn = fn /\ fr.f = NoFile /\ fr.chain = {} /\ fr.s = "nil" /\ fr.d = d
    BY <2>1 DEF Puts1, Frame, FrameFields
  <2> QED
    BY <1>1, <1>2, <2>1, <2>2 DEF Opens
<1>6. Opens([Frame(fn, items, args) EXCEPT !.d = IF d = "nil" THEN "fmt" ELSE d, !.n = 1, !.arg = 1, !.pc = "next"])
  <2>1. PICK to : to = IF d = "nil" THEN "fmt" ELSE d
    OBVIOUS
  <2>2. PICK fr : fr = [Frame(fn, items, args) EXCEPT !.d = to, !.n = 1, !.arg = 1, !.pc = "next"]
    OBVIOUS
  <2>3. /\ FrameFields \subseteq DOMAIN fr /\ fr.fn = fn /\ fr.f = NoFile /\ fr.chain = {} /\ fr.s = "nil" /\ fr.d = to
    BY <2>2 DEF Frame, FrameFields
  <2>4. to \in Sinks \cup {"fmt"}
    BY <2>1
  <2>5. Opens(fr)
    BY <1>1, <1>2, <2>3, <2>4 DEF Opens
  <2> QED
    BY <2>1, <2>2, <2>5
<1> QED
  BY <1>3, <1>4, <1>5, <1>6

LEMMA SeekFileOwn == ASSUME OwnInv, NEW f \in held, NEW where, NEW n, SeekFile(f, where, n) PROVE OwnInv'
<1>1. f \in File /\ file[f].state = "live" /\ inputs' = inputs /\ held' = held
  BY OwnFacts DEF SeekFile, HeldAlive
<1>2. CASE ~Local(f)
  <2>1. PICK fr : fr = [Frame("seek-file", <<>>, <<>>) EXCEPT !.f = f]
    OBVIOUS
  <2>2. /\ FrameFields \subseteq DOMAIN fr /\ fr.fn = "seek-file" /\ fr.f = f /\ fr.s = "nil" /\ fr.d = "nil"
        /\ fr.chain = {}
    BY <2>1 DEF Frame, FrameFields
  <2>3. Proper(file, fr)
    BY <1>1, <2>2, ProgramsAssumption DEF Proper, Alive
  <2>4. /\ \/ ret' = Null /\ stack' = stack
           \/ rep_call_file_handler(stack, file[f].by, "seek-file", fr)
        /\ file' = file /\ fh' = fh
    BY <1>2, <2>1 DEF SeekFile, Signalled
  <2>5. CASE ret' = Null /\ stack' = stack
    BY <1>1, <2>4, <2>5, OwnFacts, NoFileValue, QuietOwn
  <2>6. CASE rep_call_file_handler(stack, file[f].by, "seek-file", fr)
    <3>1. Framework(file, stack') /\ RetAlive(file, ret')
      BY <2>2, <2>3, <2>6, OwnFacts, AsksHandler
    <3> QED
      BY <1>1, <2>4, <3>1, QuietOwn
  <2> QED
    BY <2>4, <2>5, <2>6
<1>3. CASE Local(f)
  <2>1. PICK home, line : file' = [file EXCEPT ![f].bogus = ~home, ![f].line = line]
    BY <1>3 DEF SeekFile
  <2>2. PICK x : x = [file[f] EXCEPT !.bogus = ~home, !.line = line]
    OBVIOUS
  <2>3. Flagged(file[f], x)
    BY <1>1, <2>2, ObjectFlags
  <2>4. file' = [file EXCEPT ![f] = x]
    <3>1. DOMAIN file = File
      BY DEF OwnInv, Sound, Typed
    <3> QED
      BY <1>1, <2>1, <2>2, <3>1
  <2>5. Steady(file, file')
    BY <1>1, <2>3, <2>4, OneFlagged
  <2>6. fh' = fh \/ \E d, pos : fh' = [fh EXCEPT ![d].pos = pos]
    BY <1>3 DEF SeekFile
  <2>7. SteadyC(fh, fh')
    <3>1. ASSUME NEW d, NEW pos, fh' = [fh EXCEPT ![d].pos = pos] PROVE SteadyC(fh, fh')
      <4>1. SteadyC(fh, [fh EXCEPT ![d].pos = pos])
        BY CFileSteady
      <4> QED
        BY <3>1, <4>1
    <3> QED
      BY <2>6, <3>1, SameFiles
  <2>8. stack' = stack /\ (ret' = Value("t") \/ ret' = Value("nil") \/ ret' = Null)
    BY <1>3 DEF SeekFile
  <2>9. RetAlive(file, ret') /\ Framework(file, stack')
    BY <2>8, NoFileValue, OwnFacts
  <2> QED
    BY <1>1, <2>5, <2>7, <2>9, SteadyStep
<1> QED
  BY <1>2, <1>3

LEMMA SetFileIgnoreErrorsOwn ==
  ASSUME OwnInv, NEW f \in held, NEW on, SetFileIgnoreErrors(f, on) PROVE OwnInv'
<1>1. f \in File
  BY OwnFacts DEF HeldAlive
<1>2. /\ file' = [file EXCEPT ![f].silent = on] /\ ret' = Value("undefined")
      /\ fh' = fh /\ inputs' = inputs /\ stack' = stack /\ held' = held
  BY DEF SetFileIgnoreErrors
<1>3. PICK x : x = [file[f] EXCEPT !.silent = on]
  OBVIOUS
<1>4. Flagged(file[f], x)
  BY <1>1, <1>3, ObjectFlags
<1>5. file' = [file EXCEPT ![f] = x]
  BY <1>2, <1>3
<1>6. Steady(file, file') /\ SteadyC(fh, fh')
  <2>1. Steady(file, [file EXCEPT ![f] = x])
    BY <1>1, <1>4, OneFlagged
  <2>2. Steady(file, file')
    BY <1>5, <2>1
  <2>3. fh' = fh
    BY <1>2
  <2>4. SteadyC(fh, fh')
    BY <2>3, SameFiles
  <2> QED
    BY <2>2, <2>4
<1>7. RetAlive(file, ret') /\ Framework(file, stack')
  BY <1>2, NoFileValue, OwnFacts
<1> QED
  BY <1>2, <1>6, <1>7, SteadyStep

LEMMA StreamCallsOwn == ASSUME OwnInv, StreamCalls PROVE OwnInv'
<1>1. CASE \E fr : Opens(fr) /\ CallStream(fr)
  BY <1>1, CallStreamOwn
<1>2. CASE \E s \in Sources : ReadByte(s) \/ PeekByte(s) \/ ReadChar(s) \/ ReadLine(s) \/ \E n \in 0 .. 2 : ReadBytes(s, n)
  <2>1. \E fn \in StreamNames, s \in Sources : \E n : CallStream(Input(fn, s, n))
    BY <1>2 DEF ReadByte, PeekByte, ReadChar, ReadLine, ReadBytes, StreamNames
  <2>2. "nil" \in Sinks
    BY DEF Sinks
  <2>3. ASSUME NEW fn \in StreamNames, NEW s \in Sources, NEW n PROVE Opens(Input(fn, s, n))
    BY <2>2, StreamFrames
  <2> QED
    BY <1>1, <2>1, <2>3
<1>3. CASE \E s \in Sources : \E d \in Sinks : CopyStream(s, d)
  <2>1. "copy-stream" \in StreamNames
    BY DEF StreamNames
  <2>2. ASSUME NEW s \in Sources, NEW d \in Sinks PROVE Opens([Input("copy-stream", s, 0) EXCEPT !.d = d])
    BY <2>1, StreamFrames
  <2> QED
    BY <1>1, <1>3, <2>2 DEF CopyStream
<1>4. CASE \/ \E d \in Sinks, s \in Written : ByteWrite(d, s) \/ PrintOn(d, s) \/ Princ(d, s)
           \/ \E d \in Sinks, c \in Chars : WriteChar(d, c)
  <2>1. \E fn \in StreamNames, d \in Sinks : \E parts : CallStream(Puts1(fn, d, parts))
    BY <1>4 DEF ByteWrite, PrintOn, Princ, WriteChar, StreamNames
  <2>2. "nil" \in Sources
    BY DEF Sources
  <2>3. ASSUME NEW fn \in StreamNames, NEW d \in Sinks, NEW parts PROVE Opens(Puts1(fn, d, parts))
    BY <2>2, StreamFrames
  <2> QED
    BY <1>1, <2>1, <2>3
<1>5. CASE \E d \in Sinks, x \in Formats : Format(d, x[1], x[2])
  <2>1. "format" \in StreamNames /\ "nil" \in Sources
    BY DEF StreamNames, Sources
  <2>2. ASSUME NEW d \in Sinks, NEW items, NEW args
        PROVE  Opens([Frame("format", items, args) EXCEPT !.d = IF d = "nil" THEN "fmt" ELSE d, !.n = 1, !.arg = 1,
                                                          !.pc = "next"])
    BY <2>1, StreamFrames
  <2> QED
    BY <1>1, <1>5, <2>2 DEF Format
<1>6. CASE GetOutputStreamString
  <2>1. /\ ret' = Bytes(strm["out"].data)
        /\ file' = file /\ fh' = fh /\ inputs' = inputs /\ stack' = stack /\ held' = held
    BY <1>6 DEF GetOutputStreamString
  <2> QED
    BY <2>1, NoFileValue, OwnFacts, QuietOwn
<1> QED
  BY <1>2, <1>3, <1>4, <1>5, <1>6, SeekFileOwn, SetFileIgnoreErrorsOwn DEF StreamCalls

----------------------------------------------------------------------------
(* The theorem *)

LEMMA InitOwn == Init => OwnInv
<1> SUFFICES ASSUME Init PROVE OwnInv
  OBVIOUS
<1>1. /\ program \in Programs /\ file = program.files /\ fh = program.open
      /\ held = {f \in File : file[f].state = "live"} /\ inputs = <<>> /\ stack = <<>> /\ ret = NoValue
  BY DEF Init
<1>2. Sound(file, fh)
  BY <1>1, ProgramsAssumption
<1>3. IsSeq(<<>>) /\ DOMAIN <<>> = {}
  BY NothingIsSeq, SeqFacts
<1>4. Watched(file, inputs) /\ Framework(file, stack)
  BY <1>1, <1>3 DEF Watched, Framework
<1>5. HeldAlive(file, held)
  BY <1>1 DEF HeldAlive
<1>6. RetAlive(file, ret)
  BY <1>1, NoFileValue
<1> QED
  BY <1>2, <1>4, <1>5, <1>6 DEF OwnInv

\* An open C file has one owner.
LEMMA OneOwner ==
  ASSUME OwnInv, NEW d \in Fd, fh[d].mode \in OpenModes
  PROVE  Cardinality({f \in LiveLocal : file[f].fd = d}) = 1
<1>1. PICK g \in File : OwnFile(file, g) /\ file[g].fd = d
  BY DEF OwnInv, Sound, Owner
<1>2. g \in LiveLocal
  BY <1>1 DEF LiveLocal, OwnFile, Local
<1>3. ASSUME NEW f \in LiveLocal, file[f].fd = d PROVE f = g
  <2>1. f \in File /\ file[f].state = "live" /\ file[f].handler = "t"
    BY DEF LiveLocal, Local
  <2>2. fh[d].mode \in IF file[f].std THEN {"device"} ELSE OpenModes
    BY <1>3, <2>1 DEF OwnInv, Sound, Holds
  <2>3. ~file[f].std
    BY <2>2 DEF OpenModes
  <2>4. OwnFile(file, f)
    BY <2>1, <2>3 DEF OwnFile
  <2> QED
    BY <1>1, <1>3, <2>1, <2>4 DEF OwnInv, Sound, Alone
<1>4. {f \in LiveLocal : file[f].fd = d} = {g}
  BY <1>1, <1>2, <1>3
<1> QED
  BY <1>4, FS_Singleton

\* What a call in progress uses is in its frame, or in the frame below it.
LEMMA UsedAlive ==
  ASSUME OwnInv, NEW i \in DOMAIN stack, NEW f \in File,
         f \in {stack[i].f, stack[i].s, stack[i].d} \/ f \in stack[i].chain
  PROVE  file[f].state = "live"
<1>1. ASSUME NEW j \in DOMAIN stack, f \in {stack[j].f, stack[j].s, stack[j].d} PROVE file[f].state = "live"
  <2>1. Proper(file, stack[j])
    BY OwnFacts DEF Framework
  <2> QED
    BY <1>1, <2>1 DEF Proper, Alive
<1>2. CASE f \in stack[i].chain
  <2>1. Proper(file, stack[i])
    BY OwnFacts DEF Framework
  <2>2. stack[i].fn = "function"
    BY <1>2, <2>1 DEF Proper
  <2>3. i + 1 \in DOMAIN stack /\ Over(stack[i], stack[i + 1])
    BY <2>2, OwnFacts DEF Framework
  <2>4. f \in {stack[i + 1].s, stack[i + 1].d}
    BY <1>2, <2>2, <2>3 DEF Over
  <2> QED
    BY <1>1, <2>3, <2>4
<1> QED
  BY <1>1, <1>2

LEMMA OwnImplies == OwnInv => FilesOwned
<1> SUFFICES ASSUME OwnInv PROVE FilesOwned
  OBVIOUS
<1>1. ASSUME NEW f \in LiveLocal PROVE fh[file[f].fd].mode # "closed"
  <2>1. f \in File /\ file[f].state = "live" /\ file[f].handler = "t"
    BY DEF LiveLocal, Local
  <2>2. fh[file[f].fd].mode \in IF file[f].std THEN {"device"} ELSE OpenModes
    BY <2>1 DEF OwnInv, Sound, Holds
  <2> QED
    BY <2>2 DEF OpenModes
<1>2. ASSUME NEW d \in Fd, fh[d].mode \in {"read", "write", "append"}
      PROVE  Cardinality({f \in LiveLocal : file[f].fd = d}) = 1
  BY <1>2, OneOwner DEF OpenModes
<1>3. ASSUME NEW i \in DOMAIN inputs PROVE inputs[i].f \in LiveLocal /\ file[inputs[i].f].fd = inputs[i].fd
  BY DEF OwnInv, Watched, LiveLocal, Local
<1>4. ASSUME NEW f \in InUse PROVE file[f].state = "live"
  <2> DEFINE used(i) == {stack[i].f, stack[i].s, stack[i].d} \cup stack[i].chain
  <2>1. f \in File /\ (f \in held \/ f \in UNION {used(i) : i \in DOMAIN stack})
    BY DEF InUse
  <2>2. CASE f \in held
    BY <2>2, OwnFacts DEF HeldAlive
  <2>3. CASE f \in UNION {used(i) : i \in DOMAIN stack}
    <3>1. PICK i \in DOMAIN stack : f \in used(i)
      BY <2>3
    <3> QED
      BY <2>1, <3>1, UsedAlive
  <2> QED
    BY <2>1, <2>2, <2>3
<1> QED
  BY <1>1, <1>2, <1>3, <1>4 DEF FilesOwned

LEMMA SameOwn == ASSUME OwnInv, UNCHANGED <<filesVars, streamsVars>> PROVE OwnInv'
<1>1. file' = file /\ fh' = fh /\ inputs' = inputs /\ stack' = stack /\ ret' = ret /\ held' = held
  BY DEF filesVars
<1> QED
  BY <1>1, OwnFacts, QuietOwn

\* Files and objects belong together at every moment, for every program and
\* every set of handlers: whatever is opened, closed, flushed, watched, dropped
\* or collected, by a program, by a handler, by a function that is a stream or
\* by the function of an input handler while another call is in progress, every
\* local object has its open C file, every C file that was opened has exactly
\* one object, no input handler is left for a file that was closed, and nothing
\* that is held or in use has been freed.
THEOREM FilesAreOwned == Spec => []FilesOwned
<1>1. Init => OwnInv
  BY InitOwn
<1>2. OwnInv /\ [Next]_<<filesVars, streamsVars>> => OwnInv'
  <2> SUFFICES ASSUME OwnInv, [Next]_<<filesVars, streamsVars>> PROVE OwnInv'
    OBVIOUS
  <2>1. CASE Next
    BY <2>1, NameCallsOwn, FileCallsOwn, FileStepsOwn, StreamCallsOwn, StreamStepsOwn DEF Next
  <2>2. CASE UNCHANGED <<filesVars, streamsVars>>
    BY <2>2, SameOwn
  <2> QED
    BY <2>1, <2>2
<1>3. OwnInv => FilesOwned
  BY OwnImplies
<1> QED
  BY <1>1, <1>2, <1>3, PTL DEF Spec
=============================================================================
