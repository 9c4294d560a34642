---------------------------- MODULE TablesProofs ----------------------------
(***************************************************************************)
(* Proofs about Tables, for any keys, values, nodes and hash function, and *)
(* functions called from an operation that keep to what Tame allows.       *)
(***************************************************************************)
EXTENDS TablesProps, FiniteSetTheorems, SequenceTheorems, WellFoundedInduction, TLAPS

----------------------------------------------------------------------------
(* Sequences without duplicates *)

\* A set that holds 0, and n + 1 whenever it holds n, up to a bound, holds all
\* numbers up to the bound.
LEMMA Climb ==
  ASSUME NEW b \in Nat, NEW S, 0 \in S, \A n \in 0 .. b : n \in S /\ n < b => n + 1 \in S
  PROVE  0 .. b \subseteq S
<1> SUFFICES ASSUME 0 .. b \ S # {} PROVE FALSE
  OBVIOUS
<1> DEFINE T == 0 .. b \ S
<1>1. T \subseteq Nat /\ T # {}
  OBVIOUS
<1>2. PICK x \in T : \A y \in T : ~(<<y, x>> \in OpToRel(<, Nat))
  BY <1>1, NatLessThanWellFounded, WFMin
<1>3. ASSUME NEW y \in T PROVE ~(y < x)
  <2>1. y \in Nat /\ x \in Nat /\ ~(<<y, x>> \in OpToRel(<, Nat))
    BY <1>1, <1>2
  <2> QED
    BY <2>1 DEF OpToRel
<1>4. x \in 0 .. b /\ x \notin S /\ x # 0
  BY <1>2
<1>5. x - 1 \in 0 .. b /\ x - 1 < b /\ x - 1 < x /\ x - 1 + 1 = x
  BY <1>4
<1>6. x - 1 \notin T
  BY <1>3, <1>5
<1> QED
  BY <1>4, <1>5, <1>6

Distinct(s) == \A i, j \in 1 .. Len(s) : s[i] = s[j] => i = j
Before(s, m, n) == \E i, j \in 1 .. Len(s) : i < j /\ s[i] = m /\ s[j] = n
Has(s, n) == \E i \in 1 .. Len(s) : s[i] = n

LEMMA Members == \A s \in Seq(Node) : \A n : n \in ToSet(s) <=> Has(s, n)
  BY DEF ToSet, Has

\* t holds the members of s up to the i-th that are in S, in their order.
Selects(t, s, S, i) ==
  /\ t \in Seq(Node)
  /\ \A n : Has(t, n) <=> n \in S /\ \E k \in 1 .. i : s[k] = n
  /\ Distinct(s) => Distinct(t)
  /\ \A m, n : Before(t, m, n) <=>
       m \in S /\ n \in S /\ \E k, l \in 1 .. i : k < l /\ s[k] = m /\ s[l] = n

\* The steps of Keep(s, S).
Keeps(F, s, S, b) ==
  /\ F \in [0 .. b -> Seq(Node)]
  /\ F[0] = <<>>
  /\ \A i \in 1 .. b : F[i] = IF s[i] \in S THEN Append(F[i - 1], s[i]) ELSE F[i - 1]

LEMMA KeepsExist ==
  ASSUME NEW s \in Seq(Node), NEW S
  PROVE  \E F : Keeps(F, s, S, Len(s))
<1> DEFINE N == {n \in Nat : \E F : Keeps(F, s, S, n)}
<1>1. 0 \in N
  <2> DEFINE F == [k \in 0 .. 0 |-> <<>>]
  <2>1. Keeps(F, s, S, 0)
    BY DEF Keeps
  <2> QED
    BY <2>1
<1>2. ASSUME NEW n \in 0 .. Len(s), n \in N, n < Len(s) PROVE n + 1 \in N
  <2>1. PICK F : Keeps(F, s, S, n)
    BY <1>2
  <2> DEFINE last == IF s[n + 1] \in S THEN Append(F[n], s[n + 1]) ELSE F[n]
             G == [k \in 0 .. n + 1 |-> IF k = n + 1 THEN last ELSE F[k]]
  <2>2. n \in Nat /\ n + 1 \in 1 .. Len(s) /\ F[n] \in Seq(Node) /\ s[n + 1] \in Node
    <3>1. F \in [0 .. n -> Seq(Node)]
      BY ONLY <2>1 DEF Keeps
    <3>2. n \in Nat /\ n \in 0 .. n /\ n + 1 \in 1 .. Len(s)
      BY <1>2
    <3>3. s[n + 1] \in Node
      BY <3>2
    <3> QED
      BY ONLY <3>1, <3>2, <3>3
  <2>3. last \in Seq(Node)
    BY <2>2
  <2>a. G[n + 1] = last /\ G[n] = F[n]
    <3> HIDE DEF last
    <3> QED
      BY <2>2
  <2>b. \A k \in 0 .. n : G[k] = F[k]
    <3> HIDE DEF last
    <3> QED
      BY <2>2
  <2>c. G \in [0 .. n + 1 -> Seq(Node)]
    <3> HIDE DEF last
    <3> QED
      BY <2>1, <2>2, <2>3 DEF Keeps
  <2> HIDE DEF G
  <2>4. ASSUME NEW i \in 1 .. n + 1 PROVE G[i] = IF s[i] \in S THEN Append(G[i - 1], s[i]) ELSE G[i - 1]
    <3>1. CASE i = n + 1
      BY <2>2, <2>a, <3>1
    <3>2. CASE i # n + 1
      <4>1. i \in 1 .. n /\ i - 1 \in 0 .. n /\ i \in 0 .. n
        BY <2>2, <3>2
      <4> QED
        BY <2>1, <2>b, <4>1 DEF Keeps
    <3> QED
      BY <3>1, <3>2
  <2>5. G[0] = <<>>
    BY <2>1, <2>2, <2>b DEF Keeps
  <2>6. Keeps(G, s, S, n + 1)
    BY <2>4, <2>5, <2>c DEF Keeps
  <2> QED
    BY <2>2, <2>6
<1> HIDE DEF N
<1>3. Len(s) \in Nat
  OBVIOUS
<1>4. Len(s) \in N
  <2>1. 0 .. Len(s) \subseteq N
    BY <1>1, <1>2, <1>3, Climb
  <2> QED
    BY <1>3, <2>1
<1> QED
  BY <1>4 DEF N

\* Adding the next member, or not.
LEMMA SelectsNext ==
  ASSUME NEW s \in Seq(Node), NEW S, NEW i \in 1 .. Len(s), NEW t, Selects(t, s, S, i - 1)
  PROVE  Selects(IF s[i] \in S THEN Append(t, s[i]) ELSE t, s, S, i)
<1>1. CASE s[i] \notin S
  <2>1. \A k \in 1 .. i : k = i \/ k \in 1 .. i - 1
    OBVIOUS
  <2>2. \A k \in 1 .. i - 1 : k \in 1 .. i
    OBVIOUS
  <2> QED
    BY <1>1, <2>1, <2>2 DEF Selects
<1>2. CASE s[i] \in S
  <2> DEFINE u == Append(t, s[i])
  <2>1. t \in Seq(Node) /\ Len(t) \in Nat /\ s[i] \in Node
    BY DEF Selects
  <2>2. /\ u \in Seq(Node) /\ Len(u) = Len(t) + 1 /\ u[Len(t) + 1] = s[i]
        /\ \A j \in 1 .. Len(t) : u[j] = t[j]
    BY <2>1
  <2> HIDE DEF u
  <2>3. \A k \in 1 .. i : k = i \/ k \in 1 .. i - 1
    OBVIOUS
  <2>4. \A k \in 1 .. i - 1 : k \in 1 .. i /\ k < i
    OBVIOUS
  <2>5. \A k \in 1 .. Len(u) : k = Len(u) \/ k \in 1 .. Len(t)
    BY <2>1, <2>2
  <2>6. Len(u) \in 1 .. Len(u) /\ \A k \in 1 .. Len(t) : k \in 1 .. Len(u) /\ k < Len(u)
    BY <2>1, <2>2
  <2>7. \A n : Has(u, n) <=> Has(t, n) \/ n = s[i]
    BY <2>2, <2>5, <2>6 DEF Has
  <2>8. \A m, n : Before(u, m, n) <=> Before(t, m, n) \/ (Has(t, m) /\ n = s[i])
    <3> SUFFICES ASSUME NEW m, NEW n PROVE Before(u, m, n) <=> Before(t, m, n) \/ (Has(t, m) /\ n = s[i])
      OBVIOUS
    <3>1. ASSUME Before(u, m, n) PROVE Before(t, m, n) \/ (Has(t, m) /\ n = s[i])
      <4>1. PICK k, l \in 1 .. Len(u) : k < l /\ u[k] = m /\ u[l] = n
        BY <3>1 DEF Before
      <4>2. k \in 1 .. Len(t)
        BY <2>1, <2>2, <4>1
      <4>3. CASE l = Len(u)
        BY <2>2, <4>1, <4>2, <4>3 DEF Has
      <4>4. CASE l \in 1 .. Len(t)
        BY <2>2, <4>1, <4>2, <4>4 DEF Before
      <4> QED
        BY <2>5, <4>3, <4>4
    <3>2. ASSUME Before(t, m, n) PROVE Before(u, m, n)
      BY <2>2, <2>6, <3>2 DEF Before
    <3>3. ASSUME Has(t, m), n = s[i] PROVE Before(u, m, n)
      BY <2>2, <2>6, <3>3 DEF Has, Before
    <3> QED
      BY <3>1, <3>2, <3>3
  <2>9. \A n : Has(u, n) <=> n \in S /\ \E k \in 1 .. i : s[k] = n
    BY <1>2, <2>3, <2>4, <2>7 DEF Selects
  <2>10. \A m, n : Before(u, m, n) <=>
           m \in S /\ n \in S /\ \E k, l \in 1 .. i : k < l /\ s[k] = m /\ s[l] = n
    <3> SUFFICES ASSUME NEW m, NEW n
                 PROVE Before(u, m, n) <=>
                         m \in S /\ n \in S /\ \E k, l \in 1 .. i : k < l /\ s[k] = m /\ s[l] = n
      OBVIOUS
    <3>1. ASSUME m \in S, n \in S, NEW k \in 1 .. i, NEW l \in 1 .. i, k < l, s[k] = m, s[l] = n
          PROVE  Before(u, m, n)
      <4>1. k \in 1 .. i - 1
        BY <3>1
      <4>2. CASE l = i
        BY <2>8, <3>1, <4>1, <4>2 DEF Selects
      <4>3. CASE l \in 1 .. i - 1
        BY <2>8, <3>1, <4>1, <4>3 DEF Selects
      <4> QED
        BY <2>3, <4>2, <4>3
    <3>2. ASSUME Before(t, m, n)
          PROVE  m \in S /\ n \in S /\ \E k, l \in 1 .. i : k < l /\ s[k] = m /\ s[l] = n
      BY <2>4, <3>2 DEF Selects
    <3>3. ASSUME Has(t, m), n = s[i]
          PROVE  m \in S /\ n \in S /\ \E k, l \in 1 .. i : k < l /\ s[k] = m /\ s[l] = n
      BY <1>2, <2>4, <3>3 DEF Selects
    <3> QED
      BY <2>8, <3>1, <3>2, <3>3
  <2>11. ASSUME Distinct(s) PROVE Distinct(u)
    <3>1. ~Has(t, s[i])
      <4> SUFFICES ASSUME Has(t, s[i]) PROVE FALSE
        OBVIOUS
      <4>1. PICK k \in 1 .. i - 1 : s[k] = s[i]
        BY DEF Selects
      <4> QED
        BY <2>11, <4>1 DEF Distinct
    <3>2. Distinct(t)
      BY <2>11 DEF Selects
    <3> QED
      BY <2>2, <2>5, <3>1, <3>2 DEF Distinct, Has
  <2>12. Selects(u, s, S, i)
    BY <2>2, <2>9, <2>10, <2>11 DEF Selects
  <2> QED
    BY <1>2, <2>12 DEF u
<1> QED
  BY <1>1, <1>2

\* What Keep computes.
LEMMA KeepSelects ==
  ASSUME NEW s \in Seq(Node), NEW S
  PROVE  Selects(Keep(s, S), s, S, Len(s))
<1> DEFINE P(F) == F = [i \in 0 .. Len(s) |->
                          IF i = 0 THEN <<>> ELSE IF s[i] \in S THEN Append(F[i - 1], s[i]) ELSE F[i - 1]]
           kept == CHOOSE F : P(F)
<1>1. Len(s) \in Nat
  OBVIOUS
<1>2. PICK F : Keeps(F, s, S, Len(s))
  BY KeepsExist
<1>3. P(F)
  <2>1. ASSUME NEW i \in 0 .. Len(s)
        PROVE  F[i] = IF i = 0 THEN <<>> ELSE IF s[i] \in S THEN Append(F[i - 1], s[i]) ELSE F[i - 1]
    <3>1. CASE i = 0
      BY <1>2, <3>1 DEF Keeps
    <3>2. CASE i # 0
      <4>1. i \in 1 .. Len(s)
        BY <1>1, <3>2
      <4> QED
        BY <1>2, <3>2, <4>1 DEF Keeps
    <3> QED
      BY <3>1, <3>2
  <2>2. F = [i \in 0 .. Len(s) |-> F[i]]
    BY <1>2 DEF Keeps
  <2> QED
    BY <2>1, <2>2
<1>4. P(kept)
  BY <1>3
<1>5. Keep(s, S) = kept[Len(s)]
  BY DEF Keep
<1> HIDE DEF kept
<1>6. kept[0] = <<>>
  BY <1>1, <1>4
<1>7. ASSUME NEW i \in 1 .. Len(s) PROVE kept[i] = IF s[i] \in S THEN Append(kept[i - 1], s[i]) ELSE kept[i - 1]
  <2>1. i \in 0 .. Len(s) /\ i # 0
    BY <1>1
  <2> QED
    BY <1>4, <2>1
<1> DEFINE N == {i \in Nat : Selects(kept[i], s, S, i)}
<1>8. 0 \in N
  <2>1. <<>> \in Seq(Node) /\ Len(<<>>) = 0 /\ \A k \in 1 .. 0 : FALSE
    OBVIOUS
  <2>2. (\A n : ~Has(<<>>, n)) /\ (\A m, n : ~Before(<<>>, m, n)) /\ Distinct(<<>>)
    BY <2>1 DEF Has, Before, Distinct
  <2> QED
    BY <1>6, <2>1, <2>2 DEF Selects
<1>9. ASSUME NEW n \in 0 .. Len(s), n \in N, n < Len(s) PROVE n + 1 \in N
  <2>1. n + 1 \in 1 .. Len(s) /\ (n + 1) - 1 = n /\ n + 1 \in Nat
    BY <1>1, <1>9
  <2>2. kept[n + 1] = IF s[n + 1] \in S THEN Append(kept[n], s[n + 1]) ELSE kept[n]
    BY <1>7, <2>1
  <2>3. Selects(kept[n], s, S, (n + 1) - 1)
    BY <1>9, <2>1
  <2>4. Selects(kept[n + 1], s, S, n + 1)
    BY <2>1, <2>2, <2>3, SelectsNext
  <2> QED
    BY <2>1, <2>4
<1> HIDE DEF N
<1>10. 0 .. Len(s) \subseteq N
  BY <1>1, <1>8, <1>9, Climb
<1> QED
  BY <1>1, <1>5, <1>10 DEF N

\* ... in terms of s alone.
LEMMA KeepFacts ==
  ASSUME NEW s \in Seq(Node), NEW S
  PROVE  /\ Keep(s, S) \in Seq(Node)
         /\ \A n : Has(Keep(s, S), n) <=> n \in S /\ Has(s, n)
         /\ Distinct(s) => Distinct(Keep(s, S))
         /\ \A m, n : Before(Keep(s, S), m, n) <=> m \in S /\ n \in S /\ Before(s, m, n)
<1>1. Selects(Keep(s, S), s, S, Len(s))
  BY KeepSelects
<1>2. \A n : Has(s, n) <=> \E k \in 1 .. Len(s) : s[k] = n
  BY DEF Has
<1>3. \A m, n : Before(s, m, n) <=> \E k, l \in 1 .. Len(s) : k < l /\ s[k] = m /\ s[l] = n
  BY DEF Before
<1> QED
  BY <1>1, <1>2, <1>3 DEF Selects

LEMMA ConcatFacts ==
  ASSUME NEW s \in Seq(Node), NEW t \in Seq(Node)
  PROVE  /\ s \o t \in Seq(Node)
         /\ \A n : Has(s \o t, n) <=> Has(s, n) \/ Has(t, n)
         /\ Distinct(s) /\ Distinct(t) /\ (\A n : ~(Has(s, n) /\ Has(t, n))) => Distinct(s \o t)
         /\ s # <<>> => s \o t # <<>> /\ Head(s \o t) = Head(s)
         /\ s = <<>> => s \o t = t
<1> DEFINE u == s \o t
<1>1. Len(s) \in Nat /\ Len(t) \in Nat
  OBVIOUS
<1>2. /\ u \in Seq(Node) /\ Len(u) = Len(s) + Len(t)
      /\ \A i \in 1 .. Len(s) + Len(t) : u[i] = IF i <= Len(s) THEN s[i] ELSE t[i - Len(s)]
  BY ConcatProperties
<1> HIDE DEF u
<1>3. \A i \in 1 .. Len(s) : i \in 1 .. Len(u) /\ u[i] = s[i]
  BY <1>1, <1>2
<1>4. ASSUME NEW i \in 1 .. Len(t) PROVE Len(s) + i \in 1 .. Len(u) /\ u[Len(s) + i] = t[i]
  <2>1. Len(s) + i \in 1 .. Len(s) + Len(t) /\ ~(Len(s) + i <= Len(s)) /\ (Len(s) + i) - Len(s) = i
    BY <1>1
  <2> QED
    BY <1>2, <2>1
<1>5. \A i \in 1 .. Len(u) : i \in 1 .. Len(s) \/ (i - Len(s) \in 1 .. Len(t) /\ u[i] = t[i - Len(s)])
  BY <1>1, <1>2
<1>6. \A n : Has(u, n) <=> Has(s, n) \/ Has(t, n)
  <2> SUFFICES ASSUME NEW n PROVE Has(u, n) <=> Has(s, n) \/ Has(t, n)
    OBVIOUS
  <2>1. Has(s, n) => Has(u, n)
    BY <1>3 DEF Has
  <2>2. Has(t, n) => Has(u, n)
    BY <1>4 DEF Has
  <2>3. Has(u, n) => Has(s, n) \/ Has(t, n)
    BY <1>3, <1>5 DEF Has
  <2> QED
    BY <2>1, <2>2, <2>3
<1>7. ASSUME Distinct(s), Distinct(t), \A n : ~(Has(s, n) /\ Has(t, n)) PROVE Distinct(u)
  <2> SUFFICES ASSUME NEW i \in 1 .. Len(u), NEW j \in 1 .. Len(u), u[i] = u[j] PROVE i = j
    BY DEF Distinct
  <2>1. CASE i \in 1 .. Len(s) /\ j \in 1 .. Len(s)
    BY <1>3, <1>7, <2>1 DEF Distinct
  <2>2. CASE i \in 1 .. Len(s) /\ j \notin 1 .. Len(s)
    BY <1>3, <1>5, <1>7, <2>2 DEF Has
  <2>3. CASE i \notin 1 .. Len(s) /\ j \in 1 .. Len(s)
    BY <1>3, <1>5, <1>7, <2>3 DEF Has
  <2>4. CASE i \notin 1 .. Len(s) /\ j \notin 1 .. Len(s)
    <3>1. i - Len(s) \in 1 .. Len(t) /\ j - Len(s) \in 1 .. Len(t) /\ t[i - Len(s)] = t[j - Len(s)]
      BY <1>5, <2>4
    <3>2. i - Len(s) = j - Len(s)
      BY <1>7, <3>1 DEF Distinct
    <3> QED
      BY <1>1, <1>2, <3>2
  <2> QED
    BY <2>1, <2>2, <2>3, <2>4
<1>8. ASSUME s # <<>> PROVE u # <<>> /\ Head(u) = Head(s)
  <2>1. Len(s) > 0 /\ Len(u) > 0
    BY <1>1, <1>2, <1>8
  <2>2. Head(u) = u[1] /\ Head(s) = s[1]
    BY <1>2, <2>1
  <2> QED
    BY <1>1, <1>3, <2>1, <2>2
<1>9. ASSUME s = <<>> PROVE u = t
  BY <1>9, ConcatEmptySeq DEF u
<1> QED
  BY <1>2, <1>6, <1>7, <1>8, <1>9 DEF u

LEMMA ReverseFacts ==
  ASSUME NEW s \in Seq(Node)
  PROVE  /\ Reverse(s) \in Seq(Node)
         /\ \A n : Has(Reverse(s), n) <=> Has(s, n)
         /\ Distinct(s) => Distinct(Reverse(s))
<1> DEFINE r == Reverse(s)
<1>1. Len(s) \in Nat
  OBVIOUS
<1>2. \A i \in 1 .. Len(s) : (Len(s) - i) + 1 \in 1 .. Len(s) /\ (Len(s) - ((Len(s) - i) + 1)) + 1 = i
  BY <1>1
<1>3. r \in Seq(Node) /\ Len(r) = Len(s) /\ \A i \in 1 .. Len(s) : r[i] = s[(Len(s) - i) + 1]
  BY <1>1, <1>2 DEF Reverse
<1> HIDE DEF r
<1>4. \A n : Has(r, n) => Has(s, n)
  BY <1>2, <1>3 DEF Has
<1>5. \A n : Has(s, n) => Has(r, n)
  <2> SUFFICES ASSUME NEW i \in 1 .. Len(s) PROVE Has(r, s[i])
    BY DEF Has
  <2>1. r[(Len(s) - i) + 1] = s[i]
    BY <1>2, <1>3
  <2> QED
    BY <1>2, <1>3, <2>1 DEF Has
<1>6. ASSUME Distinct(s) PROVE Distinct(r)
  <2> SUFFICES ASSUME NEW i \in 1 .. Len(s), NEW j \in 1 .. Len(s), r[i] = r[j] PROVE i = j
    BY <1>3 DEF Distinct
  <2>1. (Len(s) - i) + 1 = (Len(s) - j) + 1
    BY <1>2, <1>3, <1>6 DEF Distinct
  <2> QED
    BY <1>1, <2>1
<1> QED
  BY <1>3, <1>4, <1>5, <1>6 DEF r

LEMMA ConsFacts ==
  ASSUME NEW s \in Seq(Node), NEW n \in Node
  PROVE  /\ <<n>> \o s \in Seq(Node)
         /\ \A m : Has(<<n>> \o s, m) <=> m = n \/ Has(s, m)
         /\ Distinct(s) /\ ~Has(s, n) => Distinct(<<n>> \o s)
<1> DEFINE e == <<n>>
<1>1. e \in Seq(Node) /\ Len(e) = 1 /\ e[1] = n
  OBVIOUS
<1> HIDE DEF e
<1>2. (\A m : Has(e, m) <=> m = n) /\ Distinct(e)
  BY <1>1 DEF Has, Distinct
<1>3. /\ e \o s \in Seq(Node)
      /\ \A m : Has(e \o s, m) <=> Has(e, m) \/ Has(s, m)
      /\ Distinct(e) /\ Distinct(s) /\ (\A m : ~(Has(e, m) /\ Has(s, m))) => Distinct(e \o s)
  BY <1>1, ConcatFacts
<1> QED
  BY <1>2, <1>3 DEF e

\* t is the concatenation of the first i sequences of bs.
Joins(t, bs, i) ==
  /\ t \in Seq(Node)
  /\ \A n : Has(t, n) <=> \E b \in 1 .. i : Has(bs[b], n)
  /\ (/\ \A b \in 1 .. i : Distinct(bs[b])
      /\ \A b, c \in 1 .. i : \A n : Has(bs[b], n) /\ Has(bs[c], n) => b = c) => Distinct(t)
  /\ t # <<>> => \E b \in 1 .. i : /\ bs[b] # <<>> /\ Head(t) = Head(bs[b])
                                   /\ \A c \in 1 .. i : c < b => bs[c] = <<>>
  /\ t = <<>> => \A b \in 1 .. i : bs[b] = <<>>

LEMMA JoinsNext ==
  ASSUME NEW bs, NEW t, NEW i \in Nat, Joins(t, bs, i), bs[i + 1] \in Seq(Node)
  PROVE  Joins(t \o bs[i + 1], bs, i + 1)
<1> DEFINE s == bs[i + 1]
           u == t \o s
<1>1. \A b \in 1 .. i + 1 : b = i + 1 \/ b \in 1 .. i
  OBVIOUS
<1>2. i + 1 \in 1 .. i + 1 /\ \A b \in 1 .. i : b \in 1 .. i + 1 /\ b < i + 1 /\ b # i + 1
  OBVIOUS
<1>3. t \in Seq(Node) /\ s \in Seq(Node)
  BY DEF Joins
<1>4. /\ u \in Seq(Node)
      /\ \A n : Has(u, n) <=> Has(t, n) \/ Has(s, n)
      /\ Distinct(t) /\ Distinct(s) /\ (\A n : ~(Has(t, n) /\ Has(s, n))) => Distinct(u)
      /\ t # <<>> => u # <<>> /\ Head(u) = Head(t)
      /\ t = <<>> => u = s
  BY <1>3, ConcatFacts
<1> HIDE DEF u
<1>5. \A n : Has(u, n) <=> \E b \in 1 .. i + 1 : Has(bs[b], n)
  BY <1>1, <1>2, <1>4 DEF Joins
<1>6. ASSUME \A b \in 1 .. i + 1 : Distinct(bs[b]),
             \A b, c \in 1 .. i + 1 : \A n : Has(bs[b], n) /\ Has(bs[c], n) => b = c
      PROVE  Distinct(u)
  <2>1. Distinct(t)
    BY <1>2, <1>6 DEF Joins
  <2>2. \A n : ~(Has(t, n) /\ Has(s, n))
    BY <1>2, <1>6 DEF Joins
  <2> QED
    BY <1>2, <1>4, <1>6, <2>1, <2>2
<1>7. ASSUME u # <<>>
      PROVE  \E b \in 1 .. i + 1 : /\ bs[b] # <<>> /\ Head(u) = Head(bs[b])
                                   /\ \A c \in 1 .. i + 1 : c < b => bs[c] = <<>>
  <2>1. CASE t # <<>>
    <3>1. PICK b \in 1 .. i : /\ bs[b] # <<>> /\ Head(t) = Head(bs[b])
                              /\ \A c \in 1 .. i : c < b => bs[c] = <<>>
      BY <2>1 DEF Joins
    <3>2. \A c \in 1 .. i + 1 : c < b => c \in 1 .. i
      OBVIOUS
    <3> QED
      BY <1>2, <1>4, <2>1, <3>1, <3>2
  <2>2. CASE t = <<>>
    <3>1. u = s /\ \A b \in 1 .. i : bs[b] = <<>>
      BY <1>4, <2>2 DEF Joins
    <3>2. \A c \in 1 .. i + 1 : c < i + 1 => c \in 1 .. i
      OBVIOUS
    <3> QED
      BY <1>2, <1>7, <3>1, <3>2
  <2> QED
    BY <2>1, <2>2
<1>8. ASSUME u = <<>> PROVE \A b \in 1 .. i + 1 : bs[b] = <<>>
  BY <1>1, <1>4, <1>8 DEF Joins
<1> QED
  BY <1>4, <1>5, <1>6, <1>7, <1>8 DEF Joins, u

\* The steps of FlattenSeq(bs).
Flattens(F, bs, n) ==
  /\ F \in [1 .. n -> Seq(Node)]
  /\ n > 0 => F[1] = bs[1]
  /\ \A i \in 1 .. n : i # 1 => F[i] = F[i - 1] \o bs[i]

LEMMA FlattensExist ==
  ASSUME NEW bs \in Seq(Seq(Node))
  PROVE  \E F : Flattens(F, bs, Len(bs))
<1> DEFINE N == {n \in Nat : \E F : Flattens(F, bs, n)}
<1>1. Len(bs) \in Nat /\ \A i \in 1 .. Len(bs) : bs[i] \in Seq(Node)
  OBVIOUS
<1>2. 0 \in N
  <2> DEFINE F == [k \in 1 .. 0 |-> <<>>]
  <2>1. Flattens(F, bs, 0)
    BY DEF Flattens
  <2> QED
    BY <2>1
<1>3. ASSUME NEW n \in 0 .. Len(bs), n \in N, n < Len(bs) PROVE n + 1 \in N
  <2>1. PICK F : Flattens(F, bs, n)
    BY <1>3
  <2> DEFINE last == IF n = 0 THEN bs[1] ELSE F[n] \o bs[n + 1]
             G == [k \in 1 .. n + 1 |-> IF k = n + 1 THEN last ELSE F[k]]
  <2>2. n \in Nat /\ n + 1 \in 1 .. Len(bs) /\ bs[n + 1] \in Seq(Node) /\ bs[1] \in Seq(Node)
    BY <1>1, <1>3
  <2>3. last \in Seq(Node)
    <3>1. CASE n = 0
      BY <2>2, <3>1
    <3>2. CASE n # 0
      <4>1. F[n] \in Seq(Node)
        BY <2>1, <2>2, <3>2 DEF Flattens
      <4> QED
        BY <2>2, <3>2, <4>1
    <3> QED
      BY <3>1, <3>2
  <2>4. G[n + 1] = last
    <3> HIDE DEF last
    <3> QED
      BY <2>2
  <2>5. \A k \in 1 .. n : G[k] = F[k]
    <3> HIDE DEF last
    <3> QED
      BY <2>2
  <2>6. G \in [1 .. n + 1 -> Seq(Node)]
    <3> HIDE DEF last
    <3> QED
      BY <2>1, <2>2, <2>3 DEF Flattens
  <2> HIDE DEF G
  <2>7. ASSUME NEW i \in 1 .. n + 1, i # 1 PROVE G[i] = G[i - 1] \o bs[i]
    <3>1. CASE i = n + 1
      <4>1. n # 0 /\ i - 1 = n /\ n \in 1 .. n
        BY <2>2, <2>7, <3>1
      <4> QED
        BY <2>4, <2>5, <3>1, <4>1
    <3>2. CASE i # n + 1
      <4>1. i \in 1 .. n /\ i - 1 \in 1 .. n
        BY <2>2, <2>7, <3>2
      <4> QED
        BY <2>1, <2>5, <2>7, <4>1 DEF Flattens
    <3> QED
      BY <3>1, <3>2
  <2>8. G[1] = bs[1]
    <3>1. CASE n = 0
      BY <2>4, <3>1
    <3>2. CASE n # 0
      <4>1. 1 \in 1 .. n /\ n > 0
        BY <2>2, <3>2
      <4> QED
        BY <2>1, <2>5, <4>1 DEF Flattens
    <3> QED
      BY <3>1, <3>2
  <2>9. Flattens(G, bs, n + 1)
    BY <2>6, <2>7, <2>8 DEF Flattens
  <2> QED
    BY <2>2, <2>9
<1> HIDE DEF N
<1>4. Len(bs) \in N
  <2>1. 0 .. Len(bs) \subseteq N
    BY <1>1, <1>2, <1>3, Climb
  <2> QED
    BY <1>1, <2>1
<1> QED
  BY <1>4 DEF N

LEMMA FlattenJoins ==
  ASSUME NEW bs \in Seq(Seq(Node))
  PROVE  Joins(FlattenSeq(bs), bs, Len(bs))
<1>1. Len(bs) \in Nat /\ \A i \in 1 .. Len(bs) : bs[i] \in Seq(Node)
  OBVIOUS
<1>e. Joins(<<>>, bs, 0)
  <2>1. <<>> \in Seq(Node) /\ Len(<<>>) = 0 /\ \A k \in 1 .. 0 : FALSE
    OBVIOUS
  <2>2. (\A n : ~Has(<<>>, n)) /\ Distinct(<<>>)
    BY <2>1 DEF Has, Distinct
  <2> QED
    BY <2>1, <2>2 DEF Joins
<1>2. CASE Len(bs) = 0
  <2>1. bs = <<>> /\ FlattenSeq(bs) = bs
    BY <1>1, <1>2 DEF FlattenSeq
  <2> QED
    BY <1>2, <1>e, <2>1
<1>3. CASE Len(bs) # 0
  <2> DEFINE P(F) == F = [i \in 1 .. Len(bs) |-> IF i = 1 THEN bs[i] ELSE F[i - 1] \o bs[i]]
             flat == CHOOSE F : P(F)
  <2>1. PICK F : Flattens(F, bs, Len(bs))
    BY FlattensExist
  <2>2. P(F)
    <3>1. ASSUME NEW i \in 1 .. Len(bs) PROVE F[i] = IF i = 1 THEN bs[i] ELSE F[i - 1] \o bs[i]
      <4>1. CASE i = 1
        <5>1. F[1] = bs[1]
          BY <1>1, <1>3, <2>1 DEF Flattens
        <5> QED
          BY <4>1, <5>1
      <4>2. CASE i # 1
        <5>1. F[i] = F[i - 1] \o bs[i]
          BY <2>1, <4>2 DEF Flattens
        <5> QED
          BY <4>2, <5>1
      <4> QED
        BY <4>1, <4>2
    <3>2. F = [i \in 1 .. Len(bs) |-> F[i]]
      BY <2>1 DEF Flattens
    <3> QED
      BY <3>1, <3>2
  <2>3. P(flat)
    BY <2>2
  <2>4. FlattenSeq(bs) = flat[Len(bs)]
    BY <1>3 DEF FlattenSeq
  <2> HIDE DEF flat
  <2>5. \A i \in 1 .. Len(bs) : flat[i] = IF i = 1 THEN bs[i] ELSE flat[i - 1] \o bs[i]
    BY <2>3
  <2> DEFINE N == {i \in Nat : i = 0 \/ Joins(flat[i], bs, i)}
  <2>6. 0 \in N
    OBVIOUS
  <2>7. ASSUME NEW n \in 0 .. Len(bs), n \in N, n < Len(bs) PROVE n + 1 \in N
    <3>1. n \in Nat /\ n + 1 \in 1 .. Len(bs) /\ (n + 1) - 1 = n /\ bs[n + 1] \in Seq(Node)
      BY <1>1, <2>7
    <3>2. CASE n = 0
      <4>1. flat[n + 1] = <<>> \o bs[n + 1]
        <5>1. flat[n + 1] = bs[n + 1]
          BY <2>5, <3>1, <3>2
        <5>2. <<>> \o bs[n + 1] = bs[n + 1]
          BY <3>1, ConcatEmptySeq
        <5> QED
          BY <5>1, <5>2
      <4>2. Joins(<<>> \o bs[n + 1], bs, n + 1)
        <5>1. Joins(<<>>, bs, n)
          BY <1>e, <3>2
        <5> QED
          BY <3>1, <5>1, JoinsNext
      <4> QED
        BY <3>1, <4>1, <4>2
    <3>3. CASE n # 0
      <4>1. flat[n + 1] = flat[n] \o bs[n + 1]
        <5>1. n + 1 # 1
          BY <3>1, <3>3
        <5>2. flat[n + 1] = flat[(n + 1) - 1] \o bs[n + 1]
          BY <2>5, <3>1, <5>1
        <5> QED
          BY <3>1, <5>2
      <4>2. Joins(flat[n], bs, n)
        BY <2>7, <3>3
      <4>3. Joins(flat[n] \o bs[n + 1], bs, n + 1)
        BY <3>1, <4>2, JoinsNext
      <4>4. Joins(flat[n + 1], bs, n + 1)
        BY <4>1, <4>3
      <4>5. n + 1 \in Nat
        BY <3>1
      <4> QED
        BY <4>4, <4>5
    <3> QED
      BY <3>2, <3>3
  <2> HIDE DEF N
  <2>8. 0 .. Len(bs) \subseteq N
    BY <1>1, <2>6, <2>7, Climb
  <2>9. Len(bs) \in N
    BY <1>1, <2>8
  <2> QED
    BY <1>3, <2>4, <2>9 DEF N
<1> QED
  BY <1>2, <1>3

----------------------------------------------------------------------------
(* The inductive invariant.  Its parts are stated of any buckets bs, nodes nd, *)
(* objects ob and operations st, so that no lemma has to speak of two states.  *)

\* What functions called from an operation do: they store only under keys that
\* are in the table, delete no node that an operation in progress points to and
\* collect no garbage while keys are compared by equal?.  A function called by
\* an operation that was itself called from one does not delete the key that
\* this one is about to set.
Tame ==
  /\ CallbackOps \cap {"grow", "delete-held", "equal-gc"} = {}
  /\ MaxDepth <= 1 \/ ~({"set", "delete"} \subseteq CallbackOps)

Alike(te, k, l) == IF te = "eq" THEN k = l ELSE ClassOf[k] = ClassOf[l]

Entries == [key : Key, value : Value, hash : Nat]
Used(nd) == {n \in Node : nd[n] # FreeNode}
Home(bs, k) == bs[Bin(HashKey(k), Len(bs))]

\* Every node in use is in the bucket of its key, once, and no two have one key.
Filed(te, bs, nd) ==
  /\ bs \in Seq(Seq(Node))
  /\ nd \in [Node -> Entries \cup {FreeNode}]
  /\ \A b \in 1 .. Len(bs) : Distinct(bs[b])
  /\ \A b \in 1 .. Len(bs) : \A n \in Node :
       Has(bs[b], n) => n \in Used(nd) /\ Bin(HashKey(nd[n].key), Len(bs)) = b
  /\ \A n \in Used(nd) : nd[n].hash = HashKey(nd[n].key)
  /\ \A n \in Used(nd) : Len(bs) > 0 /\ Has(Home(bs, nd[n].key), n)
  /\ \A m, n \in Used(nd) : Alike(te, nd[m].key, nd[n].key) => m = n

Frames ==
  [op : {"ref", "set", "delete", "walk"}, key : Key \cup {Nil}, value : Value \cup {Nil} \cup Nat,
   pc : {"hash", "compare", "rehash", "call"}, ptr : Node \cup {Nil}, seen : Seq(Node), threw : BOOLEAN]

\* The key of f is in the table.
Present(te, nd, f) == \E n \in Used(nd) : Alike(te, f.key, nd[n].key)

\* The nodes that a walk has still before it.
ToCome(bs, f, n) == Before(bs[f.value], f.ptr, n) \/ \E b \in f.value + 1 .. Len(bs) : Has(bs[b], n)

\* table-for-each has been called for f.seen, and is at f.ptr.
Walks(bs, nd, f) ==
  /\ f.pc = "call" /\ f.key = Nil /\ f.ptr # Nil
  /\ f.value \in 1 .. Len(bs) /\ Has(bs[f.value], f.ptr)
  /\ Distinct(f.seen)
  /\ Has(f.seen, f.ptr)
  /\ \A n \in Node : ToCome(bs, f, n) => ~Has(f.seen, n)
  /\ ~f.threw => \A n \in Used(nd) : Has(f.seen, n) \/ ToCome(bs, f, n)

\* lookup() has not passed the node it looks for.
Looks(te, bs, nd, f) ==
  /\ f.key \in Key
  /\ f.pc \in {"hash", "compare", "rehash"}
  /\ f.pc = "compare" <=> f.ptr # Nil
  /\ f.pc # "rehash" => Len(bs) > 0
  /\ f.pc = "rehash" => f.op = "set" /\ ~Present(te, nd, f)
  /\ f.op = "set" => f.value \in Value
  /\ f.pc = "compare" => \A n \in Used(nd) :
       Alike(te, f.key, nd[n].key) => n = f.ptr \/ Before(Home(bs, f.key), f.ptr, n)

\* An operation called from another one.
Nested(te, nd, f) == f.op \in CallbackOps /\ (f.op = "set" => Present(te, nd, f))

\* The operation f may be the i-th in progress, on the first i - 1 of st.
Fits(te, bs, nd, ob, st, i, f) ==
  /\ f.ptr # Nil => f.ptr \in Used(nd) /\ (f.op # "walk" => Has(Home(bs, f.key), f.ptr))
  /\ f.op = "walk" => i = 1 /\ Walks(bs, nd, f)
  /\ f.op # "walk" => Looks(te, bs, nd, f) /\ ob[f.key] = "live"
  /\ i > 1 => Nested(te, nd, f)
  /\ f.op = "delete" =>
       \A j \in 1 .. i - 1 : st[j].ptr # Nil => ~Alike(te, f.key, nd[st[j].ptr].key)

\* The count, the guardian and the objects agree with the nodes in use.
Counted(wk, nd, tn, gd, ob) ==
  /\ IsFiniteSet(Used(nd)) /\ tn = Cardinality(Used(nd))
  /\ gd \subseteq Key /\ (~wk => gd = {}) /\ (wk => \A n \in Used(nd) : nd[n].key \in gd)
  /\ ob \in [Key -> {"live", "dropped", "free"}]
  /\ \A n \in Used(nd) : ob[nd[n].key] # "free"

Stacked(te, bs, nd, ob, st) ==
  /\ st \in Seq(Frames) /\ Len(st) <= MaxDepth + 1
  /\ \A i \in 1 .. Len(st) : Fits(te, bs, nd, ob, st, i, st[i])

IndInv ==
  /\ test \in {"eq", "equal"} /\ weak \in BOOLEAN
  /\ Filed(test, bins, node)
  /\ Counted(weak, node, total_nodes, guardian, object)
  /\ Stacked(test, bins, node, object, stack)

----------------------------------------------------------------------------
(* Facts about tables *)

LEMMA HashType == \A k \in Key : HashKey(k) \in Nat
  BY TablesAssumption DEF HashKey

LEMMA BinType == \A h \in Nat, size \in Nat \ {0} : Bin(h, size) \in 1 .. size
<1> SUFFICES ASSUME NEW h \in Nat, NEW size \in Nat \ {0} PROVE Bin(h, size) \in 1 .. size
  OBVIOUS
<1>1. h % size \in 0 .. size - 1
  OBVIOUS
<1> QED
  BY <1>1 DEF Bin

LEMMA SameAlike == \A k, l : Same(k, l) <=> Alike(test, k, l)
  BY DEF Same, Alike

LEMMA AlikeFacts ==
  ASSUME NEW te
  PROVE  /\ \A k : Alike(te, k, k)
         /\ \A k, l : Alike(te, k, l) => Alike(te, l, k) /\ HashKey(k) = HashKey(l)
         /\ \A k, l, m : Alike(te, k, l) /\ Alike(te, l, m) => Alike(te, k, m)
  BY DEF Alike, HashKey

LEMMA UsedTypes ==
  ASSUME NEW nd \in [Node -> Entries \cup {FreeNode}]
  PROVE  \A n \in Used(nd) : n \in Node /\ nd[n] \in Entries /\ nd[n].key \in Key /\ nd[n].value \in Value
  BY DEF Used, Entries

LEMMA EntryUsed == \A e \in Entries : e # FreeNode
<1> SUFFICES ASSUME NEW e \in Entries PROVE e # FreeNode
  OBVIOUS
<1>1. e.value \in Value /\ FreeNode.value = Nil
  BY DEF Entries, FreeNode
<1> QED
  BY <1>1, TablesAssumption

LEMMA HasType == \A s \in Seq(Node) : \A m, n : (Has(s, n) => n \in Node) /\ (Before(s, m, n) => Has(s, m) /\ Has(s, n))
  BY DEF Has, Before

\* Where the nodes are.
LEMMA FiledFacts ==
  ASSUME NEW te, NEW bs, NEW nd, Filed(te, bs, nd)
  PROVE  /\ Len(bs) \in Nat
         /\ \A b \in 1 .. Len(bs) : bs[b] \in Seq(Node)
         /\ \A k \in Key : Len(bs) > 0 => /\ Bin(HashKey(k), Len(bs)) \in 1 .. Len(bs)
                                          /\ Home(bs, k) \in Seq(Node) /\ Distinct(Home(bs, k))
         /\ \A n \in Used(nd) : n \in Node /\ nd[n] \in Entries /\ nd[n].key \in Key /\ nd[n].value \in Value
         /\ \A b \in 1 .. Len(bs) : \A n : Has(bs[b], n) => n \in Used(nd) /\ Bin(HashKey(nd[n].key), Len(bs)) = b
         /\ \A b, c \in 1 .. Len(bs) : \A n : Has(bs[b], n) /\ Has(bs[c], n) => b = c
<1>1. Len(bs) \in Nat /\ \A b \in 1 .. Len(bs) : bs[b] \in Seq(Node)
  BY DEF Filed
<1>2. ASSUME NEW k \in Key, Len(bs) > 0
      PROVE  /\ Bin(HashKey(k), Len(bs)) \in 1 .. Len(bs)
             /\ Home(bs, k) \in Seq(Node) /\ Distinct(Home(bs, k))
  <2>1. Bin(HashKey(k), Len(bs)) \in 1 .. Len(bs)
    BY <1>1, <1>2, HashType, BinType
  <2> QED
    BY <1>1, <2>1 DEF Home, Filed
<1>3. \A n \in Used(nd) : n \in Node /\ nd[n] \in Entries /\ nd[n].key \in Key /\ nd[n].value \in Value
  BY UsedTypes DEF Filed
<1>4. ASSUME NEW b \in 1 .. Len(bs), NEW n, Has(bs[b], n)
      PROVE  n \in Used(nd) /\ Bin(HashKey(nd[n].key), Len(bs)) = b
  <2>1. n \in Node
    BY <1>1, <1>4, HasType
  <2> QED
    BY <1>4, <2>1 DEF Filed
<1>5. \A b, c \in 1 .. Len(bs) : \A n : Has(bs[b], n) /\ Has(bs[c], n) => b = c
  BY <1>4
<1> QED
  BY <1>1, <1>2, <1>3, <1>4, <1>5

LEMMA LinkedUsed ==
  ASSUME Filed(test, bins, node)
  PROVE  Linked = Used(node)
<1>1. Len(bins) \in Nat /\ \A b \in 1 .. Len(bins) : bins[b] \in Seq(Node)
  BY FiledFacts
<1>2. \A b \in 1 .. Len(bins) : \A n : n \in ToSet(bins[b]) <=> Has(bins[b], n)
  BY <1>1, Members
<1>3. ASSUME NEW n \in Linked PROVE n \in Used(node)
  <2>1. PICK b \in 1 .. Len(bins) : n \in ToSet(bins[b])
    BY DEF Linked
  <2> QED
    BY <1>2, <2>1, FiledFacts
<1>4. ASSUME NEW n \in Used(node) PROVE n \in Linked
  <2>1. node[n].key \in Key /\ Len(bins) > 0 /\ Has(Home(bins, node[n].key), n)
    BY FiledFacts DEF Filed
  <2>2. Bin(HashKey(node[n].key), Len(bins)) \in 1 .. Len(bins)
    BY <2>1, FiledFacts
  <2> QED
    BY <1>2, <2>1, <2>2 DEF Home, Linked
<1> QED
  BY <1>3, <1>4

\* What the operations in progress point to.
LEMMA HeldFacts ==
  ASSUME Stacked(test, bins, node, object, stack)
  PROVE  /\ Len(stack) \in Nat /\ \A i \in 1 .. Len(stack) : stack[i] \in Frames
         /\ \A n \in Held : \E i \in 1 .. Len(stack) : n = stack[i].ptr /\ n # Nil
         /\ \A i \in 1 .. Len(stack) : stack[i].ptr # Nil => stack[i].ptr \in Held
         /\ Held \subseteq Used(node)
<1>1. Len(stack) \in Nat /\ \A i \in 1 .. Len(stack) : stack[i] \in Frames
  BY DEF Stacked
<1>2. \A n \in Held : \E i \in 1 .. Len(stack) : n = stack[i].ptr /\ n # Nil
  BY DEF Held
<1>3. \A i \in 1 .. Len(stack) : stack[i].ptr # Nil => stack[i].ptr \in Held
  BY DEF Held
<1>4. Held \subseteq Used(node)
  BY <1>2 DEF Stacked, Fits
<1> QED
  BY <1>1, <1>2, <1>3, <1>4

LEMMA IndInvSuffices == IndInv => WellFormed
<1> SUFFICES ASSUME IndInv PROVE WellFormed
  OBVIOUS
<1>1. Linked = Used(node) /\ Filed(test, bins, node)
  BY LinkedUsed DEF IndInv
<1>2. ASSUME NEW b \in 1 .. Len(bins), NEW i \in 1 .. Len(bins[b])
      PROVE  LET n == bins[b][i]
             IN node[n] # FreeNode /\ node[n].hash = HashKey(node[n].key) /\ Bin(node[n].hash, Len(bins)) = b
  <2>1. Has(bins[b], bins[b][i])
    BY DEF Has
  <2>2. bins[b][i] \in Used(node) /\ Bin(HashKey(node[bins[b][i]].key), Len(bins)) = b
    BY <1>1, <2>1, FiledFacts
  <2> QED
    BY <1>1, <2>2 DEF Filed, Used
<1>3. \A m, n \in Linked : Same(node[m].key, node[n].key) => m = n
  BY <1>1, SameAlike DEF Filed
<1>4. total_nodes = Cardinality(Linked) /\ \A n \in Linked : object[node[n].key] # "free"
  BY <1>1 DEF IndInv, Counted
<1>5. \A n \in Held : node[n] # FreeNode
  BY HeldFacts DEF IndInv, Used
<1> QED
  BY <1>2, <1>3, <1>4, <1>5 DEF WellFormed

----------------------------------------------------------------------------
(* The operations in progress *)

LEMMA FitsBelow ==
  ASSUME NEW te, NEW bs, NEW nd, NEW ob, NEW st, NEW st2, NEW i \in Nat, NEW f,
         \A j \in 1 .. i - 1 : st2[j] = st[j], Fits(te, bs, nd, ob, st, i, f)
  PROVE  Fits(te, bs, nd, ob, st2, i, f)
  BY DEF Fits

LEMMA PushStacked ==
  ASSUME NEW te, NEW bs, NEW nd, NEW ob, NEW st, Stacked(te, bs, nd, ob, st),
         NEW f \in Frames, Len(st) <= MaxDepth, Fits(te, bs, nd, ob, st, Len(st) + 1, f)
  PROVE  Stacked(te, bs, nd, ob, Append(st, f))
<1> DEFINE st2 == Append(st, f)
<1>1. st \in Seq(Frames) /\ Len(st) \in Nat
  BY DEF Stacked
<1>2. /\ st2 \in Seq(Frames) /\ Len(st2) = Len(st) + 1 /\ st2[Len(st) + 1] = f
      /\ \A j \in 1 .. Len(st) : st2[j] = st[j]
  BY <1>1
<1> HIDE DEF st2
<1>3. ASSUME NEW i \in 1 .. Len(st2) PROVE Fits(te, bs, nd, ob, st2, i, st2[i])
  <2>1. i \in Nat /\ \A j \in 1 .. i - 1 : st2[j] = st[j]
    BY <1>1, <1>2
  <2>2. CASE i = Len(st) + 1
    <3>1. Fits(te, bs, nd, ob, st, i, f)
      BY <2>2
    <3>2. Fits(te, bs, nd, ob, st2, i, f)
      BY <2>1, <3>1, FitsBelow
    <3> QED
      BY <1>2, <2>2, <3>2
  <2>3. CASE i # Len(st) + 1
    <3>1. i \in 1 .. Len(st)
      BY <1>1, <1>2, <2>3
    <3>2. Fits(te, bs, nd, ob, st, i, st[i])
      BY <3>1 DEF Stacked
    <3>3. Fits(te, bs, nd, ob, st2, i, st[i])
      BY <2>1, <3>2, FitsBelow
    <3> QED
      BY <1>2, <3>1, <3>3
  <2> QED
    BY <2>2, <2>3
<1>4. Len(st2) <= MaxDepth + 1
  BY <1>1, <1>2, TablesAssumption
<1> QED
  BY <1>2, <1>3, <1>4 DEF Stacked, st2

LEMMA FrontFacts ==
  ASSUME NEW st \in Seq(Frames), st # <<>>
  PROVE  /\ Len(st) \in Nat \ {0} /\ Front(st) \in Seq(Frames) /\ Len(Front(st)) = Len(st) - 1
         /\ \A i \in 1 .. Len(st) - 1 : Front(st)[i] = st[i]
         /\ Last(st) = st[Len(st)] /\ Last(st) \in Frames
<1>1. Len(st) \in Nat \ {0}
  OBVIOUS
<1>2. \A i \in 1 .. Len(st) - 1 : st[i] \in Frames
  BY <1>1
<1> DEFINE n == Len(st) - 1
<1>3. n \in Int /\ 1 \in Int /\ n \in Nat
  BY <1>1
<1>a. \A i \in 1 .. n : st[i] \in Frames
  BY <1>2
<1> HIDE DEF n
<1>4. /\ SubSeq(st, 1, n) \in Seq(Frames)
      /\ Len(SubSeq(st, 1, n)) = IF 1 <= n THEN n - 1 + 1 ELSE 0
      /\ \A i \in 1 .. n - 1 + 1 : SubSeq(st, 1, n)[i] = st[1 + i - 1]
  BY <1>3, <1>a, SubSeqProperties
<1>5. n - 1 + 1 = n /\ \A i \in 1 .. n : 1 + i - 1 = i
  BY <1>3
<1>6. Len(SubSeq(st, 1, n)) = n /\ \A i \in 1 .. n : SubSeq(st, 1, n)[i] = st[i]
  BY <1>3, <1>4, <1>5
<1> QED
  BY <1>1, <1>4, <1>6 DEF Front, Last, n

LEMMA PopStacked ==
  ASSUME NEW te, NEW bs, NEW nd, NEW ob, NEW st \in Seq(Frames), st # <<>>, Len(st) <= MaxDepth + 1,
         \A i \in 1 .. Len(st) - 1 : Fits(te, bs, nd, ob, st, i, st[i])
  PROVE  Stacked(te, bs, nd, ob, Front(st))
<1> DEFINE st2 == Front(st)
<1>1. /\ Len(st) \in Nat \ {0} /\ st2 \in Seq(Frames) /\ Len(st2) = Len(st) - 1
      /\ \A i \in 1 .. Len(st) - 1 : st2[i] = st[i]
  BY FrontFacts
<1> HIDE DEF st2
<1>2. ASSUME NEW i \in 1 .. Len(st2) PROVE Fits(te, bs, nd, ob, st2, i, st2[i])
  <2>1. i \in 1 .. Len(st) - 1 /\ i \in Nat /\ \A j \in 1 .. i - 1 : st2[j] = st[j]
    BY <1>1
  <2>2. Fits(te, bs, nd, ob, st2, i, st[i])
    BY <2>1, FitsBelow
  <2> QED
    BY <1>1, <2>1, <2>2
<1> QED
  BY <1>1, <1>2, TablesAssumption DEF Stacked, st2

LEMMA BecomeStacked ==
  ASSUME NEW te, NEW bs, NEW nd, NEW ob, NEW st, Stacked(te, bs, nd, ob, st), st # <<>>,
         NEW f \in Frames, Fits(te, bs, nd, ob, st, Len(st), f)
  PROVE  Stacked(te, bs, nd, ob, Append(Front(st), f))
<1> DEFINE s == Front(st)
<1>1. /\ Len(st) \in Nat \ {0} /\ s \in Seq(Frames) /\ Len(s) = Len(st) - 1
      /\ \A i \in 1 .. Len(st) - 1 : s[i] = st[i]
  BY FrontFacts DEF Stacked
<1>2. Stacked(te, bs, nd, ob, s)
  <2>1. \A i \in 1 .. Len(st) - 1 : Fits(te, bs, nd, ob, st, i, st[i])
    BY <1>1 DEF Stacked
  <2>2. st \in Seq(Frames) /\ Len(st) <= MaxDepth + 1
    BY DEF Stacked
  <2> QED
    BY <2>1, <2>2, PopStacked
<1> HIDE DEF s
<1>3. Len(s) <= MaxDepth
  BY <1>1, TablesAssumption DEF Stacked
<1>4. Fits(te, bs, nd, ob, s, Len(s) + 1, f)
  <2>1. Len(s) + 1 = Len(st) /\ Len(st) \in Nat
    BY <1>1
  <2>2. Fits(te, bs, nd, ob, s, Len(st), f)
    BY <1>1, <2>1, FitsBelow
  <2> QED
    BY <2>1, <2>2
<1> QED
  BY <1>2, <1>3, <1>4, PushStacked DEF s

\* A change of the nodes that leaves keys and hash codes alone.
SameKeys(nd, nd2) ==
  /\ Used(nd2) = Used(nd)
  /\ \A n \in Used(nd) : nd2[n].key = nd[n].key /\ nd2[n].hash = nd[n].hash

LEMMA FitsSameKeys ==
  ASSUME NEW te, NEW bs, NEW nd, NEW nd2, NEW ob, NEW st, NEW i \in Nat, NEW f,
         SameKeys(nd, nd2), Fits(te, bs, nd, ob, st, i, f),
         \A j \in 1 .. i - 1 : st[j].ptr # Nil => st[j].ptr \in Used(nd)
  PROVE  Fits(te, bs, nd2, ob, st, i, f)
<1>1. Present(te, nd2, f) <=> Present(te, nd, f)
  BY DEF Present, SameKeys
<1>2. f.op # "walk" => Looks(te, bs, nd2, f)
  BY <1>1 DEF Fits, Looks, SameKeys
<1>3. f.op = "walk" => i = 1 /\ Walks(bs, nd2, f)
  BY DEF Fits, Walks, SameKeys
<1>4. i > 1 => Nested(te, nd2, f)
  BY <1>1 DEF Fits, Nested
<1>5. f.ptr # Nil => f.ptr \in Used(nd2) /\ (f.op # "walk" => Has(Home(bs, f.key), f.ptr))
  BY DEF Fits, SameKeys
<1>6. f.op = "delete" =>
        \A j \in 1 .. i - 1 : st[j].ptr # Nil => ~Alike(te, f.key, nd2[st[j].ptr].key)
  BY DEF Fits, SameKeys
<1> QED
  BY <1>2, <1>3, <1>4, <1>5, <1>6 DEF Fits

\* Only the objects change.
LEMMA FitsObjects ==
  ASSUME NEW te, NEW bs, NEW nd, NEW ob, NEW ob2, NEW st, NEW i, NEW f,
         Fits(te, bs, nd, ob, st, i, f), f.op # "walk" => ob2[f.key] = "live"
  PROVE  Fits(te, bs, nd, ob2, st, i, f)
  BY DEF Fits

----------------------------------------------------------------------------
(* Taking nodes out *)

Removed(bs, nd, S, bs2, nd2) ==
  /\ S \subseteq Used(nd)
  /\ bs2 = [b \in 1 .. Len(bs) |-> Keep(bs[b], Node \ S)]
  /\ nd2 = [n \in Node |-> IF n \in S THEN FreeNode ELSE nd[n]]

\* The buckets have lost the nodes of S, and are otherwise in their order.
Thinned(bs, S, bs2) ==
  \A b \in 1 .. Len(bs) :
    /\ Distinct(bs2[b])
    /\ \A n : Has(bs2[b], n) <=> n \notin S /\ Has(bs[b], n)
    /\ \A m, n : Before(bs2[b], m, n) <=> m \notin S /\ n \notin S /\ Before(bs[b], m, n)

LEMMA RemovedFacts ==
  ASSUME NEW te, NEW bs, NEW nd, NEW S, NEW bs2, NEW nd2, Filed(te, bs, nd), Removed(bs, nd, S, bs2, nd2)
  PROVE  /\ bs2 \in Seq(Seq(Node)) /\ Len(bs2) = Len(bs)
         /\ nd2 \in [Node -> Entries \cup {FreeNode}]
         /\ Used(nd2) = Used(nd) \ S
         /\ \A n \in Used(nd2) : nd2[n] = nd[n]
         /\ Thinned(bs, S, bs2)
<1>1. Len(bs) \in Nat /\ \A b \in 1 .. Len(bs) : bs[b] \in Seq(Node)
  BY FiledFacts
<1>2. ASSUME NEW b \in 1 .. Len(bs)
      PROVE  /\ bs2[b] \in Seq(Node) /\ Distinct(bs2[b])
             /\ \A n : Has(bs2[b], n) <=> n \notin S /\ Has(bs[b], n)
             /\ \A m, n : Before(bs2[b], m, n) <=> m \notin S /\ n \notin S /\ Before(bs[b], m, n)
  <2>1. bs[b] \in Seq(Node) /\ bs2[b] = Keep(bs[b], Node \ S) /\ Distinct(bs[b])
    BY <1>1 DEF Removed, Filed
  <2>2. /\ bs2[b] \in Seq(Node)
        /\ \A n : Has(bs2[b], n) <=> n \in Node \ S /\ Has(bs[b], n)
        /\ Distinct(bs[b]) => Distinct(bs2[b])
        /\ \A m, n : Before(bs2[b], m, n) <=> m \in Node \ S /\ n \in Node \ S /\ Before(bs[b], m, n)
    BY <2>1, KeepFacts
  <2>3. \A m, n : (Has(bs[b], n) => n \in Node) /\ (Before(bs[b], m, n) => m \in Node /\ n \in Node)
    BY <2>1, HasType
  <2> QED
    BY <2>1, <2>2, <2>3
<1>3. bs2 \in Seq(Seq(Node)) /\ Len(bs2) = Len(bs)
  <2>1. bs2 \in [1 .. Len(bs) -> Seq(Node)]
    BY <1>2 DEF Removed
  <2> QED
    BY <1>1, <2>1
<1>4. nd2 \in [Node -> Entries \cup {FreeNode}]
  BY DEF Removed, Filed
<1>5. Used(nd2) = Used(nd) \ S /\ \A n \in Used(nd2) : nd2[n] = nd[n]
  BY DEF Removed, Used
<1>6. Thinned(bs, S, bs2)
  BY <1>2 DEF Thinned
<1> QED
  BY <1>3, <1>4, <1>5, <1>6

LEMMA RemovedFiled ==
  ASSUME NEW te, NEW bs, NEW nd, NEW S, NEW bs2, NEW nd2, Filed(te, bs, nd), Removed(bs, nd, S, bs2, nd2)
  PROVE  Filed(te, bs2, nd2)
<1>1. /\ bs2 \in Seq(Seq(Node)) /\ Len(bs2) = Len(bs)
      /\ nd2 \in [Node -> Entries \cup {FreeNode}]
      /\ Used(nd2) = Used(nd) \ S
      /\ \A n \in Used(nd2) : nd2[n] = nd[n]
  BY RemovedFacts
<1>2. \A b \in 1 .. Len(bs) :
        /\ Distinct(bs2[b])
        /\ \A n : Has(bs2[b], n) <=> n \notin S /\ Has(bs[b], n)
  <2>1. Thinned(bs, S, bs2)
    BY RemovedFacts
  <2> QED
    BY <2>1 DEF Thinned
<1>3. ASSUME NEW b \in 1 .. Len(bs2), NEW n \in Node, Has(bs2[b], n)
      PROVE  n \in Used(nd2) /\ Bin(HashKey(nd2[n].key), Len(bs2)) = b
  <2>1. n \notin S /\ Has(bs[b], n) /\ b \in 1 .. Len(bs)
    BY <1>1, <1>2, <1>3
  <2>2. n \in Used(nd) /\ Bin(HashKey(nd[n].key), Len(bs)) = b
    BY <2>1, FiledFacts
  <2> QED
    BY <1>1, <2>1, <2>2
<1>4. ASSUME NEW n \in Used(nd2)
      PROVE  nd2[n].hash = HashKey(nd2[n].key) /\ Len(bs2) > 0 /\ Has(Home(bs2, nd2[n].key), n)
  <2>1. n \in Used(nd) /\ n \notin S /\ nd2[n] = nd[n]
    BY <1>1
  <2>2. nd[n].hash = HashKey(nd[n].key) /\ Len(bs) > 0 /\ Has(Home(bs, nd[n].key), n) /\ nd[n].key \in Key
    BY <2>1, FiledFacts DEF Filed
  <2>3. Bin(HashKey(nd[n].key), Len(bs)) \in 1 .. Len(bs)
    BY <2>2, FiledFacts
  <2>4. Has(bs2[Bin(HashKey(nd[n].key), Len(bs))], n)
    BY <1>2, <2>1, <2>2, <2>3 DEF Home
  <2> QED
    BY <1>1, <2>1, <2>2, <2>4 DEF Home
<1>5. \A m, n \in Used(nd2) : Alike(te, nd2[m].key, nd2[n].key) => m = n
  BY <1>1 DEF Filed
<1> QED
  BY <1>1, <1>2, <1>3, <1>4, <1>5 DEF Filed

LEMMA RemovedFits ==
  ASSUME NEW te, NEW bs, NEW nd, NEW S, NEW bs2, NEW nd2, Filed(te, bs, nd), Removed(bs, nd, S, bs2, nd2),
         NEW ob, NEW st, NEW i \in Nat, NEW f \in Frames, Fits(te, bs, nd, ob, st, i, f),
         f.ptr \notin S,
         \A j \in 1 .. i - 1 : st[j].ptr # Nil => st[j].ptr \in Used(nd) \ S,
         i > 1 /\ f.op = "set" => Present(te, nd2, f)
  PROVE  Fits(te, bs2, nd2, ob, st, i, f)
<1>1. /\ Len(bs2) = Len(bs) /\ Len(bs) \in Nat
      /\ Used(nd2) = Used(nd) \ S
      /\ \A n \in Used(nd2) : nd2[n] = nd[n]
  BY RemovedFacts, FiledFacts
<1>a. Thinned(bs, S, bs2)
  BY RemovedFacts
<1>2. \A b \in 1 .. Len(bs) :
        /\ \A n : Has(bs2[b], n) <=> n \notin S /\ Has(bs[b], n)
        /\ \A m, n : Before(bs2[b], m, n) <=> m \notin S /\ n \notin S /\ Before(bs[b], m, n)
  BY <1>a DEF Thinned
<1>3. Present(te, nd2, f) => Present(te, nd, f)
  BY <1>1 DEF Present
<1>4. CASE f.op = "walk"
  <2>1. i = 1 /\ Walks(bs, nd, f) /\ f.value \in 1 .. Len(bs) /\ f.ptr \in Used(nd2)
    BY <1>1, <1>4 DEF Fits, Walks
  <2>2. f.value \in Nat /\ \A b \in f.value + 1 .. Len(bs) : b \in 1 .. Len(bs)
    BY <1>1, <2>1
  <2>3. \A n : ToCome(bs2, f, n) <=> n \notin S /\ ToCome(bs, f, n)
    BY <1>1, <1>2, <2>1, <2>2 DEF ToCome
  <2>4. Has(bs2[f.value], f.ptr)
    BY <1>2, <2>1 DEF Walks
  <2>5. Walks(bs2, nd2, f)
    BY <1>1, <2>1, <2>3, <2>4 DEF Walks
  <2> QED
    BY <1>4, <2>1, <2>5 DEF Fits
<1>5. CASE f.op # "walk"
  <2>1. Looks(te, bs, nd, f) /\ ob[f.key] = "live" /\ f.key \in Key
    BY <1>5 DEF Fits, Looks
  <2>2. Len(bs) > 0 => Bin(HashKey(f.key), Len(bs)) \in 1 .. Len(bs)
    BY <2>1, FiledFacts
  <2>3. f.ptr # Nil => f.ptr \in Used(nd2) /\ Len(bs) > 0 /\ Has(Home(bs, f.key), f.ptr)
    BY <1>1, <1>5, <2>1 DEF Fits, Looks
  <2>4. f.ptr # Nil => Has(Home(bs2, f.key), f.ptr)
    BY <1>1, <1>2, <2>2, <2>3 DEF Home
  <2>5. ASSUME f.pc = "compare", NEW n \in Used(nd2), Alike(te, f.key, nd2[n].key)
        PROVE  n = f.ptr \/ Before(Home(bs2, f.key), f.ptr, n)
    <3>1. n \in Used(nd) /\ n \notin S /\ Alike(te, f.key, nd[n].key) /\ f.ptr # Nil
      BY <1>1, <2>1, <2>5 DEF Looks
    <3>2. n = f.ptr \/ Before(Home(bs, f.key), f.ptr, n)
      BY <2>1, <2>5, <3>1 DEF Looks
    <3> QED
      BY <1>1, <1>2, <2>2, <2>3, <3>1, <3>2 DEF Home
  <2>6. Looks(te, bs2, nd2, f)
    BY <1>1, <1>3, <2>1, <2>5 DEF Looks
  <2>7. i > 1 => Nested(te, nd2, f)
    BY DEF Fits, Nested
  <2>8. f.op = "delete" =>
          \A j \in 1 .. i - 1 : st[j].ptr # Nil => ~Alike(te, f.key, nd2[st[j].ptr].key)
    BY <1>1 DEF Fits
  <2> QED
    BY <1>5, <2>1, <2>3, <2>4, <2>6, <2>7, <2>8 DEF Fits
<1> QED
  BY <1>4, <1>5

----------------------------------------------------------------------------
(* Following the links *)

LEMMA HeadFacts ==
  ASSUME NEW s \in Seq(Node), s # <<>>
  PROVE  /\ Head(s) \in Node /\ Has(s, Head(s))
         /\ \A n : Has(s, n) => n = Head(s) \/ Before(s, Head(s), n)
<1>1. Len(s) \in Nat \ {0} /\ Head(s) = s[1] /\ s[1] \in Node /\ 1 \in 1 .. Len(s)
  OBVIOUS
<1>2. ASSUME NEW i \in 1 .. Len(s) PROVE s[i] = Head(s) \/ Before(s, Head(s), s[i])
  <2>1. CASE i = 1
    BY <1>1, <2>1
  <2>2. CASE i # 1
    <3>1. 1 < i
      BY <1>1, <2>2
    <3> QED
      BY <1>1, <3>1 DEF Before
  <2> QED
    BY <2>1, <2>2
<1> QED
  BY <1>1, <1>2 DEF Has

LEMMA EmptyFacts == \A s \in Seq(Node) : s = <<>> <=> \A n : ~Has(s, n)
<1> SUFFICES ASSUME NEW s \in Seq(Node) PROVE s = <<>> <=> \A n : ~Has(s, n)
  OBVIOUS
<1>1. s # <<>> => Has(s, Head(s))
  BY HeadFacts
<1>2. s = <<>> => \A n : ~Has(s, n)
  BY DEF Has
<1> QED
  BY <1>1, <1>2

LEMMA RestFacts ==
  ASSUME NEW s \in Seq(Node), Distinct(s), NEW p \in 1 .. Len(s)
  PROVE  LET r == SubSeq(s, p + 1, Len(s)) IN
         /\ r \in Seq(Node)
         /\ \A n : Has(r, n) <=> Before(s, s[p], n)
         /\ \A m, n : Before(r, m, n) => Before(s, m, n)
<1> DEFINE l == Len(s)
           a == p + 1
           r == SubSeq(s, a, l)
<1>1. l \in Nat /\ p \in Nat /\ a \in Int /\ l \in Int /\ a = p + 1 /\ p <= l /\ p >= 1 /\ l = Len(s)
  OBVIOUS
<1>2. \A i \in a .. l : s[i] \in Node
  BY <1>1
<1> HIDE DEF l, a
<1>3. /\ r \in Seq(Node)
      /\ Len(r) = IF a <= l THEN l - a + 1 ELSE 0
      /\ \A i \in 1 .. l - a + 1 : r[i] = s[a + i - 1]
  BY <1>1, <1>2, SubSeqProperties
<1> HIDE DEF r
<1>4. Len(r) = l - p
  BY <1>1, <1>3
<1>5. ASSUME NEW i \in 1 .. Len(r) PROVE p + i \in 1 .. Len(s) /\ p < p + i /\ r[i] = s[p + i]
  <2>1. i \in 1 .. l - a + 1 /\ a + i - 1 = p + i
    BY <1>1, <1>4
  <2> QED
    BY <1>1, <1>3, <1>4, <2>1
<1>6. ASSUME NEW j \in 1 .. Len(s), p < j PROVE j - p \in 1 .. Len(r) /\ r[j - p] = s[j]
  <2>1. j - p \in 1 .. Len(r) /\ p + (j - p) = j
    BY <1>1, <1>4, <1>6
  <2> QED
    BY <1>5, <2>1
<1>7. ASSUME NEW n PROVE Has(r, n) <=> Before(s, s[p], n)
  <2>1. Has(r, n) => Before(s, s[p], n)
    BY <1>5 DEF Has, Before
  <2>2. ASSUME Before(s, s[p], n) PROVE Has(r, n)
    <3>1. PICK i, j \in 1 .. Len(s) : i < j /\ s[i] = s[p] /\ s[j] = n
      BY <2>2 DEF Before
    <3>2. i = p
      BY <3>1 DEF Distinct
    <3> QED
      BY <1>6, <3>1, <3>2 DEF Has
  <2> QED
    BY <2>1, <2>2
<1>8. ASSUME NEW m, NEW n, Before(r, m, n) PROVE Before(s, m, n)
  <2>1. PICK i, j \in 1 .. Len(r) : i < j /\ r[i] = m /\ r[j] = n
    BY <1>8 DEF Before
  <2>2. p + i < p + j
    BY <1>1, <2>1
  <2> QED
    BY <1>5, <2>1, <2>2 DEF Before
<1> QED
  BY <1>3, <1>7, <1>8 DEF r, l, a

LEMMA AfterFacts ==
  ASSUME Filed(test, bins, node), NEW b \in 1 .. Len(bins), NEW ptr, Has(bins[b], ptr)
  PROVE  /\ After(ptr) \in Seq(Node)
         /\ \A n : Has(After(ptr), n) <=> Before(bins[b], ptr, n)
         /\ \A m, n : Before(After(ptr), m, n) => Before(bins[b], m, n)
<1> DEFINE c == CHOOSE c \in 1 .. Len(bins) : ptr \in ToSet(bins[c])
           p == CHOOSE q \in 1 .. Len(bins[c]) : bins[c][q] = ptr
<1>1. \A d \in 1 .. Len(bins) : bins[d] \in Seq(Node) /\ (ptr \in ToSet(bins[d]) <=> Has(bins[d], ptr)) /\ Distinct(bins[d])
  BY FiledFacts, Members DEF Filed
<1>2. c \in 1 .. Len(bins) /\ ptr \in ToSet(bins[c])
  BY <1>1
<1>3. After(ptr) = SubSeq(bins[c], p + 1, Len(bins[c]))
  BY DEF After
<1>4. p \in 1 .. Len(bins[c]) /\ bins[c][p] = ptr
  <2>1. \E q \in 1 .. Len(bins[c]) : bins[c][q] = ptr
    BY <1>1, <1>2 DEF Has
  <2> HIDE DEF c
  <2> QED
    BY <2>1
<1> HIDE DEF c, p
<1>5. c = b
  BY <1>1, <1>2, FiledFacts
<1>6. LET r == SubSeq(bins[b], p + 1, Len(bins[b])) IN
      /\ r \in Seq(Node)
      /\ \A n : Has(r, n) <=> Before(bins[b], bins[b][p], n)
      /\ \A m, n : Before(r, m, n) => Before(bins[b], m, n)
  BY <1>1, <1>4, <1>5, RestFacts
<1> QED
  BY <1>3, <1>4, <1>5, <1>6

LEMMA FromFacts ==
  ASSUME Filed(test, bins, node), NEW i \in 1 .. Len(bins) + 1
  PROVE  /\ From(i) \in Seq(Node)
         /\ \A n : Has(From(i), n) <=> \E b \in i .. Len(bins) : Has(bins[b], n)
         /\ Distinct(From(i))
         /\ From(i) # <<>> => \E b \in i .. Len(bins) : /\ bins[b] # <<>> /\ Head(From(i)) = Head(bins[b])
                                                        /\ \A c \in i .. Len(bins) : c < b => bins[c] = <<>>
<1> DEFINE l == Len(bins)
           bs == SubSeq(bins, i, l)
           n == l - i + 1
<1>1. l \in Nat /\ i \in Nat /\ i >= 1 /\ i <= l + 1 /\ \A b \in 1 .. l : bins[b] \in Seq(Node)
  BY FiledFacts
<1>2. \A b \in i .. l : bins[b] \in Seq(Node)
  BY <1>1
<1>a. l \in Int /\ i \in Int
  BY <1>1
<1>b. l = Len(bins)
  OBVIOUS
<1> HIDE DEF l
<1>3. /\ bs \in Seq(Seq(Node))
      /\ Len(bs) = IF i <= l THEN l - i + 1 ELSE 0
      /\ \A k \in 1 .. l - i + 1 : bs[k] = bins[i + k - 1]
  BY <1>2, <1>a, SubSeqProperties
<1>4. n \in Nat /\ Len(bs) = n /\ \A k \in 1 .. n : bs[k] = bins[i + k - 1]
  BY <1>1, <1>3
<1> HIDE DEF bs
<1>5. From(i) = FlattenSeq(bs)
  BY <1>b DEF From, bs
<1>6. Joins(From(i), bs, n)
  BY <1>3, <1>4, <1>5, FlattenJoins
<1>7. \A k \in 1 .. n : i + k - 1 \in i .. l /\ i + k - 1 \in 1 .. l
  BY <1>1
<1>8. \A b \in i .. l : b - i + 1 \in 1 .. n /\ i + (b - i + 1) - 1 = b
  BY <1>1
<1>9. \A m : Has(From(i), m) <=> \E b \in i .. l : Has(bins[b], m)
  <2> SUFFICES ASSUME NEW m PROVE Has(From(i), m) <=> \E b \in i .. l : Has(bins[b], m)
    OBVIOUS
  <2>1. Has(From(i), m) <=> \E k \in 1 .. n : Has(bs[k], m)
    BY <1>6 DEF Joins
  <2>2. ASSUME NEW b \in i .. l, Has(bins[b], m) PROVE \E k \in 1 .. n : Has(bs[k], m)
    <3>1. bs[b - i + 1] = bins[b] /\ b - i + 1 \in 1 .. n
      BY <1>4, <1>8
    <3> QED
      BY <2>2, <3>1
  <2>3. ASSUME NEW k \in 1 .. n, Has(bs[k], m) PROVE \E b \in i .. l : Has(bins[b], m)
    BY <1>4, <1>7, <2>3
  <2> QED
    BY <2>1, <2>2, <2>3
<1>10. Distinct(From(i))
  <2>1. \A k \in 1 .. n : Distinct(bs[k])
    BY <1>4, <1>7, <1>b DEF Filed
  <2>2. ASSUME NEW k \in 1 .. n, NEW j \in 1 .. n, NEW m, Has(bs[k], m), Has(bs[j], m) PROVE k = j
    <3>a. i + k - 1 \in 1 .. Len(bins) /\ i + j - 1 \in 1 .. Len(bins)
      BY <1>7, <1>b
    <3>b. Has(bins[i + k - 1], m) /\ Has(bins[i + j - 1], m)
      BY <1>4, <2>2
    <3>c. \A b, c \in 1 .. Len(bins) : \A x : Has(bins[b], x) /\ Has(bins[c], x) => b = c
      BY FiledFacts
    <3>1. i + k - 1 = i + j - 1
      BY <3>a, <3>b, <3>c
    <3> QED
      BY <1>1, <3>1
  <2> QED
    BY <1>6, <2>1, <2>2 DEF Joins
<1>11. ASSUME From(i) # <<>>
       PROVE  \E b \in i .. l : /\ bins[b] # <<>> /\ Head(From(i)) = Head(bins[b])
                                /\ \A c \in i .. l : c < b => bins[c] = <<>>
  <2>1. PICK k \in 1 .. n : /\ bs[k] # <<>> /\ Head(From(i)) = Head(bs[k])
                            /\ \A c \in 1 .. n : c < k => bs[c] = <<>>
    BY <1>6, <1>11 DEF Joins
  <2>2. i + k - 1 \in i .. l /\ bs[k] = bins[i + k - 1]
    BY <1>4, <1>7
  <2>3. ASSUME NEW c \in i .. l, c < i + k - 1 PROVE bins[c] = <<>>
    <3>1. c - i + 1 \in 1 .. n /\ bs[c - i + 1] = bins[c] /\ c - i + 1 < k
      BY <1>1, <1>4, <1>8, <2>3
    <3> QED
      BY <2>1, <3>1
  <2> QED
    BY <2>1, <2>2, <2>3
<1> QED
  BY <1>6, <1>9, <1>10, <1>11, <1>b DEF Joins

----------------------------------------------------------------------------
(* Garbage *)

LEMMA InitHolds == Init => IndInv
<1> SUFFICES ASSUME Init PROVE IndInv
  OBVIOUS
<1>1. Used(node) = {}
  BY DEF Init, Used
<1>2. Filed(test, bins, node)
  <2>1. bins \in Seq(Seq(Node)) /\ Len(bins) = 0 /\ \A b \in 1 .. Len(bins) : FALSE
    BY DEF Init
  <2>2. node \in [Node -> Entries \cup {FreeNode}]
    BY DEF Init
  <2> QED
    BY <1>1, <2>1, <2>2 DEF Filed
<1>3. Counted(weak, node, total_nodes, guardian, object)
  BY <1>1, FS_EmptySet DEF Init, Counted
<1>4. Stacked(test, bins, node, object, stack)
  <2>1. stack \in Seq(Frames) /\ Len(stack) = 0 /\ \A i \in 1 .. Len(stack) : FALSE
    BY DEF Init
  <2> QED
    BY <2>1, TablesAssumption DEF Stacked
<1> QED
  BY <1>2, <1>3, <1>4 DEF Init, IndInv

\* The keys of the operations in progress are in use and live.
LEMMA KeysInUse ==
  ASSUME IndInv
  PROVE  /\ \A i \in 1 .. Len(stack) : stack[i].key \in InUse /\ (stack[i].op # "walk" => object[stack[i].key] = "live")
         /\ \A i \in 1 .. Len(stack) : stack[i].ptr # Nil => node[stack[i].ptr].key \in InUse
<1>1. \A i \in 1 .. Len(stack) : stack[i].op # "walk" => object[stack[i].key] = "live"
  BY DEF IndInv, Stacked, Fits
<1>2. ASSUME NEW i \in 1 .. Len(stack), stack[i].ptr # Nil PROVE node[stack[i].ptr].key \in InUse
  <2>1. stack[i].ptr \in Held /\ stack[i].ptr \in Used(node)
    BY <1>2, HeldFacts DEF IndInv
  <2>2. stack[i].ptr \in Held \ {m \in Node : node[m] = FreeNode}
    BY <2>1 DEF Used
  <2> QED
    BY <2>2 DEF InUse
<1> QED
  BY <1>1, <1>2 DEF InUse

\* The table stays as it is, and with it every operation, if the keys of the
\* operations stay live.
LEMMA ObjectStep ==
  ASSUME IndInv, UNCHANGED <<test, weak, table, stack>>,
         object' \in [Key -> {"live", "dropped", "free"}],
         \A k \in Key : object'[k] = "free" => object[k] = "free",
         \A i \in 1 .. Len(stack) : stack[i].op # "walk" => object'[stack[i].key] = "live"
  PROVE  IndInv'
<1>1. /\ test' = test /\ weak' = weak /\ bins' = bins /\ node' = node
      /\ total_nodes' = total_nodes /\ guardian' = guardian /\ stack' = stack
  BY DEF table
<1>2. Filed(test, bins, node)
  BY DEF IndInv
<1>3. Counted(weak, node, total_nodes, guardian, object')
  <2>1. \A n \in Used(node) : node[n].key \in Key
    BY <1>2, FiledFacts
  <2> QED
    BY <2>1 DEF IndInv, Counted
<1>4. Stacked(test, bins, node, object', stack)
  <2>1. ASSUME NEW i \in 1 .. Len(stack) PROVE Fits(test, bins, node, object', stack, i, stack[i])
    <3>1. Fits(test, bins, node, object, stack, i, stack[i])
      BY DEF IndInv, Stacked
    <3> QED
      BY <3>1, FitsObjects
  <2> QED
    BY <2>1 DEF IndInv, Stacked
<1> QED
  BY <1>1, <1>2, <1>3, <1>4 DEF IndInv

LEMMA DropHolds == ASSUME IndInv, Drop, UNCHANGED <<test, weak>> PROVE IndInv'
<1>1. PICK k \in Key : k \notin InUse /\ object' = [object EXCEPT ![k] = "dropped"]
  BY DEF Drop
<1>2. UNCHANGED <<test, weak, table, stack>>
  BY DEF Drop
<1>3. object \in [Key -> {"live", "dropped", "free"}]
  BY DEF IndInv, Counted
<1>4. object' \in [Key -> {"live", "dropped", "free"}] /\ \A j \in Key : object'[j] = "free" => object[j] = "free"
  BY <1>1, <1>3
<1>5. ASSUME NEW i \in 1 .. Len(stack), stack[i].op # "walk" PROVE object'[stack[i].key] = "live"
  <2>1. stack[i].key \in Key /\ stack[i].key # k /\ object[stack[i].key] = "live"
    BY <1>1, <1>5, KeysInUse DEF IndInv, Stacked, Fits, Looks
  <2> QED
    BY <1>1, <1>3, <2>1
<1> QED
  BY <1>2, <1>4, <1>5, ObjectStep

LEMMA RevivedHolds == ASSUME IndInv, Retain \/ Allocate, UNCHANGED <<test, weak>> PROVE IndInv'
<1>1. PICK k \in Key : object' = [object EXCEPT ![k] = "live"]
  BY DEF Retain, Allocate
<1>2. UNCHANGED <<test, weak, table, stack>>
  BY DEF Retain, Allocate
<1>3. object \in [Key -> {"live", "dropped", "free"}]
  BY DEF IndInv, Counted
<1>4. object' \in [Key -> {"live", "dropped", "free"}] /\ \A j \in Key : object'[j] = "free" => object[j] = "free"
  BY <1>1, <1>3
<1>5. ASSUME NEW i \in 1 .. Len(stack), stack[i].op # "walk" PROVE object'[stack[i].key] = "live"
  <2>1. stack[i].key \in Key /\ object[stack[i].key] = "live"
    BY <1>5, KeysInUse DEF IndInv, Stacked, Fits, Looks
  <2> QED
    BY <1>1, <1>3, <2>1
<1> QED
  BY <1>2, <1>4, <1>5, ObjectStep

\* table_after_gc() deletes no node that is pointed to, and no key that an
\* operation is about to set.
LEMMA ClearedFacts ==
  ASSUME IndInv, Tame, GarbageCollect
  PROVE  /\ Cleared \subseteq Used(node)
         /\ \A i \in 1 .. Len(stack) : stack[i].ptr \notin Cleared
         /\ \A i \in 1 .. Len(stack) : \A n \in Used(node) :
              stack[i].op # "walk" /\ Alike(test, stack[i].key, node[n].key) => n \notin Cleared
<1>1. Linked = Used(node)
  BY LinkedUsed DEF IndInv
<1>2. \A k \in Popped : k \notin InUse
  BY DEF Popped, Unreachable
<1>3. ASSUME NEW i \in 1 .. Len(stack) PROVE test = "eq"
  <2>1. Busy
    BY HeldFacts DEF IndInv, Busy
  <2> QED
    BY <2>1 DEF GarbageCollect, Tame
<1>4. \A i \in 1 .. Len(stack) : \A n \in Cleared : \E k \in Popped : k = node[n].key
  BY <1>3 DEF Cleared, Same
<1>5. ASSUME NEW i \in 1 .. Len(stack) PROVE stack[i].ptr \notin Cleared
  <2>1. CASE stack[i].ptr = Nil
    <3>1. Nil \notin Used(node)
      BY TablesAssumption DEF Used
    <3> QED
      BY <1>1, <2>1, <3>1 DEF Cleared
  <2>2. CASE stack[i].ptr # Nil
    BY <1>2, <1>4, <2>2, KeysInUse
  <2> QED
    BY <2>1, <2>2
<1>6. ASSUME NEW i \in 1 .. Len(stack), NEW n \in Used(node), Alike(test, stack[i].key, node[n].key)
      PROVE  n \notin Cleared
  <2>1. stack[i].key = node[n].key /\ stack[i].key \in InUse
    BY <1>3, <1>6, KeysInUse DEF Alike
  <2> QED
    BY <1>2, <1>4, <2>1
<1> QED
  BY <1>1, <1>5, <1>6 DEF Cleared

LEMMA CollectHolds == ASSUME IndInv, Tame, GarbageCollect, UNCHANGED <<test, weak>> PROVE IndInv'
<1> DEFINE S == Cleared
<1>1. /\ S \subseteq Used(node)
      /\ \A i \in 1 .. Len(stack) : stack[i].ptr \notin S
      /\ \A i \in 1 .. Len(stack) : \A n \in Used(node) :
           stack[i].op # "walk" /\ Alike(test, stack[i].key, node[n].key) => n \notin S
  BY ClearedFacts
<1>2. Removed(bins, node, S, bins', node') /\ Filed(test, bins, node)
  BY <1>1 DEF Removed, GarbageCollect, IndInv
<1>3. Linked = Used(node)
  BY LinkedUsed DEF IndInv
<1>4. object \in [Key -> {"live", "dropped", "free"}] /\ \A n \in Used(node) : node[n].key \in Key /\ object[node[n].key] # "free"
  BY <1>2, FiledFacts DEF IndInv, Counted
<1>5. /\ object' \in [Key -> {"live", "dropped", "free"}]
      /\ \A k \in Key : object[k] = "live" => object'[k] = "live"
  <2>1. object' = [k \in Key |-> IF k \in Unmarked THEN "free" ELSE object[k]]
    BY DEF GarbageCollect
  <2>2. \A k \in Unmarked : object[k] = "dropped"
    BY DEF Unmarked, Unreachable
  <2> QED
    BY <1>4, <2>1, <2>2
<1>6. ASSUME NEW n \in Used(node), n \notin S PROVE node[n].key \notin Popped
  BY <1>3, <1>6 DEF S, Cleared, Same
<1>7. ASSUME NEW n \in Used(node), n \notin S PROVE object'[node[n].key] # "free"
  <2>1. node[n].key \notin Unmarked
    <3>1. CASE weak
      <4>1. node[n].key \in guardian
        BY <3>1 DEF IndInv, Counted
      <4> QED
        BY <4>1 DEF Unmarked
    <3>2. CASE ~weak
      BY <1>3, <3>2 DEF Unmarked
    <3> QED
      BY <3>1, <3>2
  <2>2. object' = [k \in Key |-> IF k \in Unmarked THEN "free" ELSE object[k]]
    BY DEF GarbageCollect
  <2> QED
    BY <1>4, <2>1, <2>2
<1>8. total_nodes' = total_nodes - Cardinality(S) /\ guardian' = guardian \ Popped /\ stack' = stack /\ test' = test /\ weak' = weak
  BY DEF GarbageCollect
<1> HIDE DEF S
<1>9. Used(node') = Used(node) \ S /\ \A n \in Used(node') : node'[n] = node[n]
  BY <1>2, RemovedFacts
<1>10. Filed(test, bins', node')
  BY <1>2, RemovedFiled
<1>11. Counted(weak, node', total_nodes', guardian', object')
  <2>1. IsFiniteSet(Used(node)) /\ total_nodes = Cardinality(Used(node))
    BY DEF IndInv, Counted
  <2>2. Used(node) \cap S = S
    BY <1>1
  <2>3. IsFiniteSet(Used(node')) /\ total_nodes' = Cardinality(Used(node'))
    <3>1. /\ IsFiniteSet(Used(node) \ S)
          /\ Cardinality(Used(node) \ S) = Cardinality(Used(node)) - Cardinality(Used(node) \cap S)
      BY ONLY <2>1, FS_Difference
    <3> QED
      BY ONLY <1>8, <1>9, <2>1, <2>2, <3>1
  <2>4. guardian' \subseteq Key /\ (~weak => guardian' = {})
    BY <1>8 DEF IndInv, Counted
  <2>5. weak => \A n \in Used(node') : node'[n].key \in guardian'
    BY <1>6, <1>8, <1>9 DEF IndInv, Counted
  <2>6. \A n \in Used(node') : object'[node'[n].key] # "free"
    BY <1>7, <1>9
  <2> QED
    BY <1>5, <2>3, <2>4, <2>5, <2>6 DEF Counted
<1>12. Stacked(test, bins', node', object', stack)
  <2>1. ASSUME NEW i \in 1 .. Len(stack) PROVE Fits(test, bins', node', object', stack, i, stack[i])
    <3>1. /\ Fits(test, bins, node, object, stack, i, stack[i])
          /\ i \in Nat /\ stack[i] \in Frames /\ \A j \in 1 .. i - 1 : j \in 1 .. Len(stack)
      BY HeldFacts DEF IndInv, Stacked
    <3>2. \A j \in 1 .. i - 1 : stack[j].ptr # Nil => stack[j].ptr \in Used(node) \ S
      BY <1>1, <3>1, HeldFacts DEF IndInv
    <3>3. ASSUME i > 1, stack[i].op = "set" PROVE Present(test, node', stack[i])
      <4>1. PICK n \in Used(node) : Alike(test, stack[i].key, node[n].key)
        BY <3>1, <3>3 DEF Fits, Nested, Present
      <4>2. n \in Used(node') /\ node'[n] = node[n]
        BY <1>1, <1>9, <3>3, <4>1
      <4> QED
        BY <4>1, <4>2 DEF Present
    <3>4. Fits(test, bins', node', object, stack, i, stack[i])
      BY <1>1, <1>2, <3>1, <3>2, <3>3, RemovedFits
    <3>5. stack[i].op # "walk" => object'[stack[i].key] = "live"
      BY <1>5, <3>1 DEF Fits, Looks
    <3> QED
      BY <3>4, <3>5, FitsObjects
  <2> QED
    BY <2>1 DEF IndInv, Stacked
<1> QED
  BY <1>8, <1>10, <1>11, <1>12 DEF IndInv

----------------------------------------------------------------------------
(* Operations: what each kind of step leaves *)

LEMMA BusyFacts ==
  ASSUME IndInv, Busy
  PROVE  /\ Len(stack) \in Nat \ {0} /\ stack \in Seq(Frames) /\ stack # <<>> /\ Len(stack) <= MaxDepth + 1
         /\ Top = stack[Len(stack)] /\ Top \in Frames
         /\ Fits(test, bins, node, object, stack, Len(stack), Top)
         /\ \A i \in 1 .. Len(stack) - 1 : i \in 1 .. Len(stack) /\ Fits(test, bins, node, object, stack, i, stack[i])
<1>1. stack \in Seq(Frames) /\ stack # <<>> /\ Len(stack) <= MaxDepth + 1
  BY DEF IndInv, Stacked, Busy
<1>2. Len(stack) \in Nat \ {0} /\ Top = stack[Len(stack)] /\ Top \in Frames
  BY <1>1, FrontFacts DEF Top
<1>3. \A i \in 1 .. Len(stack) : Fits(test, bins, node, object, stack, i, stack[i])
  BY DEF IndInv, Stacked
<1> QED
  BY <1>1, <1>2, <1>3

\* The parts of the invariant that are not about the stack.
LEMMA TableKept ==
  ASSUME IndInv, UNCHANGED <<test, weak, object, table>>, Stacked(test, bins, node, object, stack')
  PROVE  IndInv'
  BY DEF IndInv, table

LEMMA ReturnHolds ==
  ASSUME IndInv, Busy, UNCHANGED <<test, weak, object, table>>, stack' = Front(stack)
  PROVE  IndInv'
<1>1. /\ stack \in Seq(Frames) /\ stack # <<>> /\ Len(stack) <= MaxDepth + 1
      /\ \A i \in 1 .. Len(stack) - 1 : Fits(test, bins, node, object, stack, i, stack[i])
  BY BusyFacts
<1>2. Stacked(test, bins, node, object, Front(stack))
  BY <1>1, PopStacked
<1> QED
  BY <1>2, TableKept

LEMMA BecomeHolds ==
  ASSUME IndInv, Busy, UNCHANGED <<test, weak, object, table>>,
         NEW f \in Frames, Become(f), Fits(test, bins, node, object, stack, Len(stack), f)
  PROVE  IndInv'
<1>1. stack # <<>> /\ Stacked(test, bins, node, object, stack)
  BY DEF IndInv, Busy
<1>2. Stacked(test, bins, node, object, Append(Front(stack), f))
  BY <1>1, BecomeStacked
<1> QED
  BY <1>2, TableKept DEF Become

LEMMA PushHolds ==
  ASSUME IndInv, Len(stack) <= MaxDepth, UNCHANGED <<test, weak, object, table>>,
         NEW f \in Frames, Push(f), Fits(test, bins, node, object, stack, Len(stack) + 1, f)
  PROVE  IndInv'
<1>1. Stacked(test, bins, node, object, stack)
  BY DEF IndInv
<1>2. Stacked(test, bins, node, object, Append(stack, f))
  BY <1>1, PushStacked
<1> QED
  BY <1>2, TableKept DEF Push

\* table-delete! takes out a node that no other operation points to.
LEMMA UnlinkHolds ==
  ASSUME IndInv, Tame, Busy, Top.op = "delete", Top.ptr # Nil,
         \A i \in 1 .. Len(stack) - 1 : stack[i].ptr # Top.ptr,
         Unlink(Top.ptr), stack' = Front(stack), UNCHANGED <<test, weak, object>>
  PROVE  IndInv' /\ Removed(bins, node, {Top.ptr}, bins', node')
<1> DEFINE n == Top.ptr
           S == {n}
<1>1. /\ Len(stack) \in Nat \ {0} /\ stack \in Seq(Frames) /\ stack # <<>> /\ Len(stack) <= MaxDepth + 1
      /\ Top = stack[Len(stack)] /\ Top \in Frames
      /\ Fits(test, bins, node, object, stack, Len(stack), Top)
      /\ \A i \in 1 .. Len(stack) - 1 : i \in 1 .. Len(stack) /\ Fits(test, bins, node, object, stack, i, stack[i])
  BY BusyFacts
<1>2. n \in Used(node) /\ n \in Node /\ node \in [Node -> Entries \cup {FreeNode}]
  BY <1>1 DEF Fits, Used, IndInv, Filed
<1>3. Filed(test, bins, node)
  BY DEF IndInv
<1>4. Removed(bins, node, S, bins', node')
  <2>1. bins' = [b \in 1 .. Len(bins) |-> Keep(bins[b], Node \ {n})] /\ node' = [node EXCEPT ![n] = FreeNode]
    BY DEF Unlink, Without
  <2>2. node' = [m \in Node |-> IF m \in S THEN FreeNode ELSE node[m]]
    BY <1>2, <2>1
  <2> QED
    BY <1>2, <2>1, <2>2 DEF Removed
<1>5. total_nodes' = total_nodes - 1 /\ guardian' = guardian
  BY DEF Unlink
<1> HIDE DEF n, S
<1>6. Used(node') = Used(node) \ S /\ \A m \in Used(node') : node'[m] = node[m]
  BY <1>3, <1>4, RemovedFacts
<1>7. Filed(test, bins', node')
  BY <1>3, <1>4, RemovedFiled
<1>8. Counted(weak, node', total_nodes', guardian', object)
  <2>1. IsFiniteSet(Used(node)) /\ total_nodes = Cardinality(Used(node))
    BY DEF IndInv, Counted
  <2>2. Used(node') = Used(node) \ {n}
    BY <1>6 DEF S
  <2>3. IsFiniteSet(Used(node')) /\ total_nodes' = Cardinality(Used(node'))
    BY <1>2, <1>5, <2>1, <2>2, FS_RemoveElement
  <2> QED
    BY <1>5, <1>6, <2>3 DEF IndInv, Counted
<1>9. ASSUME NEW i \in 1 .. Len(stack) - 1 PROVE Fits(test, bins', node', object, stack, i, stack[i])
  <2>1. /\ Fits(test, bins, node, object, stack, i, stack[i])
        /\ i \in Nat /\ stack[i] \in Frames /\ \A j \in 1 .. i - 1 : j \in 1 .. Len(stack) - 1 /\ j \in 1 .. Len(stack)
    BY <1>1
  <2>2. \A j \in 1 .. Len(stack) - 1 : stack[j].ptr \notin S
    BY DEF S, n
  <2>3. \A j \in 1 .. i - 1 : stack[j].ptr # Nil => stack[j].ptr \in Used(node) \ S
    BY <2>1, <2>2, HeldFacts DEF IndInv
  <2>4. ~(i > 1 /\ stack[i].op = "set")
    <3> SUFFICES ASSUME i > 1, stack[i].op = "set" PROVE FALSE
      OBVIOUS
    <3>1. Len(stack) > 2
      BY <1>1
    <3>2. MaxDepth > 1
      BY <1>1, <3>1, TablesAssumption
    <3>3. "set" \in CallbackOps /\ "delete" \in CallbackOps
      BY <1>1, <2>1, <3>1 DEF Fits, Nested
    <3> QED
      BY <3>2, <3>3, TablesAssumption DEF Tame
  <2> QED
    BY <1>3, <1>4, <2>1, <2>2, <2>3, <2>4, RemovedFits
<1>10. Stacked(test, bins', node', object, Front(stack))
  BY <1>1, <1>9, PopStacked
<1>11. IndInv'
  BY <1>7, <1>8, <1>10 DEF IndInv
<1> QED
  BY <1>4, <1>11 DEF S, n

\* table-set! changes the value of a node.
LEMMA ReviseHolds ==
  ASSUME IndInv, Busy, NEW n \in Used(node), NEW v \in Value, node' = [node EXCEPT ![n].value = v],
         UNCHANGED <<test, weak, object, bins, total_nodes, guardian>>, stack' = Front(stack)
  PROVE  /\ IndInv' /\ SameKeys(node, node')
         /\ \A m \in Used(node) : node'[m].value = IF m = n THEN v ELSE node[m].value
<1>1. /\ Len(stack) \in Nat \ {0} /\ stack \in Seq(Frames) /\ stack # <<>> /\ Len(stack) <= MaxDepth + 1
      /\ \A i \in 1 .. Len(stack) - 1 : i \in 1 .. Len(stack) /\ Fits(test, bins, node, object, stack, i, stack[i])
  BY BusyFacts
<1>2. Filed(test, bins, node) /\ node \in [Node -> Entries \cup {FreeNode}] /\ n \in Node /\ node[n] \in Entries
  BY FiledFacts DEF IndInv, Filed
<1>3. /\ \A m \in Node : m # n => node'[m] = node[m]
      /\ node'[n] = [node[n] EXCEPT !.value = v]
      /\ DOMAIN node' = Node
  BY <1>2
<1>4. node'[n] \in Entries /\ node'[n].key = node[n].key /\ node'[n].hash = node[n].hash /\ node'[n].value = v
  BY <1>2, <1>3 DEF Entries
<1>5. node' \in [Node -> Entries \cup {FreeNode}]
  BY <1>2, <1>3, <1>4
<1>6. Used(node') = Used(node)
  BY <1>3, <1>4, EntryUsed DEF Used
<1>7. SameKeys(node, node')
  BY <1>3, <1>4, <1>6 DEF SameKeys, Used
<1>8. Filed(test, bins, node')
  <2>1. \A b \in 1 .. Len(bins) : \A m \in Node :
          Has(bins[b], m) => m \in Used(node') /\ Bin(HashKey(node'[m].key), Len(bins)) = b
    BY <1>2, <1>7 DEF Filed, SameKeys
  <2>2. \A m \in Used(node') : node'[m].hash = HashKey(node'[m].key) /\ Len(bins) > 0 /\ Has(Home(bins, node'[m].key), m)
    BY <1>2, <1>7 DEF Filed, SameKeys
  <2>3. \A l, m \in Used(node') : Alike(test, node'[l].key, node'[m].key) => l = m
    BY <1>2, <1>7 DEF Filed, SameKeys
  <2> QED
    BY <1>2, <1>5, <2>1, <2>2, <2>3 DEF Filed
<1>9. Counted(weak, node', total_nodes, guardian, object)
  BY <1>7 DEF IndInv, Counted, SameKeys
<1>10. ASSUME NEW i \in 1 .. Len(stack) - 1 PROVE Fits(test, bins, node', object, stack, i, stack[i])
  <2>1. /\ Fits(test, bins, node, object, stack, i, stack[i])
        /\ i \in Nat /\ \A j \in 1 .. i - 1 : j \in 1 .. Len(stack)
    BY <1>1
  <2>2. \A j \in 1 .. i - 1 : stack[j].ptr # Nil => stack[j].ptr \in Used(node)
    BY <2>1, HeldFacts DEF IndInv
  <2> QED
    BY <1>7, <2>1, <2>2, FitsSameKeys
<1>11. Stacked(test, bins, node', object, Front(stack))
  BY <1>1, <1>10, PopStacked
<1>12. IndInv'
  BY <1>8, <1>9, <1>11 DEF IndInv
<1>13. \A m \in Used(node) : node'[m].value = IF m = n THEN v ELSE node[m].value
  BY <1>3, <1>4 DEF Used
<1> QED
  BY <1>7, <1>12, <1>13

----------------------------------------------------------------------------
(* lookup() *)

\* A step of the search goes on to a node that is not past the one it seeks.
Advances ==
  \E g \in Frames :
    /\ Fits(test, bins, node, object, stack, Len(stack), g)
    /\ Become(g) /\ Quiet /\ UNCHANGED table

LEMMA GoOnFacts ==
  ASSUME IndInv, Busy, Top.op # "walk", Top.pc \in {"hash", "compare"}, NEW nodes \in Seq(Node),
         \A n \in Used(node) : Alike(test, Top.key, node[n].key) => Has(nodes, n),
         \A n : Has(nodes, n) => Has(Home(bins, Top.key), n),
         \A m, n : Before(nodes, m, n) => Before(Home(bins, Top.key), m, n),
         GoOn(Top, nodes)
  PROVE  (~Present(test, node, Top) /\ Found(Top, Nil)) \/ Advances
<1> DEFINE H == {n \in Node : node[n].hash = HashKey(Top.key)}
           rest == Keep(nodes, H)
           g == [Top EXCEPT !.pc = "compare", !.ptr = Head(rest)]
<1>1. /\ rest \in Seq(Node)
      /\ \A n : Has(rest, n) <=> n \in H /\ Has(nodes, n)
      /\ \A m, n : Before(rest, m, n) <=> m \in H /\ n \in H /\ Before(nodes, m, n)
  <2> HIDE DEF H
  <2> QED
    BY KeepFacts
<1>2. /\ Filed(test, bins, node) /\ Top \in Frames /\ Fits(test, bins, node, object, stack, Len(stack), Top)
      /\ Looks(test, bins, node, Top) /\ object[Top.key] = "live" /\ Top.key \in Key /\ Len(bins) > 0
  BY BusyFacts DEF IndInv, Fits, Looks
<1>3. ASSUME NEW n \in Used(node), Alike(test, Top.key, node[n].key) PROVE n \in H
  <2>1. n \in Node /\ node[n].hash = HashKey(node[n].key)
    BY <1>2 DEF Filed, Used
  <2>2. HashKey(Top.key) = HashKey(node[n].key)
    BY <1>3, AlikeFacts
  <2> QED
    BY <2>1, <2>2
<1>4. IF rest = <<>> THEN Found(Top, Nil) ELSE Become(g) /\ Quiet /\ UNCHANGED table
  BY DEF GoOn
<1> HIDE DEF H, rest
<1>5. CASE rest = <<>>
  <2>1. \A n : ~Has(rest, n)
    BY <1>1, <1>5, EmptyFacts
  <2>2. ~Present(test, node, Top)
    BY <1>1, <1>3, <2>1 DEF Present
  <2> QED
    BY <1>4, <1>5, <2>2
<1>6. CASE rest # <<>>
  <2>1. /\ Head(rest) \in Node /\ Has(rest, Head(rest))
        /\ \A n : Has(rest, n) => n = Head(rest) \/ Before(rest, Head(rest), n)
    BY <1>1, <1>6, HeadFacts
  <2>2. Has(Home(bins, Top.key), Head(rest)) /\ Head(rest) \in Used(node) /\ Head(rest) # Nil
    <3>1. Has(Home(bins, Top.key), Head(rest))
      BY <1>1, <2>1
    <3>2. Bin(HashKey(Top.key), Len(bins)) \in 1 .. Len(bins)
      BY <1>2, FiledFacts
    <3>3. Head(rest) \in Used(node)
      BY <1>2, <3>1, <3>2, FiledFacts DEF Home
    <3> QED
      BY <2>1, <3>1, <3>3, TablesAssumption
  <2>3. \A n \in Used(node) : Alike(test, Top.key, node[n].key) =>
          n = Head(rest) \/ Before(Home(bins, Top.key), Head(rest), n)
    BY <1>1, <1>3, <2>1
  <2>4. /\ g \in Frames /\ g.key = Top.key /\ g.op = Top.op /\ g.value = Top.value
        /\ g.pc = "compare" /\ g.ptr = Head(rest)
    BY <1>2, <2>1 DEF Frames
  <2> HIDE DEF g
  <2>5. Looks(test, bins, node, g)
    BY <1>2, <2>2, <2>3, <2>4 DEF Looks
  <2>6. Len(stack) > 1 => Nested(test, node, g)
    BY <1>2, <2>4 DEF Fits, Nested, Present
  <2>7. g.op = "delete" =>
          \A j \in 1 .. Len(stack) - 1 : stack[j].ptr # Nil => ~Alike(test, g.key, node[stack[j].ptr].key)
    BY <1>2, <2>4 DEF Fits
  <2>8. Fits(test, bins, node, object, stack, Len(stack), g)
    BY <1>2, <2>2, <2>4, <2>5, <2>6, <2>7 DEF Fits
  <2> QED
    BY <1>4, <1>6, <2>4, <2>8 DEF Advances
<1> QED
  BY <1>5, <1>6

\* lookup() finds the node of the key, or nothing if there is none.
LEMMA LookupFacts ==
  ASSUME IndInv, HashReturns \/ CompareReturns
  PROVE  /\ Busy /\ Top.op # "walk"
         /\ \/ ~Present(test, node, Top) /\ Found(Top, Nil)
            \/ Top.ptr # Nil /\ Top.pc = "compare" /\ Alike(test, Top.key, node[Top.ptr].key) /\ Found(Top, Top.ptr)
            \/ Advances
<1>1. Busy /\ Top.pc \in {"hash", "compare"}
  BY DEF HashReturns, CompareReturns
<1>2. /\ Filed(test, bins, node) /\ Top \in Frames /\ Fits(test, bins, node, object, stack, Len(stack), Top)
  BY <1>1, BusyFacts DEF IndInv
<1>3. Top.op # "walk" /\ Looks(test, bins, node, Top) /\ Top.key \in Key /\ Len(bins) > 0
  BY <1>1, <1>2 DEF Fits, Walks, Looks
<1>4. /\ Bin(HashKey(Top.key), Len(bins)) \in 1 .. Len(bins)
      /\ Home(bins, Top.key) \in Seq(Node) /\ Distinct(Home(bins, Top.key))
  BY <1>2, <1>3, FiledFacts
<1>5. CASE HashReturns
  <2>1. GoOn(Top, Home(bins, Top.key))
    BY <1>5 DEF HashReturns, Home
  <2>2. \A n \in Used(node) : Alike(test, Top.key, node[n].key) => Has(Home(bins, Top.key), n)
    BY <1>2, AlikeFacts DEF Filed, Home
  <2>3. (~Present(test, node, Top) /\ Found(Top, Nil)) \/ Advances
    BY <1>1, <1>3, <1>4, <2>1, <2>2, GoOnFacts
  <2> QED
    BY <1>1, <1>3, <2>3
<1>6. CASE CompareReturns
  <2>1. Top.pc = "compare" /\ Top.ptr # Nil /\ Has(Home(bins, Top.key), Top.ptr)
    BY <1>2, <1>3, <1>6 DEF CompareReturns, Looks, Fits
  <2>2. CASE Same(Top.key, node[Top.ptr].key)
    BY <1>1, <1>3, <1>6, <2>1, <2>2, SameAlike DEF CompareReturns
  <2>3. CASE ~Same(Top.key, node[Top.ptr].key)
    <3>1. GoOn(Top, After(Top.ptr)) /\ ~Alike(test, Top.key, node[Top.ptr].key)
      BY <1>6, <2>3, SameAlike DEF CompareReturns
    <3>2. /\ After(Top.ptr) \in Seq(Node)
          /\ \A n : Has(After(Top.ptr), n) <=> Before(Home(bins, Top.key), Top.ptr, n)
          /\ \A m, n : Before(After(Top.ptr), m, n) => Before(Home(bins, Top.key), m, n)
      BY <1>2, <1>4, <2>1, AfterFacts DEF Home
    <3>3. \A n \in Used(node) : Alike(test, Top.key, node[n].key) => Has(After(Top.ptr), n)
      BY <1>3, <2>1, <3>1, <3>2 DEF Looks
    <3>4. \A n : Has(After(Top.ptr), n) => Has(Home(bins, Top.key), n)
      BY <1>4, <3>2, HasType
    <3>5. (~Present(test, node, Top) /\ Found(Top, Nil)) \/ Advances
      BY <1>1, <1>3, <3>1, <3>2, <3>3, <3>4, GoOnFacts
    <3> QED
      BY <1>1, <1>3, <3>5
  <2> QED
    BY <2>2, <2>3
<1> QED
  BY <1>5, <1>6

\* What is done with the result.
LEMMA FoundFacts ==
  ASSUME NEW n, Found(Top, n), Top \in Frames, Top.op # "walk"
  PROVE  \/ Top.op = "ref" /\ Return(IF n = Nil THEN Nil ELSE node[n].value) /\ UNCHANGED table
         \/ Top.op = "delete" /\ n = Nil /\ Return(Nil) /\ UNCHANGED table
         \/ Top.op = "delete" /\ n # Nil /\ Return(Nil) /\ Unlink(n)
         \/ Top.op = "set" /\ n = Nil /\ Become([Top EXCEPT !.pc = "rehash", !.ptr = Nil]) /\ Quiet /\ UNCHANGED table
         \/ /\ Top.op = "set" /\ n # Nil /\ node' = [node EXCEPT ![n].value = Top.value]
            /\ Return(Nil) /\ UNCHANGED <<bins, total_nodes, guardian>>
<1>1. Top.op \in {"ref", "set", "delete"}
  BY DEF Frames
<1>2. CASE Top.op = "ref"
  BY <1>2 DEF Found
<1>3. CASE Top.op = "delete"
  BY <1>3 DEF Found
<1>4. CASE Top.op = "set"
  BY <1>4 DEF Found
<1> QED
  BY <1>1, <1>2, <1>3, <1>4

\* A key that is not there is to be added.
LEMMA AbsentFits ==
  ASSUME IndInv, Busy, Top.op = "set", ~Present(test, node, Top)
  PROVE  LET g == [Top EXCEPT !.pc = "rehash", !.ptr = Nil]
         IN g \in Frames /\ Fits(test, bins, node, object, stack, Len(stack), g)
<1> DEFINE g == [Top EXCEPT !.pc = "rehash", !.ptr = Nil]
<1>1. Top \in Frames /\ Fits(test, bins, node, object, stack, Len(stack), Top)
  BY BusyFacts
<1>2. /\ g \in Frames /\ g.key = Top.key /\ g.op = Top.op /\ g.value = Top.value
      /\ g.pc = "rehash" /\ g.ptr = Nil
  BY <1>1 DEF Frames
<1> HIDE DEF g
<1>3. Looks(test, bins, node, g)
  BY <1>1, <1>2 DEF Fits, Looks, Present
<1>4. ~(Len(stack) > 1)
  BY <1>1 DEF Fits, Nested
<1>5. Fits(test, bins, node, object, stack, Len(stack), g)
  BY <1>1, <1>2, <1>3, <1>4 DEF Fits
<1> QED
  BY <1>2, <1>5 DEF g

LEMMA LookupHolds ==
  ASSUME IndInv, Tame, HashReturns \/ CompareReturns, UNCHANGED <<test, weak, object>>
  PROVE  IndInv'
<1>1. /\ Busy /\ Top.op # "walk"
      /\ \/ ~Present(test, node, Top) /\ Found(Top, Nil)
         \/ Top.ptr # Nil /\ Top.pc = "compare" /\ Alike(test, Top.key, node[Top.ptr].key) /\ Found(Top, Top.ptr)
         \/ Advances
  BY LookupFacts
<1>2. Top \in Frames /\ Fits(test, bins, node, object, stack, Len(stack), Top)
  BY <1>1, BusyFacts
<1>3. ASSUME Return(Nil) \/ Return(node[Top.ptr].value), UNCHANGED table PROVE IndInv'
  <2>1. stack' = Front(stack)
    BY <1>3 DEF Return
  <2> QED
    BY <1>1, <1>3, <2>1, ReturnHolds
<1>4. CASE ~Present(test, node, Top) /\ Found(Top, Nil)
  <2>1. \/ Return(Nil) /\ UNCHANGED table
        \/ Top.op = "set" /\ Become([Top EXCEPT !.pc = "rehash", !.ptr = Nil]) /\ UNCHANGED table
    BY <1>1, <1>2, <1>4, FoundFacts
  <2>2. CASE Top.op = "set" /\ Become([Top EXCEPT !.pc = "rehash", !.ptr = Nil]) /\ UNCHANGED table
    <3> DEFINE g == [Top EXCEPT !.pc = "rehash", !.ptr = Nil]
    <3>1. g \in Frames /\ Fits(test, bins, node, object, stack, Len(stack), g)
      BY <1>1, <1>4, <2>2, AbsentFits
    <3>2. Become(g) /\ UNCHANGED table
      BY <2>2
    <3> HIDE DEF g
    <3> QED
      BY <1>1, <3>1, <3>2, BecomeHolds
  <2> QED
    BY <1>3, <2>1, <2>2
<1>5. CASE Top.ptr # Nil /\ Top.pc = "compare" /\ Alike(test, Top.key, node[Top.ptr].key) /\ Found(Top, Top.ptr)
  <2>1. \/ Return(Nil) /\ UNCHANGED table
        \/ Return(node[Top.ptr].value) /\ UNCHANGED table
        \/ Top.op = "delete" /\ Return(Nil) /\ Unlink(Top.ptr)
        \/ /\ Top.op = "set" /\ node' = [node EXCEPT ![Top.ptr].value = Top.value]
           /\ Return(Nil) /\ UNCHANGED <<bins, total_nodes, guardian>>
    BY <1>1, <1>2, <1>5, FoundFacts
  <2>2. CASE Top.op = "delete" /\ Return(Nil) /\ Unlink(Top.ptr)
    <3>1. \A i \in 1 .. Len(stack) - 1 : stack[i].ptr # Top.ptr
      BY <1>2, <1>5, <2>2 DEF Fits
    <3>2. stack' = Front(stack)
      BY <2>2 DEF Return
    <3> QED
      BY <1>1, <1>5, <2>2, <3>1, <3>2, UnlinkHolds
  <2>3. CASE /\ Top.op = "set" /\ node' = [node EXCEPT ![Top.ptr].value = Top.value]
             /\ Return(Nil) /\ UNCHANGED <<bins, total_nodes, guardian>>
    <3>1. Top.ptr \in Used(node) /\ Top.value \in Value
      BY <1>2, <1>5, <2>3 DEF Fits, Looks
    <3>2. stack' = Front(stack)
      BY <2>3 DEF Return
    <3> QED
      BY <1>1, <2>3, <3>1, <3>2, ReviseHolds
  <2> QED
    BY <1>3, <2>1, <2>2, <2>3
<1>6. CASE Advances
  <2>1. PICK g \in Frames : /\ Fits(test, bins, node, object, stack, Len(stack), g)
                            /\ Become(g) /\ UNCHANGED table
    BY <1>6 DEF Advances
  <2> QED
    BY <1>1, <2>1, BecomeHolds
<1> QED
  BY <1>1, <1>4, <1>5, <1>6
\* A comparison that fails counts as found.
LEMMA ThrowHolds ==
  ASSUME IndInv, Tame, CompareThrows, UNCHANGED <<test, weak, object>>
  PROVE  IndInv'
<1>1. Busy /\ Top.pc = "compare"
  BY DEF CompareThrows
<1>2. Top \in Frames /\ Fits(test, bins, node, object, stack, Len(stack), Top)
  BY <1>1, BusyFacts
<1>3. Top.op # "walk" /\ Looks(test, bins, node, Top) /\ Top.ptr # Nil /\ Top.ptr \in Used(node)
  BY <1>1, <1>2 DEF Fits, Walks, Looks
<1>4. Top.op = "delete" => \A i \in 1 .. Len(stack) - 1 : stack[i].ptr # Top.ptr
  BY DEF CompareThrows, Tame
<1>5. \/ Top.op = "ref" /\ Return(Failed) /\ UNCHANGED table
      \/ Top.op = "delete" /\ Return(Failed) /\ Unlink(Top.ptr)
      \/ /\ Top.op \notin {"ref", "delete"} /\ node' = [node EXCEPT ![Top.ptr].value = Top.value]
         /\ Return(Failed) /\ UNCHANGED <<bins, total_nodes, guardian>>
  BY DEF CompareThrows
<1>6. stack' = Front(stack)
  BY <1>5 DEF Return
<1>7. CASE UNCHANGED table
  BY <1>1, <1>6, <1>7, ReturnHolds
<1>8. CASE Top.op = "delete" /\ Unlink(Top.ptr)
  BY <1>1, <1>3, <1>4, <1>6, <1>8, UnlinkHolds
<1>9. CASE /\ Top.op \notin {"ref", "delete"} /\ node' = [node EXCEPT ![Top.ptr].value = Top.value]
           /\ UNCHANGED <<bins, total_nodes, guardian>>
  <2>1. Top.value \in Value
    BY <1>2, <1>3, <1>9 DEF Frames, Looks
  <2> QED
    BY <1>1, <1>3, <1>6, <1>9, <2>1, ReviseHolds
<1> QED
  BY <1>5, <1>7, <1>8, <1>9

----------------------------------------------------------------------------
(* Calls *)

\* What is pushed fits on the stack.
LEMMA StartFits ==
  ASSUME IndInv, NEW key \in Key, object[key] = "live", NEW value \in Value \cup {Nil},
         NEW op \in {"ref", "set", "delete"}, op = "set" => value \in Value, May(op),
         NEW pc \in {"hash", "rehash"}, pc = "hash" => bins # <<>>,
         pc = "rehash" => op = "set" /\ ~\E n \in Used(node) : Alike(test, key, node[n].key),
         Busy /\ op = "set" => \E n \in Used(node) : Alike(test, key, node[n].key),
         Busy /\ op = "delete" => \A n \in Held : ~Alike(test, key, node[n].key)
  PROVE  LET f == Frame(op, key, value, pc, Nil)
         IN /\ f \in Frames /\ Len(stack) <= MaxDepth
            /\ Fits(test, bins, node, object, stack, Len(stack) + 1, f)
<1> DEFINE f == Frame(op, key, value, pc, Nil)
<1>1. f.op = op /\ f.key = key /\ f.value = value /\ f.pc = pc /\ f.ptr = Nil /\ f.seen = <<>> /\ f.threw = FALSE
  BY DEF Frame
<1>2. f \in Frames
  BY DEF Frame, Frames
<1> HIDE DEF f
<1>3. Len(stack) \in Nat /\ Len(bins) \in Nat /\ (bins # <<>> => Len(bins) > 0) /\ (Len(stack) > 0 <=> Busy)
  BY HeldFacts DEF IndInv, Filed, Stacked, Busy
<1>4. Len(stack) <= MaxDepth
  BY <1>3, TablesAssumption DEF May, Lisp
<1>5. Present(test, node, f) <=> \E n \in Used(node) : Alike(test, key, node[n].key)
  BY <1>1 DEF Present
<1>6. Looks(test, bins, node, f)
  BY <1>1, <1>3, <1>5 DEF Looks
<1>7. Len(stack) + 1 > 1 => Nested(test, node, f)
  BY <1>1, <1>3, <1>5 DEF Nested, May
<1>8. f.op = "delete" =>
        \A j \in 1 .. (Len(stack) + 1) - 1 : stack[j].ptr # Nil => ~Alike(test, f.key, node[stack[j].ptr].key)
  <2> SUFFICES ASSUME f.op = "delete", NEW j \in 1 .. Len(stack), stack[j].ptr # Nil
               PROVE  ~Alike(test, f.key, node[stack[j].ptr].key)
    BY <1>3
  <2>1. Busy /\ stack[j].ptr \in Held
    BY <1>3, HeldFacts DEF IndInv
  <2> QED
    BY <1>1, <2>1
<1>9. Fits(test, bins, node, object, stack, Len(stack) + 1, f)
  BY <1>1, <1>6, <1>7, <1>8 DEF Fits
<1> QED
  BY <1>2, <1>4, <1>9 DEF f

\* A call pushes an operation, or returns at once if there are no buckets.
LEMMA CallFacts ==
  ASSUME IndInv, Tame, Call
  PROVE  /\ UNCHANGED table
         /\ \/ stack' = stack /\ \E op \in {"ref", "delete"}, k \in Key :
                                   bins = <<>> /\ reply' = Answer(op, k, Nil)
            \/ /\ Quiet
               /\ \E f \in Frames : /\ Push(f) /\ Len(stack) <= MaxDepth
                                    /\ Fits(test, bins, node, object, stack, Len(stack) + 1, f)
<1>1. PICK k \in Key : object[k] = "live" /\ (TableRef(k) \/ TableDelete(k) \/ \E v \in Value : TableSet(k, v))
  BY DEF Call
<1>2. Linked = Used(node) /\ Filed(test, bins, node)
  BY LinkedUsed DEF IndInv
<1>3. bins = <<>> => Used(node) = {}
  BY <1>2 DEF Filed
<1>4. ASSUME NEW op \in {"ref", "set", "delete"}, NEW v \in Value \cup {Nil}, op = "set" => v \in Value,
             May(op), Start(op, k, v),
             Busy /\ op = "set" => \E n \in Used(node) : Alike(test, k, node[n].key),
             Busy /\ op = "delete" => \A n \in Held : ~Alike(test, k, node[n].key)
      PROVE  /\ UNCHANGED table
             /\ \/ stack' = stack /\ op \in {"ref", "delete"} /\ bins = <<>> /\ reply' = Answer(op, k, Nil)
                \/ /\ Quiet
                   /\ \E f \in Frames : /\ Push(f) /\ Len(stack) <= MaxDepth
                                        /\ Fits(test, bins, node, object, stack, Len(stack) + 1, f)
  <2>1. ASSUME NEW pc \in {"hash", "rehash"}, pc = "hash" => bins # <<>>, pc = "rehash" => bins = <<>> /\ op = "set",
               Push(Frame(op, k, v, pc, Nil))
        PROVE  \E f \in Frames : /\ Push(f) /\ Len(stack) <= MaxDepth
                                 /\ Fits(test, bins, node, object, stack, Len(stack) + 1, f)
    <3> DEFINE f == Frame(op, k, v, pc, Nil)
    <3>1. pc = "rehash" => op = "set" /\ ~\E n \in Used(node) : Alike(test, k, node[n].key)
      BY <1>3, <2>1
    <3>2. f \in Frames /\ Len(stack) <= MaxDepth /\ Fits(test, bins, node, object, stack, Len(stack) + 1, f)
      BY <1>1, <1>4, <2>1, <3>1, StartFits
    <3>3. Push(f)
      BY <2>1
    <3> QED
      BY <3>2, <3>3
  <2>2. CASE bins # <<>>
    <3>1. Push(Frame(op, k, v, "hash", Nil)) /\ Quiet /\ UNCHANGED table
      BY <1>4, <2>2 DEF Start
    <3> QED
      BY <2>1, <2>2, <3>1
  <2>3. CASE bins = <<>> /\ op = "set"
    <3>1. Push(Frame(op, k, v, "rehash", Nil)) /\ Quiet /\ UNCHANGED table
      BY <1>4, <2>3 DEF Start
    <3> QED
      BY <2>1, <2>3, <3>1
  <2>4. CASE bins = <<>> /\ op # "set"
    BY <1>4, <2>4 DEF Start
  <2> QED
    BY <2>2, <2>3, <2>4
<1>5. CASE TableRef(k)
  <2>1. May("ref") /\ Start("ref", k, Nil)
    BY <1>5 DEF TableRef
  <2> QED
    BY <1>4, <2>1
<1>6. CASE TableDelete(k)
  <2>1. May("delete") /\ Start("delete", k, Nil) /\ (Busy => \A n \in Held : ~Alike(test, k, node[n].key))
    BY <1>6, SameAlike DEF TableDelete, Tame
  <2> QED
    BY <1>4, <2>1
<1>7. CASE \E v \in Value : TableSet(k, v)
  <2>1. PICK v \in Value : TableSet(k, v)
    BY <1>7
  <2>2. May("set") /\ Start("set", k, v) /\ (Busy => \E n \in Used(node) : Alike(test, k, node[n].key))
    BY <1>2, <2>1, SameAlike DEF TableSet, Tame
  <2> QED
    BY <1>4, <2>2
<1> QED
  BY <1>1, <1>5, <1>6, <1>7

LEMMA CallHolds == ASSUME IndInv, Tame, Call, UNCHANGED <<test, weak, object>> PROVE IndInv'
<1>1. UNCHANGED table
  BY CallFacts
<1>2. CASE stack' = stack
  BY <1>1, <1>2, TableKept DEF IndInv
<1>3. CASE \E f \in Frames : /\ Push(f) /\ Len(stack) <= MaxDepth
                             /\ Fits(test, bins, node, object, stack, Len(stack) + 1, f)
  BY <1>1, <1>3, PushHolds
<1> QED
  BY <1>2, <1>3, CallFacts
----------------------------------------------------------------------------
(* table-for-each *)

LEMMA BeforeOrder ==
  ASSUME NEW s \in Seq(Node), Distinct(s)
  PROVE  /\ \A m : ~Before(s, m, m)
         /\ \A l, m, n : Before(s, l, m) /\ Before(s, m, n) => Before(s, l, n)
<1>1. ASSUME NEW m, Before(s, m, m) PROVE FALSE
  <2>1. PICK i, j \in 1 .. Len(s) : i < j /\ s[i] = m /\ s[j] = m
    BY <1>1 DEF Before
  <2> QED
    BY <2>1 DEF Distinct
<1>2. ASSUME NEW l, NEW m, NEW n, Before(s, l, m), Before(s, m, n) PROVE Before(s, l, n)
  <2>1. PICK i, j \in 1 .. Len(s) : i < j /\ s[i] = l /\ s[j] = m
    BY <1>2 DEF Before
  <2>2. PICK p, q \in 1 .. Len(s) : p < q /\ s[p] = m /\ s[q] = n
    BY <1>2 DEF Before
  <2>3. j = p
    BY <2>1, <2>2 DEF Distinct
  <2>4. i < q
    BY <2>1, <2>2, <2>3
  <2> QED
    BY <2>1, <2>2, <2>4 DEF Before
<1> QED
  BY <1>1, <1>2

LEMMA AppendFacts ==
  ASSUME NEW s \in Seq(Node), NEW n \in Node
  PROVE  /\ Append(s, n) \in Seq(Node)
         /\ \A m : Has(Append(s, n), m) <=> Has(s, m) \/ m = n
         /\ Distinct(s) /\ ~Has(s, n) => Distinct(Append(s, n))
<1> DEFINE t == Append(s, n)
<1>1. /\ t \in Seq(Node) /\ Len(s) \in Nat /\ Len(t) = Len(s) + 1 /\ t[Len(s) + 1] = n
      /\ \A i \in 1 .. Len(s) : t[i] = s[i]
  OBVIOUS
<1> HIDE DEF t
<1>2. \A m : Has(t, m) <=> Has(s, m) \/ m = n
  <2>1. \A m : Has(t, m) => Has(s, m) \/ m = n
    BY <1>1 DEF Has
  <2>2. \A m : Has(s, m) => Has(t, m)
    BY <1>1 DEF Has
  <2>3. Has(t, n)
    BY <1>1 DEF Has
  <2> QED
    BY <2>1, <2>2, <2>3
<1>3. ASSUME Distinct(s), ~Has(s, n), NEW i \in 1 .. Len(t), NEW j \in 1 .. Len(t), t[i] = t[j] PROVE i = j
  BY <1>1, <1>3 DEF Distinct, Has
<1> QED
  BY <1>1, <1>2, <1>3 DEF Distinct, t

\* The walk finds the bucket of a node.
LEMMA BinOfFacts ==
  ASSUME Filed(test, bins, node), NEW b \in 1 .. Len(bins), NEW n, Has(bins[b], n)
  PROVE  BinOf(n) = b
<1>1. \A c \in 1 .. Len(bins) : n \in ToSet(bins[c]) <=> Has(bins[c], n)
  BY FiledFacts, Members
<1>2. \A c \in 1 .. Len(bins) : n \in ToSet(bins[c]) <=> c = b
  BY <1>1, FiledFacts
<1> QED
  BY <1>2 DEF BinOf

\* The first node from bucket i on, and what comes after it.
LEMMA FromHead ==
  ASSUME Filed(test, bins, node), NEW i \in 1 .. Len(bins) + 1, From(i) # <<>>
  PROVE  LET n == Head(From(i))
             b == BinOf(n)
         IN /\ n \in Node /\ b \in i .. Len(bins) /\ b \in 1 .. Len(bins) /\ Has(bins[b], n)
            /\ \A c \in i .. Len(bins) : \A m :
                 Has(bins[c], m) => c > b \/ (c = b /\ (m = n \/ Before(bins[b], n, m)))
<1> DEFINE n == Head(From(i))
<1>1. PICK b \in i .. Len(bins) : /\ bins[b] # <<>> /\ n = Head(bins[b])
                                  /\ \A c \in i .. Len(bins) : c < b => bins[c] = <<>>
  BY FromFacts
<1>2. Len(bins) \in Nat /\ b \in 1 .. Len(bins) /\ \A c \in 1 .. Len(bins) : bins[c] \in Seq(Node)
  BY <1>1, FiledFacts
<1>3. n \in Node /\ Has(bins[b], n) /\ \A m : Has(bins[b], m) => m = n \/ Before(bins[b], n, m)
  BY <1>1, <1>2, HeadFacts
<1> HIDE DEF n
<1>4. BinOf(n) = b
  BY <1>2, <1>3, BinOfFacts
<1>5. ASSUME NEW c \in i .. Len(bins), NEW m, Has(bins[c], m)
      PROVE  c > b \/ (c = b /\ (m = n \/ Before(bins[b], n, m)))
  <2>1. c < b => bins[c] = <<>> /\ bins[c] \in Seq(Node)
    BY <1>1, <1>2
  <2>2. ~(c < b)
    BY <1>5, <2>1, EmptyFacts
  <2> QED
    BY <1>2, <1>3, <1>5, <2>2
<1> QED
  BY <1>1, <1>2, <1>3, <1>4, <1>5 DEF n

\* A walk begins with the first node.
LEMMA ForEachHolds == ASSUME IndInv, TableForEach, UNCHANGED <<test, weak, object>> PROVE IndInv'
<1> DEFINE n == Head(From(1))
           b == BinOf(n)
           f == [Frame("walk", Nil, b, "call", n) EXCEPT !.seen = <<n>>]
<1>1. stack = <<>> /\ From(1) # <<>> /\ Push(f) /\ UNCHANGED table
  BY DEF TableForEach, Busy
<1>2. Filed(test, bins, node) /\ Len(bins) \in Nat /\ Len(stack) = 0
  BY <1>1, FiledFacts DEF IndInv
<1>3. /\ n \in Node /\ b \in 1 .. Len(bins) /\ Has(bins[b], n)
      /\ \A c \in 1 .. Len(bins) : \A m :
                 Has(bins[c], m) => c > b \/ (c = b /\ (m = n \/ Before(bins[b], n, m)))
  <2>1. 1 \in 1 .. Len(bins) + 1
    BY <1>2
  <2>2. Filed(test, bins, node) /\ From(1) # <<>>
    BY <1>1, <1>2
  <2> QED
    BY ONLY <2>1, <2>2, FromHead DEF n, b
<1> HIDE DEF n, b
<1>4. /\ f.op = "walk" /\ f.key = Nil /\ f.value = b /\ f.pc = "call" /\ f.ptr = n
      /\ f.seen = <<n>> /\ f.threw = FALSE
  BY DEF Frame
<1>5. f \in Frames
  <2> DEFINE e == Frame("walk", Nil, b, "call", n)
  <2>1. <<n>> \in Seq(Node) /\ b \in Nat
    BY <1>2, <1>3
  <2>2. e \in Frames
    BY <1>3, <2>1 DEF Frame, Frames
  <2> HIDE DEF e
  <2>3. [e EXCEPT !.seen = <<n>>] \in Frames
    BY <2>1, <2>2 DEF Frames
  <2> QED
    BY <2>3 DEF e
<1> HIDE DEF f
<1>6. n # Nil /\ n \in Used(node)
  BY <1>2, <1>3, FiledFacts, TablesAssumption
<1>7. Distinct(f.seen) /\ \A m : Has(f.seen, m) <=> m = n
  BY <1>4 DEF Distinct, Has
<1>8. ASSUME NEW m \in Node, ToCome(bins, f, m) PROVE m # n
  <2>1. bins[b] \in Seq(Node) /\ Distinct(bins[b])
    BY <1>2, <1>3, FiledFacts DEF Filed
  <2>2. CASE Before(bins[b], n, m)
    BY <2>1, <2>2, BeforeOrder
  <2>3. CASE \E c \in b + 1 .. Len(bins) : Has(bins[c], m)
    <3>1. PICK c \in b + 1 .. Len(bins) : Has(bins[c], m)
      BY <2>3
    <3>2. c \in 1 .. Len(bins) /\ c # b
      BY <1>2, <1>3
    <3> QED
      BY <1>2, <1>3, <3>1, <3>2, FiledFacts
  <2> QED
    BY <1>4, <1>8, <2>2, <2>3 DEF ToCome
<1>9. ASSUME NEW m \in Used(node) PROVE m = n \/ ToCome(bins, f, m)
  <2> DEFINE c == Bin(HashKey(node[m].key), Len(bins))
  <2>1. Len(bins) > 0 /\ Has(bins[c], m)
    BY <1>2 DEF Filed, Home
  <2>2. c \in 1 .. Len(bins)
    BY <1>2, <2>1, FiledFacts
  <2> HIDE DEF c
  <2>3. c > b \/ m = n \/ Before(bins[b], n, m)
    BY <1>3, <2>1, <2>2
  <2>4. c > b => c \in b + 1 .. Len(bins)
    BY <1>2, <1>3, <2>2
  <2> QED
    BY <1>4, <2>1, <2>3, <2>4 DEF ToCome
<1>10. Walks(bins, node, f)
  BY <1>3, <1>4, <1>6, <1>7, <1>8, <1>9 DEF Walks
<1>11. Fits(test, bins, node, object, stack, 1, f)
  BY <1>4, <1>6, <1>10 DEF Fits
<1>12. Len(stack) <= MaxDepth /\ Len(stack) + 1 = 1
  BY <1>2, TablesAssumption
<1> QED
  BY <1>1, <1>5, <1>11, <1>12, PushHolds
\* The walk goes on to n, the first node of bucket b still to come.
LEMMA VisitFits ==
  ASSUME IndInv, Busy, Top.op = "walk", NEW b \in 1 .. Len(bins), NEW n, Has(bins[b], n), NEW threw \in BOOLEAN,
         ToCome(bins, Top, n),
         \A m \in Node : Before(bins[b], n, m) \/ (\E c \in b + 1 .. Len(bins) : Has(bins[c], m))
           => ToCome(bins, Top, m),
         ~threw => /\ ~Top.threw
                   /\ \A m \in Node : ToCome(bins, Top, m) =>
                        m = n \/ Before(bins[b], n, m) \/ \E c \in b + 1 .. Len(bins) : Has(bins[c], m)
  PROVE  LET g == [Top EXCEPT !.ptr = n, !.seen = Append(@, n), !.value = b, !.threw = threw]
         IN g \in Frames /\ Fits(test, bins, node, object, stack, Len(stack), g)
<1> DEFINE g == [Top EXCEPT !.ptr = n, !.seen = Append(@, n), !.value = b, !.threw = threw]
<1>1. Top \in Frames /\ Fits(test, bins, node, object, stack, Len(stack), Top)
  BY BusyFacts
<1>2. Filed(test, bins, node) /\ Len(bins) \in Nat
  BY FiledFacts DEF IndInv
<1>3. n \in Used(node) /\ n \in Node /\ n # Nil
  BY <1>2, FiledFacts, TablesAssumption
<1>4. Len(stack) = 1 /\ Walks(bins, node, Top)
  BY <1>1 DEF Fits
<1>5. Top.seen \in Seq(Node) /\ b \in Nat
  BY <1>1, <1>2 DEF Frames
<1>6. /\ Append(Top.seen, n) \in Seq(Node)
      /\ \A m : Has(Append(Top.seen, n), m) <=> Has(Top.seen, m) \/ m = n
      /\ Distinct(Append(Top.seen, n))
  BY <1>3, <1>4, <1>5, AppendFacts DEF Walks
<1>7. /\ g.op = "walk" /\ g.key = Top.key /\ g.value = b /\ g.pc = "call" /\ g.ptr = n
      /\ g.seen = Append(Top.seen, n) /\ g.threw = threw
  BY <1>1, <1>4 DEF Frames, Walks
<1>8. g \in Frames
  BY <1>1, <1>3, <1>5, <1>6 DEF Frames
<1> HIDE DEF g
<1>9. bins[b] \in Seq(Node) /\ Distinct(bins[b])
  BY <1>2, FiledFacts DEF Filed
<1>10. \A m \in Node : ToCome(bins, g, m) <=>
         Before(bins[b], n, m) \/ \E c \in b + 1 .. Len(bins) : Has(bins[c], m)
  BY <1>7 DEF ToCome
<1>11. ~ToCome(bins, g, n)
  <2>1. ~Before(bins[b], n, n)
    BY <1>9, BeforeOrder
  <2>2. ASSUME NEW c \in b + 1 .. Len(bins), Has(bins[c], n) PROVE FALSE
    <3>1. c \in 1 .. Len(bins) /\ c # b
      BY <1>2, <1>5
    <3> QED
      BY <1>2, <2>2, <3>1, FiledFacts
  <2> QED
    BY <1>3, <1>10, <2>1, <2>2
<1>12. \A m \in Node : ToCome(bins, g, m) => ~Has(g.seen, m)
  BY <1>4, <1>6, <1>7, <1>10, <1>11 DEF Walks
<1>13. ASSUME ~threw, NEW m \in Used(node) PROVE Has(g.seen, m) \/ ToCome(bins, g, m)
  <2>1. m \in Node /\ (Has(Top.seen, m) \/ ToCome(bins, Top, m))
    BY <1>4, <1>13 DEF Walks, Used
  <2> QED
    BY <1>6, <1>7, <1>10, <1>13, <2>1
<1>14. Walks(bins, node, g)
  BY <1>3, <1>4, <1>6, <1>7, <1>12, <1>13 DEF Walks
<1>15. Fits(test, bins, node, object, stack, Len(stack), g)
  BY <1>3, <1>4, <1>7, <1>14 DEF Fits
<1> QED
  BY <1>8, <1>15 DEF g

\* What a step of the walk leaves: it goes on, or it ends and, if the function
\* did not fail, has been to all nodes.
WalksOn ==
  \/ \E g \in Frames : Fits(test, bins, node, object, stack, Len(stack), g) /\ Become(g) /\ Quiet
  \/ Return(Failed)
  \/ Return(Nil) /\ \A n \in Used(node) : Has(Top.seen, n)

LEMMA WalkReturnsFacts ==
  ASSUME IndInv, WalkReturns
  PROVE  Busy /\ Top.op = "walk" /\ UNCHANGED table /\ WalksOn
<1> DEFINE v == Top.value
           p == Top.ptr
           A == After(p)
           F == From(v + 1)
           rest == A \o F
<1>1. Busy /\ Top.pc = "call" /\ UNCHANGED table
  BY DEF WalkReturns
<1>2. Visit(Top, First(rest), IF rest = <<>> THEN 0 ELSE BinOf(First(rest)), Top.threw)
  BY DEF WalkReturns
<1>3. Top \in Frames /\ Fits(test, bins, node, object, stack, Len(stack), Top) /\ Filed(test, bins, node) /\ Len(bins) \in Nat
  BY <1>1, BusyFacts, FiledFacts DEF IndInv
<1>4. Top.op = "walk" /\ Walks(bins, node, Top) /\ Top.threw \in BOOLEAN
  BY <1>1, <1>3 DEF Fits, Looks, Frames
<1>5. v \in 1 .. Len(bins) /\ Has(bins[v], p) /\ bins[v] \in Seq(Node) /\ Distinct(bins[v])
  BY <1>3, <1>4, FiledFacts DEF Walks, Filed
<1>6. v + 1 \in 1 .. Len(bins) + 1 /\ v \in Nat
  BY <1>3, <1>5
<1> HIDE DEF v, p
<1>7. /\ A \in Seq(Node)
      /\ \A n : Has(A, n) <=> Before(bins[v], p, n)
      /\ \A m, n : Before(A, m, n) => Before(bins[v], m, n)
  BY <1>3, <1>5, AfterFacts
<1>8. /\ F \in Seq(Node)
      /\ \A n : Has(F, n) <=> \E b \in v + 1 .. Len(bins) : Has(bins[b], n)
  BY <1>3, <1>6, FromFacts
<1>9. \A n : ToCome(bins, Top, n) <=> Has(A, n) \/ Has(F, n)
  BY <1>7, <1>8 DEF ToCome, v, p
<1>a. F # <<>> => /\ Head(F) \in Node /\ BinOf(Head(F)) \in v + 1 .. Len(bins) /\ BinOf(Head(F)) \in 1 .. Len(bins)
                  /\ Has(bins[BinOf(Head(F))], Head(F))
                  /\ \A c \in v + 1 .. Len(bins) : \A m :
                       Has(bins[c], m) => \/ c > BinOf(Head(F))
                                          \/ c = BinOf(Head(F)) /\ (m = Head(F) \/ Before(bins[BinOf(Head(F))], Head(F), m))
  BY <1>3, <1>6, FromHead
<1> HIDE DEF A, F
<1>10. /\ A # <<>> => rest # <<>> /\ Head(rest) = Head(A)
       /\ A = <<>> => rest = F
  BY <1>7, <1>8, ConcatFacts
<1>11. ASSUME rest # <<>>, NEW n, n = Head(rest), NEW b \in 1 .. Len(bins), b = BinOf(n), Has(bins[b], n),
              ToCome(bins, Top, n),
              \A m \in Node : Before(bins[b], n, m) \/ (\E c \in b + 1 .. Len(bins) : Has(bins[c], m))
                => ToCome(bins, Top, m),
              \A m \in Node : ToCome(bins, Top, m) =>
                        m = n \/ Before(bins[b], n, m) \/ \E c \in b + 1 .. Len(bins) : Has(bins[c], m)
       PROVE  WalksOn
  <2> DEFINE g == [Top EXCEPT !.ptr = n, !.seen = Append(@, n), !.value = b, !.threw = Top.threw]
  <2>1. g \in Frames /\ Fits(test, bins, node, object, stack, Len(stack), g)
    BY <1>1, <1>4, <1>11, VisitFits
  <2>2. n # Nil
    BY <1>3, <1>11, FiledFacts, TablesAssumption
  <2>3. Visit(Top, n, b, Top.threw)
    BY <1>2, <1>11 DEF First
  <2>4. Become(g) /\ Quiet
    BY <2>2, <2>3 DEF Visit
  <2> QED
    BY <2>1, <2>4 DEF WalksOn
<1>12. CASE A # <<>>
  <2> DEFINE n == Head(A)
  <2>1. n \in Node /\ Has(A, n) /\ \A m : Has(A, m) => m = n \/ Before(A, n, m)
    BY <1>7, <1>12, HeadFacts
  <2>2. rest # <<>> /\ n = Head(rest)
    BY <1>10, <1>12
  <2> HIDE DEF n, rest
  <2>3. Before(bins[v], p, n) /\ Has(bins[v], n)
    BY <1>5, <1>7, <2>1, HasType
  <2>4. v = BinOf(n)
    BY <1>3, <1>5, <2>3, BinOfFacts
  <2>5. ToCome(bins, Top, n)
    BY <1>9, <2>1
  <2>6. ASSUME NEW m \in Node, Before(bins[v], n, m) \/ \E c \in v + 1 .. Len(bins) : Has(bins[c], m)
        PROVE  ToCome(bins, Top, m)
    <3>1. Before(bins[v], n, m) => Before(bins[v], p, m)
      BY <1>5, <2>3, BeforeOrder
    <3> QED
      BY <1>7, <1>8, <1>9, <2>6, <3>1
  <2>7. ASSUME NEW m \in Node, ToCome(bins, Top, m)
        PROVE  m = n \/ Before(bins[v], n, m) \/ \E c \in v + 1 .. Len(bins) : Has(bins[c], m)
    BY <1>7, <1>8, <1>9, <2>1, <2>7
  <2>8. \A m \in Node : Before(bins[v], n, m) \/ (\E c \in v + 1 .. Len(bins) : Has(bins[c], m))
          => ToCome(bins, Top, m)
    BY <2>6
  <2>9. \A m \in Node : ToCome(bins, Top, m) =>
          m = n \/ Before(bins[v], n, m) \/ \E c \in v + 1 .. Len(bins) : Has(bins[c], m)
    BY <2>7
  <2> QED
    BY ONLY <1>1, <1>4, <1>5, <1>11, <2>2, <2>3, <2>4, <2>5, <2>8, <2>9
<1>13. CASE A = <<>> /\ F # <<>>
  <2> DEFINE n == Head(F)
             b == BinOf(n)
  <2>1. /\ n \in Node /\ b \in v + 1 .. Len(bins) /\ b \in 1 .. Len(bins) /\ Has(bins[b], n)
        /\ \A c \in v + 1 .. Len(bins) : \A m :
             Has(bins[c], m) => c > b \/ (c = b /\ (m = n \/ Before(bins[b], n, m)))
    BY <1>a, <1>13
  <2>2. rest # <<>> /\ n = Head(rest) /\ b = BinOf(n)
    BY <1>10, <1>13
  <2> HIDE DEF n, b, rest
  <2>3. ToCome(bins, Top, n)
    BY <1>8, <1>9, <2>1
  <2>4. ASSUME NEW m \in Node, Before(bins[b], n, m) \/ \E c \in b + 1 .. Len(bins) : Has(bins[c], m)
        PROVE  ToCome(bins, Top, m)
    <3>1. Before(bins[b], n, m) => Has(bins[b], m)
      BY <1>3, <2>1, FiledFacts, HasType
    <3>2. \A c \in b + 1 .. Len(bins) : c \in v + 1 .. Len(bins)
      BY <1>3, <1>6, <2>1
    <3> QED
      BY <1>8, <1>9, <2>1, <2>4, <3>1, <3>2
  <2>5. ASSUME NEW m \in Node, ToCome(bins, Top, m)
        PROVE  m = n \/ Before(bins[b], n, m) \/ \E c \in b + 1 .. Len(bins) : Has(bins[c], m)
    <3>1. ~Has(A, m)
      BY <1>7, <1>13, EmptyFacts
    <3>2. PICK c \in v + 1 .. Len(bins) : Has(bins[c], m)
      BY <1>8, <1>9, <2>5, <3>1
    <3>3. c > b => c \in b + 1 .. Len(bins)
      BY <1>3, <1>6, <2>1
    <3> QED
      BY <2>1, <3>2, <3>3
  <2>6. \A m \in Node : Before(bins[b], n, m) \/ (\E c \in b + 1 .. Len(bins) : Has(bins[c], m))
          => ToCome(bins, Top, m)
    BY <2>4
  <2>7. \A m \in Node : ToCome(bins, Top, m) =>
          m = n \/ Before(bins[b], n, m) \/ \E c \in b + 1 .. Len(bins) : Has(bins[c], m)
    BY <2>5
  <2> QED
    BY ONLY <1>1, <1>4, <1>11, <2>1, <2>2, <2>3, <2>6, <2>7
<1>14. CASE A = <<>> /\ F = <<>>
  <2>1. IF Top.threw THEN Return(Failed) ELSE Return(Nil)
    BY <1>2, <1>10, <1>14 DEF Visit, First
  <2>2. \A n : ~ToCome(bins, Top, n)
    BY <1>7, <1>8, <1>9, <1>14, EmptyFacts
  <2>3. ~Top.threw => \A n \in Used(node) : Has(Top.seen, n)
    BY <1>4, <2>2 DEF Walks
  <2>4. CASE Top.threw
    BY <1>1, <1>4, <2>1, <2>4 DEF WalksOn
  <2>5. CASE ~Top.threw
    BY <1>1, <1>4, <2>1, <2>3, <2>5 DEF WalksOn
  <2> QED
    BY <2>4, <2>5
<1> QED
  BY <1>1, <1>4, <1>12, <1>13, <1>14
LEMMA WalkThrowsFacts ==
  ASSUME IndInv, WalkThrows
  PROVE  Busy /\ Top.op = "walk" /\ UNCHANGED table /\ WalksOn
<1> DEFINE v == Top.value
           F == From(v + 1)
<1>1. Busy /\ Top.pc = "call" /\ UNCHANGED table
  BY DEF WalkThrows
<1>2. Visit(Top, First(F), IF F = <<>> THEN 0 ELSE BinOf(First(F)), TRUE)
  BY DEF WalkThrows
<1>3. Top \in Frames /\ Fits(test, bins, node, object, stack, Len(stack), Top) /\ Filed(test, bins, node) /\ Len(bins) \in Nat
  BY <1>1, BusyFacts, FiledFacts DEF IndInv
<1>4. Top.op = "walk" /\ Walks(bins, node, Top)
  BY <1>1, <1>3 DEF Fits, Looks
<1>5. v \in Nat /\ v \in 1 .. Len(bins) /\ v + 1 \in 1 .. Len(bins) + 1
  BY <1>3, <1>4 DEF Walks
<1>6. \A m : (\E c \in v + 1 .. Len(bins) : Has(bins[c], m)) => ToCome(bins, Top, m)
  BY DEF ToCome
<1> HIDE DEF v
<1>7. CASE F = <<>>
  BY <1>1, <1>2, <1>4, <1>7 DEF Visit, First, WalksOn
<1>8. CASE F # <<>>
  <2> DEFINE n == Head(F)
             b == BinOf(n)
             g == [Top EXCEPT !.ptr = n, !.seen = Append(@, n), !.value = b, !.threw = TRUE]
  <2>1. n \in Node /\ b \in v + 1 .. Len(bins) /\ b \in 1 .. Len(bins) /\ Has(bins[b], n)
    BY <1>3, <1>5, <1>8, FromHead
  <2>2. Visit(Top, n, b, TRUE)
    BY <1>2, <1>8 DEF First
  <2> HIDE DEF n, b
  <2>3. ToCome(bins, Top, n)
    BY <1>6, <2>1
  <2>4. ASSUME NEW m \in Node, Before(bins[b], n, m) \/ \E c \in b + 1 .. Len(bins) : Has(bins[c], m)
        PROVE  ToCome(bins, Top, m)
    <3>1. Before(bins[b], n, m) => Has(bins[b], m)
      BY <1>3, <2>1, FiledFacts, HasType
    <3>2. \A c \in b + 1 .. Len(bins) : c \in v + 1 .. Len(bins)
      BY <1>3, <1>5, <2>1
    <3> QED
      BY <1>6, <2>1, <2>4, <3>1, <3>2
  <2>5. \A m \in Node : Before(bins[b], n, m) \/ (\E c \in b + 1 .. Len(bins) : Has(bins[c], m))
          => ToCome(bins, Top, m)
    BY <2>4
  <2>6. g \in Frames /\ Fits(test, bins, node, object, stack, Len(stack), g)
    BY <1>1, <1>4, <2>1, <2>3, <2>5, VisitFits
  <2>7. n # Nil
    BY <2>1, TablesAssumption
  <2>8. Become(g) /\ Quiet
    BY <2>2, <2>7 DEF Visit
  <2> QED
    BY <1>1, <1>4, <2>6, <2>8 DEF WalksOn
<1> QED
  BY <1>7, <1>8

LEMMA WalkHolds == ASSUME IndInv, WalkReturns \/ WalkThrows, UNCHANGED <<test, weak, object>> PROVE IndInv'
<1>1. Busy /\ UNCHANGED table /\ WalksOn
  BY WalkReturnsFacts, WalkThrowsFacts
<1>2. CASE Return(Failed) \/ Return(Nil)
  <2>1. stack' = Front(stack)
    BY <1>2 DEF Return
  <2> QED
    BY <1>1, <2>1, ReturnHolds
<1>3. CASE \E g \in Frames : Fits(test, bins, node, object, stack, Len(stack), g) /\ Become(g)
  BY <1>1, <1>3, BecomeHolds
<1> QED
  BY <1>1, <1>2, <1>3 DEF WalksOn

----------------------------------------------------------------------------
(* table-set! adds a node *)

\* The buckets hold the nodes in use, each in the bucket of its hash code.
Sorted(bs, nd) ==
  /\ bs \in Seq(Seq(Node)) /\ Len(bs) > 0
  /\ \A b \in 1 .. Len(bs) : Distinct(bs[b])
  /\ \A b \in 1 .. Len(bs) : \A n : Has(bs[b], n) <=> n \in Used(nd) /\ Bin(nd[n].hash, Len(bs)) = b

LEMMA FiledSorted ==
  ASSUME NEW te, NEW bs, NEW nd, Filed(te, bs, nd), Len(bs) > 0
  PROVE  Sorted(bs, nd)
<1>1. bs \in Seq(Seq(Node)) /\ \A b \in 1 .. Len(bs) : Distinct(bs[b])
  BY DEF Filed
<1>2. ASSUME NEW b \in 1 .. Len(bs), NEW n, Has(bs[b], n) PROVE n \in Used(nd) /\ Bin(nd[n].hash, Len(bs)) = b
  BY <1>2, FiledFacts DEF Filed
<1>3. ASSUME NEW b \in 1 .. Len(bs), NEW n \in Used(nd), Bin(nd[n].hash, Len(bs)) = b PROVE Has(bs[b], n)
  BY <1>3 DEF Filed, Home
<1> QED
  BY <1>1, <1>2, <1>3 DEF Sorted

\* ... also when they have been reallocated.
LEMMA GrownSorted ==
  ASSUME Filed(test, bins, node), NEW size \in Nat \ {0}
  PROVE  Sorted(Grown(size), node) /\ Len(Grown(size)) = size
<1> DEFINE all == From(1)
           of(b) == {n \in Node : Bin(node[n].hash, size) = b}
           new == Grown(size)
<1>1. 1 \in 1 .. Len(bins) + 1 /\ Len(bins) \in Nat
  BY FiledFacts
<1>2. /\ all \in Seq(Node) /\ Distinct(all)
      /\ \A n : Has(all, n) <=> \E b \in 1 .. Len(bins) : Has(bins[b], n)
  BY <1>1, FromFacts
<1>3. \A n : Has(all, n) <=> n \in Used(node)
  <2>1. \A n : Has(all, n) => n \in Used(node)
    BY <1>2, FiledFacts
  <2>2. ASSUME NEW n \in Used(node) PROVE Has(all, n)
    <3>1. Len(bins) > 0 /\ Has(Home(bins, node[n].key), n) /\ node[n].key \in Key
      BY FiledFacts DEF Filed
    <3>2. Bin(HashKey(node[n].key), Len(bins)) \in 1 .. Len(bins)
      BY <3>1, FiledFacts
    <3> QED
      BY <1>2, <3>1, <3>2 DEF Home
  <2> QED
    BY <2>1, <2>2
<1>4. new = [b \in 1 .. size |-> Reverse(Keep(all, of(b)))]
  BY DEF Grown
<1> HIDE DEF all, new
<1>5. ASSUME NEW b \in 1 .. size
      PROVE  /\ new[b] \in Seq(Node) /\ Distinct(new[b])
             /\ \A n : Has(new[b], n) <=> n \in Used(node) /\ Bin(node[n].hash, size) = b
  <2> DEFINE S == of(b)
             k == Keep(all, S)
  <2>1. \A n : n \in S <=> n \in Node /\ Bin(node[n].hash, size) = b
    OBVIOUS
  <2>2. new[b] = Reverse(k)
    BY <1>4
  <2> HIDE DEF S
  <2>3. k \in Seq(Node) /\ Distinct(k) /\ \A n : Has(k, n) <=> n \in S /\ Has(all, n)
    BY <1>2, KeepFacts
  <2> HIDE DEF k
  <2>4. /\ Reverse(k) \in Seq(Node) /\ Distinct(Reverse(k))
        /\ \A n : Has(Reverse(k), n) <=> Has(k, n)
    BY <2>3, ReverseFacts
  <2>5. \A n \in Used(node) : n \in Node
    BY DEF Used
  <2> QED
    BY <1>3, <2>1, <2>2, <2>3, <2>4, <2>5
<1>6. new \in Seq(Seq(Node)) /\ Len(new) = size
  <2>1. new = [b \in 1 .. size |-> new[b]] /\ \A b \in 1 .. size : new[b] \in Seq(Node)
    BY <1>4, <1>5
  <2>2. new \in [1 .. size -> Seq(Node)]
    BY <2>1
  <2> QED
    BY <2>2
<1>7. Sorted(new, node)
  BY <1>5, <1>6 DEF Sorted
<1> QED
  BY <1>6, <1>7 DEF new
\* A node n for a new key k is put at the head of its bucket.
Adds(te, bs, nd, n, k, v, bs2, nd2) ==
  /\ nd \in [Node -> Entries \cup {FreeNode}] /\ Sorted(bs, nd)
  /\ \A m \in Used(nd) : nd[m].hash = HashKey(nd[m].key)
  /\ \A m, l \in Used(nd) : Alike(te, nd[m].key, nd[l].key) => m = l
  /\ n \in Node /\ n \notin Used(nd) /\ k \in Key /\ v \in Value
  /\ \A m \in Used(nd) : ~Alike(te, k, nd[m].key)
  /\ nd2 \in [Node -> Entries \cup {FreeNode}] /\ \A m \in Node : m # n => nd2[m] = nd[m]
  /\ nd2[n] = [key |-> k, value |-> v, hash |-> HashKey(k)]
  /\ bs2 \in Seq(Seq(Node)) /\ Len(bs2) = Len(bs)
  /\ bs2[Bin(HashKey(k), Len(bs))] = <<n>> \o bs[Bin(HashKey(k), Len(bs))]
  /\ \A b \in 1 .. Len(bs) : b # Bin(HashKey(k), Len(bs)) => bs2[b] = bs[b]

LEMMA AddsFiled ==
  ASSUME NEW te, NEW bs, NEW nd, NEW n, NEW k, NEW v, NEW bs2, NEW nd2, Adds(te, bs, nd, n, k, v, bs2, nd2)
  PROVE  /\ Filed(te, bs2, nd2)
         /\ Used(nd2) = Used(nd) \cup {n}
         /\ nd2[n].key = k /\ nd2[n].value = v /\ \A m \in Used(nd) : nd2[m] = nd[m]
<1> USE DEF Adds
<1> DEFINE e == [key |-> k, value |-> v, hash |-> HashKey(k)]
           c == Bin(HashKey(k), Len(bs))
<1>1. nd2[n] = e /\ e \in Entries /\ e # FreeNode /\ e.key = k /\ e.value = v /\ e.hash = HashKey(k)
  BY HashType, EntryUsed DEF Entries
<1> HIDE DEF e
<1>2. nd2 \in [Node -> Entries \cup {FreeNode}] /\ nd2[n] = e /\ \A m \in Node : m # n => nd2[m] = nd[m]
  BY <1>1
<1>3. Len(bs) \in Nat \ {0} /\ c \in 1 .. Len(bs) /\ \A b \in 1 .. Len(bs) : bs[b] \in Seq(Node)
  <2>1. Len(bs) \in Nat \ {0} /\ \A b \in 1 .. Len(bs) : bs[b] \in Seq(Node)
    BY DEF Sorted
  <2> QED
    BY <2>1, HashType, BinType
<1>4. Used(nd2) = Used(nd) \cup {n} /\ \A m \in Used(nd) : nd2[m] = nd[m]
  BY <1>1, <1>2 DEF Used
<1> DEFINE t == <<n>> \o bs[c]
<1>5. ~Has(bs[c], n) /\ Distinct(bs[c]) /\ bs[c] \in Seq(Node)
  BY <1>3 DEF Sorted
<1>6. t \in Seq(Node) /\ Distinct(t) /\ \A m : Has(t, m) <=> m = n \/ Has(bs[c], m)
  BY <1>5, ConsFacts
<1>c. c = Bin(HashKey(k), Len(bs))
  OBVIOUS
<1> HIDE DEF t, c
<1>7. bs2[c] = t /\ \A b \in 1 .. Len(bs) : b # c => bs2[b] = bs[b]
  BY <1>c DEF t
<1>8. ASSUME NEW b \in 1 .. Len(bs)
      PROVE  Distinct(bs2[b]) /\ \A m : Has(bs2[b], m) <=> (b = c /\ m = n) \/ Has(bs[b], m)
  BY <1>6, <1>7 DEF Sorted
<1>9. ASSUME NEW b \in 1 .. Len(bs2), NEW m \in Node, Has(bs2[b], m)
      PROVE  m \in Used(nd2) /\ Bin(HashKey(nd2[m].key), Len(bs2)) = b
  <2>1. b \in 1 .. Len(bs)
    BY <1>7
  <2>2. CASE b = c /\ m = n
    BY <1>1, <1>2, <1>4, <1>7, <1>c, <2>2
  <2>3. CASE Has(bs[b], m)
    <3>1. m \in Used(nd) /\ Bin(nd[m].hash, Len(bs)) = b
      BY <2>1, <2>3 DEF Sorted
    <3> QED
      BY <1>4, <1>7, <3>1
  <2> QED
    BY <1>8, <1>9, <2>1, <2>2, <2>3
<1>10. ASSUME NEW m \in Used(nd2)
       PROVE  /\ nd2[m].hash = HashKey(nd2[m].key) /\ Len(bs2) > 0
              /\ Has(Home(bs2, nd2[m].key), m)
  <2>1. CASE m = n
    <3>1. nd2[m].hash = HashKey(nd2[m].key) /\ HashKey(nd2[m].key) = HashKey(k)
      BY <1>1, <1>2, <2>1
    <3>2. Has(bs2[c], n)
      BY <1>3, <1>8
    <3>3. Home(bs2, nd2[m].key) = bs2[c]
      BY <1>7, <1>c, <3>1 DEF Home
    <3> QED
      BY <1>3, <1>7, <2>1, <3>1, <3>2, <3>3
  <2>2. CASE m # n
    <3> DEFINE b == Bin(nd[m].hash, Len(bs))
    <3>1. m \in Used(nd) /\ nd2[m] = nd[m] /\ nd[m].hash = HashKey(nd[m].key) /\ nd[m].key \in Key
      BY <1>4, <2>2, UsedTypes
    <3>2. b \in 1 .. Len(bs)
      BY <1>3, <3>1, HashType, BinType
    <3>3. Has(bs[b], m)
      BY <3>1, <3>2 DEF Sorted
    <3>4. Home(bs2, nd2[m].key) = bs2[b]
      BY <1>7, <3>1 DEF Home
    <3> HIDE DEF b
    <3>5. Has(bs2[b], m)
      BY <1>8, <3>2, <3>3
    <3>6. Len(bs2) > 0
      BY <1>3, <1>7
    <3> QED
      BY <3>1, <3>4, <3>5, <3>6
  <2> QED
    BY <2>1, <2>2
<1>11. ASSUME NEW m \in Used(nd2), NEW l \in Used(nd2), Alike(te, nd2[m].key, nd2[l].key) PROVE m = l
  <2>1. CASE m = n /\ l # n
    BY <1>1, <1>2, <1>4, <1>11, <2>1
  <2>2. CASE m # n /\ l = n
    <3>1. Alike(te, k, nd[m].key) /\ m \in Used(nd)
      BY <1>1, <1>2, <1>4, <1>11, <2>2, AlikeFacts
    <3> QED
      BY <3>1
  <2>3. CASE m # n /\ l # n
    BY <1>4, <1>11, <2>3
  <2> QED
    BY <2>1, <2>2, <2>3
<1>12. \A b \in 1 .. Len(bs2) : Distinct(bs2[b])
  BY <1>7, <1>8
<1>13. Filed(te, bs2, nd2)
  BY <1>2, <1>7, <1>9, <1>10, <1>11, <1>12 DEF Filed
<1> QED
  BY <1>1, <1>2, <1>4, <1>13

\* The node is added, nothing else changes and no other operation is running.
LEMMA RehashFacts ==
  ASSUME IndInv, RehashReturns, UNCHANGED <<test, weak, object>>
  PROVE  /\ Busy /\ Top.op = "set" /\ Top.key \in Key /\ Top.value \in Value /\ ~Present(test, node, Top)
         /\ Return(Nil) /\ Front(stack) = <<>>
         /\ \E n \in Node \ Used(node) :
              /\ Used(node') = Used(node) \cup {n}
              /\ node'[n].key = Top.key /\ node'[n].value = Top.value /\ \A m \in Used(node) : node'[m] = node[m]
         /\ IndInv'
<1>1. Busy /\ Top.pc = "rehash"
  BY DEF RehashReturns
<1>2. /\ Top \in Frames /\ Fits(test, bins, node, object, stack, Len(stack), Top)
      /\ Len(stack) \in Nat \ {0} /\ stack \in Seq(Frames) /\ stack # <<>>
  BY <1>1, BusyFacts
<1>3. Top.op = "set" /\ Top.key \in Key /\ Top.value \in Value /\ ~Present(test, node, Top) /\ object[Top.key] = "live"
  BY <1>1, <1>2 DEF Fits, Walks, Looks
<1>4. Len(stack) = 1
  <2>1. ~(Len(stack) > 1)
    BY <1>2, <1>3 DEF Fits, Nested
  <2> QED
    BY <1>2, <2>1
<1>5. Front(stack) = <<>>
  <2>1. Front(stack) \in Seq(Frames) /\ Len(Front(stack)) = 0
    BY <1>2, <1>4, FrontFacts
  <2> QED
    BY <2>1
<1> DEFINE old == Len(bins)
           size == IF total_nodes + 1 < 2 * old THEN old
                   ELSE IF old = 0 THEN FirstSize ELSE 2 * (old + 1) - 1
           new == IF size = old THEN bins ELSE Grown(size)
           k == Top.key
           e == [key |-> k, value |-> Top.value, hash |-> HashKey(k)]
<1>6. PICK n \in Unused :
        /\ bins' = [new EXCEPT ![Bin(HashKey(k), size)] = <<n>> \o @]
        /\ node' = [node EXCEPT ![n] = e]
        /\ total_nodes' = total_nodes + 1
        /\ guardian' = IF weak THEN guardian \cup {k} ELSE guardian
        /\ Return(Nil)
  BY DEF RehashReturns
<1>7. /\ Filed(test, bins, node) /\ Counted(weak, node, total_nodes, guardian, object)
      /\ node \in [Node -> Entries \cup {FreeNode}] /\ old \in Nat /\ test' = test /\ weak' = weak /\ object' = object
  BY FiledFacts DEF IndInv, Filed
<1>8. n \in Node /\ n \notin Used(node)
  BY DEF Unused, Used
<1>9. total_nodes \in Nat /\ size \in Nat \ {0} /\ (size = old => old > 0)
  <2>1. total_nodes \in Nat
    BY <1>7, FS_CardinalityType DEF Counted
  <2>2. size \in Nat \ {0}
    BY <1>7, <2>1, TablesAssumption
  <2> QED
    BY <2>1, <2>2
<1> HIDE DEF size
<1>10. Sorted(new, node) /\ Len(new) = size
  <2>1. CASE size = old
    BY <1>7, <1>9, <2>1, FiledSorted
  <2>2. CASE size # old
    BY <1>7, <1>9, <2>2, GrownSorted
  <2> QED
    BY <2>1, <2>2
<1> HIDE DEF new
<1>11. bins' = [new EXCEPT ![Bin(HashKey(k), Len(new))] = <<n>> \o @]
  BY <1>6, <1>10
<1>12. \A m \in Used(node) : ~Alike(test, k, node[m].key)
  BY <1>3 DEF Present
<1>13. /\ \A m \in Used(node) : node[m].hash = HashKey(node[m].key)
       /\ \A m, l \in Used(node) : Alike(test, node[m].key, node[l].key) => m = l
  BY <1>7 DEF Filed
<1>14. /\ Filed(test, bins', node')
       /\ Used(node') = Used(node) \cup {n}
       /\ node'[n].key = k /\ node'[n].value = Top.value /\ \A m \in Used(node) : node'[m] = node[m]
  <2> DEFINE v == Top.value
  <2>1. k \in Key /\ v \in Value /\ node' = [node EXCEPT ![n] = [key |-> k, value |-> v, hash |-> HashKey(k)]]
    BY <1>3, <1>6
  <2> HIDE DEF k, v
  <2>2. /\ Filed(test, bins', node')
        /\ Used(node') = Used(node) \cup {n}
        /\ node'[n].key = k /\ node'[n].value = v /\ \A m \in Used(node) : node'[m] = node[m]
    <3>1. node \in [Node -> Entries \cup {FreeNode}] /\ Sorted(new, node)
      BY <1>7, <1>10
    <3>2. node' \in [Node -> Entries \cup {FreeNode}] /\ (\A m \in Node : m # n => node'[m] = node[m])
      BY <2>1, <3>1, HashType DEF Entries
    <3>3. node'[n] = [key |-> k, value |-> v, hash |-> HashKey(k)]
      BY <1>8, <2>1, <3>1
    <3> DEFINE c == Bin(HashKey(k), Len(new))
               t == <<n>> \o new[c]
    <3>4. new \in Seq(Seq(Node)) /\ Len(new) \in Nat \ {0}
      BY <3>1 DEF Sorted
    <3>5. c \in 1 .. Len(new)
      BY <2>1, <3>4, HashType, BinType
    <3>6. bins' = [new EXCEPT ![c] = t]
      BY <1>11
    <3>7. t \in Seq(Node)
      BY <1>8, <3>4, <3>5, ConsFacts
    <3> HIDE DEF c, t
    <3>8. /\ bins' \in Seq(Seq(Node)) /\ Len(bins') = Len(new) /\ bins'[c] = t
          /\ \A b \in 1 .. Len(new) : b # c => bins'[b] = new[b]
      BY <3>4, <3>5, <3>6, <3>7
    <3>9. Adds(test, new, node, n, k, v, bins', node')
      BY <1>8, <1>12, <1>13, <2>1, <3>1, <3>2, <3>3, <3>8 DEF Adds, c, t
    <3> QED
      BY <3>9, AddsFiled
  <2>3. v = Top.value
    BY DEF v
  <2> QED
    BY ONLY <2>2, <2>3
<1>15. Counted(weak, node', total_nodes', guardian', object)
  <2>1. IsFiniteSet(Used(node)) /\ total_nodes = Cardinality(Used(node))
    BY <1>7 DEF Counted
  <2>2. IsFiniteSet(Used(node')) /\ total_nodes' = Cardinality(Used(node'))
    BY <1>6, <1>8, <1>14, <2>1, FS_AddElement
  <2>3. \A m \in Used(node') : object[node'[m].key] # "free"
    BY <1>3, <1>7, <1>14 DEF Counted
  <2>4. guardian' \subseteq Key /\ (~weak => guardian' = {}) /\ (weak => \A m \in Used(node') : node'[m].key \in guardian')
    <3>1. guardian \subseteq Key /\ (~weak => guardian = {}) /\ (weak => \A m \in Used(node) : node[m].key \in guardian)
      BY <1>7 DEF Counted
    <3>2. CASE weak
      <4>1. guardian' = guardian \cup {k}
        BY <1>6, <3>2
      <4> QED
        BY <1>3, <1>14, <3>1, <3>2, <4>1
    <3>3. CASE ~weak
      <4>1. guardian' = guardian
        BY <1>6, <3>3
      <4> QED
        BY <3>1, <3>3, <4>1
    <3> QED
      BY <3>2, <3>3
  <2> QED
    BY <1>7, <2>2, <2>3, <2>4 DEF Counted
<1>16. Stacked(test, bins', node', object, stack')
  <2>1. stack' = <<>>
    BY <1>5, <1>6 DEF Return
  <2> QED
    BY <2>1, TablesAssumption DEF Stacked
<1>17. IndInv'
  BY <1>7, <1>14, <1>15, <1>16 DEF IndInv
<1> QED
  BY <1>1, <1>3, <1>5, <1>6, <1>8, <1>14, <1>17

----------------------------------------------------------------------------
(* The theorems *)

LEMMA NextHolds == ASSUME IndInv, Tame, Next PROVE IndInv'
<1>1. CASE Call /\ UNCHANGED <<test, weak, object>>
  BY <1>1, CallHolds
<1>2. CASE (HashReturns \/ CompareReturns) /\ UNCHANGED <<test, weak, object>>
  BY <1>2, LookupHolds
<1>3. CASE CompareThrows /\ UNCHANGED <<test, weak, object>>
  BY <1>3, ThrowHolds
<1>4. CASE RehashReturns /\ UNCHANGED <<test, weak, object>>
  BY <1>4, RehashFacts
<1>5. CASE TableForEach /\ UNCHANGED <<test, weak, object>>
  BY <1>5, ForEachHolds
<1>6. CASE (WalkReturns \/ WalkThrows) /\ UNCHANGED <<test, weak, object>>
  BY <1>6, WalkHolds
<1>7. CASE Drop /\ UNCHANGED <<test, weak>>
  BY <1>7, DropHolds
<1>8. CASE (Retain \/ Allocate) /\ UNCHANGED <<test, weak>>
  BY <1>8, RevivedHolds
<1>9. CASE GarbageCollect /\ UNCHANGED <<test, weak>>
  BY <1>9, CollectHolds
<1> QED
  BY <1>1, <1>2, <1>3, <1>4, <1>5, <1>6, <1>7, <1>8, <1>9 DEF Next, Operation

LEMMA Inductive == ASSUME Tame PROVE Spec => []IndInv
<1>1. Init => IndInv
  BY InitHolds
<1>2. ASSUME IndInv, Next PROVE IndInv'
  BY <1>2, NextHolds
<1>3. ASSUME IndInv, UNCHANGED vars PROVE IndInv'
  BY <1>3 DEF vars, IndInv
<1> QED
  BY <1>1, <1>2, <1>3, PTL DEF Spec

\* Whatever is stored, deleted, collected and called back, every node stays in
\* the bucket of its key, a key has one node, the count is right, and no node
\* is freed or loses its key while it is in use: for any number of keys and
\* buckets and any hash function, if the functions called from an operation do
\* only what Tame allows.  (tables.c: lookup, table-set!, table-delete!,
\* table_after_gc)
THEOREM TableWellFormed == ASSUME Tame PROVE Spec => []WellFormed
  BY Inductive, IndInvSuffices, PTL
\* How long the stack is after a step.
LEMMA Lengths ==
  ASSUME IndInv
  PROVE  /\ Len(stack) \in Nat
         /\ Busy /\ stack' = Front(stack) => Len(stack') = Len(stack) - 1
         /\ \A f \in Frames : Busy /\ Become(f) => Len(stack') = Len(stack)
         /\ \A f \in Frames : Push(f) => Len(stack') = Len(stack) + 1
<1>1. stack \in Seq(Frames) /\ Len(stack) \in Nat
  BY DEF IndInv, Stacked
<1>2. Busy => Front(stack) \in Seq(Frames) /\ Len(Front(stack)) = Len(stack) - 1 /\ Len(stack) \in Nat \ {0}
  BY <1>1, FrontFacts DEF Busy
<1>3. ASSUME NEW f \in Frames, Busy, Become(f) PROVE Len(stack') = Len(stack)
  <2> DEFINE s == Front(stack)
  <2>1. s \in Seq(Frames) /\ Len(s) = Len(stack) - 1 /\ stack' = Append(s, f)
    BY <1>2, <1>3 DEF Become
  <2> HIDE DEF s
  <2> QED
    BY <1>1, <2>1
<1>4. ASSUME NEW f \in Frames, Push(f) PROVE Len(stack') = Len(stack) + 1
  BY <1>1, <1>4 DEF Push
<1> QED
  BY <1>1, <1>2, <1>3, <1>4

\* A step other than the walk's own does not end a walk.
LEMMA WalkStays ==
  ASSUME IndInv, Tame, Next, NEW i \in 1 .. Len(stack), stack[i].op = "walk", ~(WalkReturns \/ WalkThrows)
  PROVE  Len(stack') >= i
<1>1. i = 1 /\ Len(stack) \in Nat /\ Busy
  BY HeldFacts DEF IndInv, Stacked, Fits, Busy
<1>2. CASE Top.op # "walk" /\ stack' = Front(stack)
  <2>1. Top = stack[Len(stack)] /\ Len(stack') = Len(stack) - 1
    BY <1>1, <1>2, BusyFacts, Lengths
  <2>2. Len(stack) # 1
    BY <1>1, <1>2, <2>1
  <2> QED
    BY <1>1, <2>1, <2>2
<1>3. CASE stack' = stack \/ \E f \in Frames : Become(f) \/ Push(f)
  BY <1>1, <1>3, Lengths
<1>4. CASE Call
  BY <1>3, <1>4, CallFacts
<1>5. CASE HashReturns \/ CompareReturns
  <2>1. /\ Top.op # "walk" /\ Top \in Frames
        /\ \/ ~Present(test, node, Top) /\ Found(Top, Nil)
           \/ Found(Top, Top.ptr)
           \/ Advances
    BY <1>1, <1>5, LookupFacts, BusyFacts
  <2>2. ASSUME NEW n, Found(Top, n)
        PROVE  stack' = Front(stack) \/ Become([Top EXCEPT !.pc = "rehash", !.ptr = Nil])
    BY <2>1, <2>2, FoundFacts DEF Return
  <2>3. [Top EXCEPT !.pc = "rehash", !.ptr = Nil] \in Frames
    BY <2>1 DEF Frames
  <2> QED
    BY <1>2, <1>3, <2>1, <2>2, <2>3 DEF Advances
<1>6. CASE CompareThrows \/ RehashReturns
  <2>1. Top.pc \in {"compare", "rehash"} /\ stack' = Front(stack)
    BY <1>6 DEF CompareThrows, RehashReturns, Return
  <2>2. Top.op # "walk"
    BY <1>1, <2>1, BusyFacts DEF Fits, Walks
  <2> QED
    BY <1>2, <2>1, <2>2
<1>7. ~TableForEach
  BY <1>1 DEF TableForEach
<1>8. CASE Drop \/ Retain \/ GarbageCollect \/ Allocate
  BY <1>3, <1>8 DEF Drop, Retain, GarbageCollect, Allocate
<1> QED
  BY <1>4, <1>5, <1>6, <1>7, <1>8 DEF Next, Operation

\* table-for-each calls its function once for each entry, for any number of
\* entries and buckets, although the function may look up, change and delete
\* entries and collect garbage meanwhile, if it does only what Tame allows.
\* (tables.c:513 table-for-each)
THEOREM WalkIsComplete == ASSUME Tame PROVE Spec => WalkComplete
<1> DEFINE Steps ==
      \A i \in 1 .. Len(stack) :
        stack[i].op = "walk" =>
          /\ IsInjective(stack[i].seen)
          /\ Len(stack') < i /\ ~stack[i].threw /\ reply'.r # Failed => Linked \subseteq ToSet(stack[i].seen)
<1>1. ASSUME IndInv, [Next]_vars PROVE [Steps]_vars
  <2> SUFFICES ASSUME Next, NEW i \in 1 .. Len(stack), stack[i].op = "walk"
               PROVE  /\ IsInjective(stack[i].seen)
                      /\ Len(stack') < i /\ ~stack[i].threw /\ reply'.r # Failed
                           => Linked \subseteq ToSet(stack[i].seen)
    BY <1>1
  <2>1. /\ i = 1 /\ Len(stack) \in Nat /\ Busy /\ stack[i] \in Frames
        /\ Distinct(stack[i].seen) /\ stack[i].seen \in Seq(Node)
    <3>1. Len(stack) \in Nat /\ stack[i] \in Frames /\ Fits(test, bins, node, object, stack, i, stack[i])
      BY <1>1, HeldFacts DEF IndInv, Stacked
    <3>2. i = 1 /\ Distinct(stack[i].seen)
      BY <3>1 DEF Fits, Walks
    <3>3. Busy
      BY <3>1 DEF Busy
    <3> QED
      BY <3>1, <3>2, <3>3 DEF Frames
  <2>2. IsInjective(stack[i].seen)
    BY <2>1 DEF IsInjective, Distinct
  <2>3. ASSUME Len(stack') < i, reply'.r # Failed PROVE Linked \subseteq ToSet(stack[i].seen)
    <3>1. CASE WalkReturns \/ WalkThrows
      <4>1. Top.op = "walk" /\ WalksOn
        BY <1>1, <3>1, WalkReturnsFacts, WalkThrowsFacts
      <4>2. Top = stack[i]
        BY <1>1, <2>1, <4>1, BusyFacts DEF Fits
      <4>3. ~Return(Failed)
        BY <2>3 DEF Return, Answer
      <4>4. ~\E g \in Frames : Become(g)
        BY <1>1, <2>1, <2>3, Lengths
      <4>5. \A n \in Used(node) : Has(stack[i].seen, n)
        BY <4>1, <4>2, <4>3, <4>4 DEF WalksOn
      <4> QED
        BY <1>1, <2>1, <4>5, LinkedUsed, Members DEF IndInv
    <3>2. CASE ~(WalkReturns \/ WalkThrows)
      <4>1. Len(stack') >= 1
        BY <1>1, <2>1, <3>2, WalkStays
      <4>2. FALSE
        <5>1. stack' \in Seq(Frames)
          BY <1>1, NextHolds DEF IndInv, Stacked
        <5>2. Len(stack') \in Nat
          BY <5>1
        <5> QED
          BY <2>1, <2>3, <4>1, <5>2
      <4> QED
        BY <4>2
    <3> QED
      BY <3>1, <3>2
  <2> QED
    BY <2>2, <2>3
<1>2. Spec => []IndInv
  BY Inductive
<1> QED
  BY <1>1, <1>2, PTL DEF Spec, WalkComplete
----------------------------------------------------------------------------
(* A table implements a map *)

\* The map that the nodes stand for.
Valued(te, nd, k) == {n \in Used(nd) : Alike(te, k, nd[n].key)}
MapOf(te, nd) ==
  [k \in Key |-> IF Valued(te, nd, k) = {} THEN Nil ELSE nd[CHOOSE n \in Valued(te, nd, k) : TRUE].value]
TheMap == [k \in Key |-> Entry(k)]

LEMMA MapIs == IndInv => TheMap = MapOf(test, node)
<1> SUFFICES ASSUME IndInv PROVE TheMap = MapOf(test, node)
  OBVIOUS
<1>1. Linked = Used(node)
  BY LinkedUsed DEF IndInv
<1>2. ASSUME NEW k \in Key PROVE {n \in Linked : Same(k, node[n].key)} = Valued(test, node, k)
  BY <1>1, SameAlike DEF Valued
<1>3. ASSUME NEW k \in Key
      PROVE  Entry(k) = IF Valued(test, node, k) = {} THEN Nil ELSE node[CHOOSE n \in Valued(test, node, k) : TRUE].value
  <2> DEFINE S == {n \in Linked : Same(k, node[n].key)}
  <2>1. Entry(k) = IF S = {} THEN Nil ELSE node[CHOOSE n \in S : TRUE].value
    BY DEF Entry
  <2>2. S = Valued(test, node, k)
    BY <1>2
  <2> HIDE DEF S
  <2> QED
    BY <2>1, <2>2
<1> QED
  BY <1>3 DEF TheMap, MapOf

LEMMA MapIsNext == IndInv' => (TheMap = MapOf(test, node))'
  BY MapIs, PTL

LEMMA MapFacts ==
  ASSUME NEW te, NEW bs, NEW nd, Filed(te, bs, nd), NEW k \in Key
  PROVE  /\ \A n \in Used(nd) : Alike(te, k, nd[n].key) => MapOf(te, nd)[k] = nd[n].value
         /\ (\A n \in Used(nd) : ~Alike(te, k, nd[n].key)) => MapOf(te, nd)[k] = Nil
         /\ MapOf(te, nd)[k] \in Value \cup {Nil}
<1> DEFINE S == Valued(te, nd, k)
           c == CHOOSE n \in S : TRUE
<1>1. MapOf(te, nd)[k] = IF S = {} THEN Nil ELSE nd[c].value
  BY DEF MapOf
<1>2. \A n : n \in S <=> n \in Used(nd) /\ Alike(te, k, nd[n].key)
  BY DEF Valued
<1> HIDE DEF S
<1>3. S # {} => c \in S
  OBVIOUS
<1> HIDE DEF c
<1>4. ASSUME NEW n \in Used(nd), Alike(te, k, nd[n].key) PROVE MapOf(te, nd)[k] = nd[n].value
  <2>1. n \in S /\ c \in S
    BY <1>2, <1>3, <1>4
  <2>2. Alike(te, nd[c].key, nd[n].key) /\ c \in Used(nd)
    BY <1>2, <1>4, <2>1, AlikeFacts
  <2>3. c = n
    BY <2>2 DEF Filed
  <2> QED
    BY <1>1, <2>1, <2>3
<1>5. ASSUME \A n \in Used(nd) : ~Alike(te, k, nd[n].key) PROVE MapOf(te, nd)[k] = Nil
  BY <1>1, <1>2, <1>5
<1>6. \A n \in Used(nd) : nd[n].value \in Value
  BY FiledFacts
<1> QED
  BY <1>4, <1>5, <1>6

\* The map of nd2 is that of nd with v for the keys like k.
Puts(te, nd, k, v, nd2) ==
  \A l \in Key : MapOf(te, nd2)[l] = IF Alike(te, l, k) THEN v ELSE MapOf(te, nd)[l]

LEMMA PutsRevised ==
  ASSUME NEW te, NEW bs, NEW nd, NEW nd2, Filed(te, bs, nd), Filed(te, bs, nd2), SameKeys(nd, nd2),
         NEW n \in Used(nd), NEW v, \A m \in Used(nd) : nd2[m].value = IF m = n THEN v ELSE nd[m].value
  PROVE  Puts(te, nd, nd[n].key, v, nd2)
<1> SUFFICES ASSUME NEW l \in Key
             PROVE  MapOf(te, nd2)[l] = IF Alike(te, l, nd[n].key) THEN v ELSE MapOf(te, nd)[l]
  BY DEF Puts
<1>1. Used(nd2) = Used(nd) /\ \A m \in Used(nd) : nd2[m].key = nd[m].key
  BY DEF SameKeys
<1>2. CASE Alike(te, l, nd[n].key)
  BY <1>1, <1>2, MapFacts
<1>3. CASE ~Alike(te, l, nd[n].key)
  <2>1. CASE \E m \in Used(nd) : Alike(te, l, nd[m].key)
    <3>1. PICK m \in Used(nd) : Alike(te, l, nd[m].key)
      BY <2>1
    <3>2. nd2[m].value = nd[m].value
      BY <1>3, <3>1
    <3>3. MapOf(te, nd2)[l] = nd2[m].value /\ MapOf(te, nd)[l] = nd[m].value
      BY <1>1, <3>1, MapFacts
    <3> QED
      BY <1>3, <3>2, <3>3
  <2>2. CASE ~\E m \in Used(nd) : Alike(te, l, nd[m].key)
    <3>1. MapOf(te, nd2)[l] = Nil /\ MapOf(te, nd)[l] = Nil
      BY <1>1, <2>2, MapFacts
    <3> QED
      BY <1>3, <3>1
  <2> QED
    BY <2>1, <2>2
<1> QED
  BY <1>2, <1>3

LEMMA PutsRemoved ==
  ASSUME NEW te, NEW bs, NEW nd, NEW n, NEW bs2, NEW nd2, Filed(te, bs, nd), Removed(bs, nd, {n}, bs2, nd2)
  PROVE  Puts(te, nd, nd[n].key, Nil, nd2)
<1> SUFFICES ASSUME NEW l \in Key
             PROVE  MapOf(te, nd2)[l] = IF Alike(te, l, nd[n].key) THEN Nil ELSE MapOf(te, nd)[l]
  BY DEF Puts
<1>1. Used(nd2) = Used(nd) \ {n} /\ (\A m \in Used(nd2) : nd2[m] = nd[m]) /\ n \in Used(nd)
  <2>1. Used(nd2) = Used(nd) \ {n} /\ (\A m \in Used(nd2) : nd2[m] = nd[m])
    BY RemovedFacts
  <2>2. n \in Used(nd)
    BY DEF Removed
  <2> QED
    BY <2>1, <2>2
<1>2. Filed(te, bs2, nd2)
  BY RemovedFiled
<1>3. CASE Alike(te, l, nd[n].key)
  <2>1. ASSUME NEW m \in Used(nd2), Alike(te, l, nd2[m].key) PROVE FALSE
    <3>1. m \in Used(nd) /\ m # n /\ Alike(te, nd[m].key, nd[n].key)
      BY <1>1, <1>3, <2>1, AlikeFacts
    <3> QED
      BY <1>1, <3>1 DEF Filed
  <2> QED
    BY <1>2, <1>3, <2>1, MapFacts
<1>4. CASE ~Alike(te, l, nd[n].key)
  <2>1. CASE \E m \in Used(nd) : Alike(te, l, nd[m].key)
    <3>1. PICK m \in Used(nd) : Alike(te, l, nd[m].key)
      BY <2>1
    <3>2. m \in Used(nd2) /\ nd2[m] = nd[m]
      BY <1>1, <1>4, <3>1
    <3>3. MapOf(te, nd2)[l] = nd2[m].value /\ MapOf(te, nd)[l] = nd[m].value
      BY <1>2, <3>1, <3>2, MapFacts
    <3> QED
      BY <1>4, <3>2, <3>3
  <2>2. CASE ~\E m \in Used(nd) : Alike(te, l, nd[m].key)
    <3>1. MapOf(te, nd2)[l] = Nil /\ MapOf(te, nd)[l] = Nil
      BY <1>1, <1>2, <2>2, MapFacts
    <3> QED
      BY <1>4, <3>1
  <2> QED
    BY <2>1, <2>2
<1> QED
  BY <1>3, <1>4

LEMMA PutsAdded ==
  ASSUME NEW te, NEW bs, NEW nd, NEW bs2, NEW nd2, Filed(te, bs, nd), Filed(te, bs2, nd2), NEW k, NEW n,
         Used(nd2) = Used(nd) \cup {n}, nd2[n].key = k, \A m \in Used(nd) : nd2[m] = nd[m]
  PROVE  Puts(te, nd, k, nd2[n].value, nd2)
<1> SUFFICES ASSUME NEW l \in Key
             PROVE  MapOf(te, nd2)[l] = IF Alike(te, l, k) THEN nd2[n].value ELSE MapOf(te, nd)[l]
  BY DEF Puts
<1>1. CASE Alike(te, l, k)
  BY <1>1, MapFacts
<1>2. CASE ~Alike(te, l, k)
  <2>1. CASE \E m \in Used(nd) : Alike(te, l, nd[m].key)
    <3>1. PICK m \in Used(nd) : Alike(te, l, nd[m].key)
      BY <2>1
    <3>2. MapOf(te, nd2)[l] = nd2[m].value /\ MapOf(te, nd)[l] = nd[m].value
      BY <3>1, MapFacts
    <3> QED
      BY <1>2, <3>1, <3>2
  <2>2. CASE ~\E m \in Used(nd) : Alike(te, l, nd[m].key)
    <3>1. MapOf(te, nd2)[l] = Nil /\ MapOf(te, nd)[l] = Nil
      BY <1>2, <2>2, MapFacts
    <3> QED
      BY <1>2, <3>1
  <2> QED
    BY <2>1, <2>2
<1> QED
  BY <1>1, <1>2

\* A key that has no node.
LEMMA PutsAbsent ==
  ASSUME NEW te, NEW bs, NEW nd, Filed(te, bs, nd), NEW k \in Key, \A n \in Used(nd) : ~Alike(te, k, nd[n].key)
  PROVE  Puts(te, nd, k, Nil, nd)
<1>1. ASSUME NEW l \in Key, Alike(te, l, k) PROVE MapOf(te, nd)[l] = Nil
  <2>1. \A n \in Used(nd) : ~Alike(te, l, nd[n].key)
    BY <1>1, AlikeFacts
  <2> QED
    BY <2>1, MapFacts
<1> QED
  BY <1>1 DEF Puts
\* The comparison tells kinds of keys apart.
Rep(c) == CHOOSE l \in Key : c = ClassOf[l]

LEMMA KindFacts ==
  ASSUME test \in {"eq", "equal"}
  PROVE  /\ KindOf \in [Key -> Key]
         /\ \A k, l \in Key : KindOf[k] = KindOf[l] <=> Alike(test, k, l)
<1>1. CASE test = "eq"
  <2>1. \A k, l : Same(k, l) <=> k = l
    BY <1>1 DEF Same
  <2>2. \A k \in Key : KindOf[k] = k
    BY <2>1 DEF KindOf
  <2>3. KindOf \in [Key -> Key]
    <3>1. KindOf = [k \in Key |-> KindOf[k]]
      BY DEF KindOf
    <3> QED
      BY <2>2, <3>1
  <2>4. \A k, l \in Key : KindOf[k] = KindOf[l] <=> Alike(test, k, l)
    BY <1>1, <2>2 DEF Alike
  <2> QED
    BY <2>3, <2>4
<1>2. CASE test = "equal"
  <2>1. \A k, l : Same(k, l) <=> ClassOf[k] = ClassOf[l]
    BY <1>2 DEF Same
  <2>2. ASSUME NEW k \in Key PROVE KindOf[k] = Rep(ClassOf[k])
    <3>1. KindOf[k] = CHOOSE l \in Key : Same(k, l)
      BY DEF KindOf
    <3>2. (CHOOSE l \in Key : Same(k, l)) = CHOOSE l \in Key : ClassOf[k] = ClassOf[l]
      BY <2>1
    <3> QED
      BY <3>1, <3>2 DEF Rep
  <2>3. ASSUME NEW k \in Key PROVE Rep(ClassOf[k]) \in Key /\ ClassOf[k] = ClassOf[Rep(ClassOf[k])]
    BY DEF Rep
  <2>4. KindOf \in [Key -> Key]
    <3>1. KindOf = [k \in Key |-> KindOf[k]]
      BY DEF KindOf
    <3> QED
      BY <2>2, <2>3, <3>1
  <2>5. \A k, l \in Key : KindOf[k] = KindOf[l] <=> ClassOf[k] = ClassOf[l]
    BY <2>2, <2>3
  <2> QED
    BY <1>2, <2>4, <2>5 DEF Alike
<1> QED
  BY <1>1, <1>2

\* The steps of the map, in terms of TheMap.
Fixed == KindOf' = KindOf /\ weak' = weak

LEMMA AbstractQuiet == ASSUME Fixed, Quiet, TheMap' = TheMap PROVE Abstract!Next
  BY DEF Fixed, Quiet, Answer, TheMap, Abstract!Next, Abstract!Quiet, Abstract!None, Abstract!Answer

LEMMA AbstractRef ==
  ASSUME Fixed, NEW k \in Key, reply' = Answer("ref", k, TheMap[k]), TheMap' = TheMap
  PROVE  Abstract!Next
  BY DEF Fixed, Answer, TheMap, Abstract!Next, Abstract!Ref, Abstract!Answer

LEMMA AbstractPut ==
  ASSUME test \in {"eq", "equal"}, NEW k \in Key, NEW v, DOMAIN TheMap' = Key,
         \A l \in Key : TheMap'[l] = IF Alike(test, l, k) THEN v ELSE TheMap[l]
  PROVE  TheMap' = Abstract!Put(k, v)
<1>1. \A l \in Key : KindOf[l] = KindOf[k] <=> Alike(test, l, k)
  BY KindFacts
<1>2. Abstract!Put(k, v) = [l \in Key |-> IF KindOf[l] = KindOf[k] THEN v ELSE TheMap[l]]
  BY DEF Abstract!Put, TheMap
<1>3. TheMap' = [l \in Key |-> TheMap'[l]]
  BY DEF TheMap
<1> QED
  BY <1>1, <1>2, <1>3

LEMMA AbstractSet ==
  ASSUME Fixed, NEW k \in Key, NEW v \in Value, reply' = Answer("set", k, Nil), TheMap' = Abstract!Put(k, v)
  PROVE  Abstract!Next
<1>1. Abstract!Set
  BY DEF Answer, TheMap, Abstract!Set, Abstract!Answer
<1> QED
  BY <1>1 DEF Fixed, Abstract!Next

LEMMA AbstractDelete ==
  ASSUME Fixed, NEW k \in Key, reply' = Answer("delete", k, Nil), TheMap' = Abstract!Put(k, Nil)
  PROVE  Abstract!Next
<1>1. Abstract!Delete
  BY DEF Answer, TheMap, Abstract!Delete, Abstract!Answer
<1> QED
  BY <1>1 DEF Fixed, Abstract!Next

LEMMA AbstractWalk ==
  ASSUME Fixed, NEW r \in {Nil, Failed}, reply' = Answer("walk", Nil, r), TheMap' = TheMap
  PROVE  Abstract!Next
<1>1. Abstract!Walk
  BY DEF Answer, TheMap, Abstract!Walk, Abstract!Answer
<1> QED
  BY <1>1 DEF Fixed, Abstract!Next

LEMMA AbstractFail ==
  ASSUME Fixed, NEW k \in Key, NEW op \in {"ref", "set", "delete"}, reply' = Answer(op, k, Failed),
         TheMap' = TheMap \/ \E l \in Key, v \in Value \cup {Nil} : op # "ref" /\ TheMap' = Abstract!Put(l, v)
  PROVE  Abstract!Next
<1>1. Abstract!Fail
  BY DEF Answer, TheMap, Abstract!Fail, Abstract!Answer
<1> QED
  BY <1>1 DEF Fixed, Abstract!Next

LEMMA AbstractVanish ==
  ASSUME Fixed, weak, Quiet, \A k \in Key : TheMap'[k] \in {TheMap[k], Nil}
  PROVE  Abstract!Next
<1>1. DOMAIN TheMap' = Key
  BY DEF TheMap
<1>2. Abstract!Vanish
  BY <1>1 DEF Quiet, Answer, TheMap, Abstract!Vanish, Abstract!None, Abstract!Answer
<1> QED
  BY <1>2 DEF Fixed, Abstract!Next
\* What every step of the table that keeps the invariant comes to.
LEMMA Maps ==
  ASSUME IndInv, IndInv', test' = test, weak' = weak
  PROVE  /\ Fixed /\ test \in {"eq", "equal"} /\ Filed(test, bins, node) /\ Filed(test, bins', node')
         /\ TheMap = MapOf(test, node) /\ TheMap' = MapOf(test, node') /\ DOMAIN TheMap' = Key
         /\ node' = node => TheMap' = TheMap
         /\ \A k \in Key : \A v : Puts(test, node, k, v, node') => TheMap' = Abstract!Put(k, v)
<1>1. /\ test \in {"eq", "equal"} /\ Filed(test, bins, node) /\ Filed(test, bins', node')
  BY DEF IndInv
<1>2. TheMap = MapOf(test, node) /\ TheMap' = MapOf(test, node')
  BY MapIs, MapIsNext
<1>3. DOMAIN TheMap' = Key
  BY DEF TheMap
<1>4. Fixed
  BY DEF Fixed, KindOf, Same
<1>5. ASSUME NEW k \in Key, NEW v, Puts(test, node, k, v, node') PROVE TheMap' = Abstract!Put(k, v)
  <2>1. \A l \in Key : TheMap'[l] = IF Alike(test, l, k) THEN v ELSE TheMap[l]
    BY <1>2, <1>5 DEF Puts
  <2> QED
    BY <1>1, <1>3, <2>1, AbstractPut
<1>6. node' = node => TheMap' = TheMap
  BY <1>2
<1> QED
  BY <1>1, <1>2, <1>3, <1>4, <1>5, <1>6

LEMMA CallMaps ==
  ASSUME IndInv, IndInv', Tame, Call, test' = test, weak' = weak PROVE Abstract!Next
<1>1. Fixed /\ TheMap' = TheMap /\ TheMap = MapOf(test, node) /\ Filed(test, bins, node)
  BY CallFacts, Maps DEF table
<1>2. CASE Quiet
  BY <1>1, <1>2, AbstractQuiet
<1>3. ASSUME NEW op \in {"ref", "delete"}, NEW k \in Key, bins = <<>>, reply' = Answer(op, k, Nil)
      PROVE  Abstract!Next
  <2>1. \A n \in Used(node) : ~Alike(test, k, node[n].key)
    BY <1>1, <1>3 DEF Filed
  <2>2. TheMap[k] = Nil
    BY <1>1, <2>1, MapFacts
  <2>3. CASE op = "ref"
    BY <1>1, <1>3, <2>2, <2>3, AbstractRef
  <2>4. CASE op = "delete"
    <3>1. Puts(test, node, k, Nil, node)
      BY <1>1, <2>1, PutsAbsent
    <3>2. node' = node
      BY CallFacts DEF table
    <3>3. TheMap' = Abstract!Put(k, Nil)
      BY <3>1, <3>2, Maps
    <3> QED
      BY <1>1, <1>3, <2>4, <3>3, AbstractDelete
  <2> QED
    BY <2>3, <2>4
<1> QED
  BY <1>2, <1>3, CallFacts

LEMMA LookupMaps ==
  ASSUME IndInv, IndInv', Tame, HashReturns \/ CompareReturns, UNCHANGED <<test, weak, object>> PROVE Abstract!Next
<1>1. /\ Busy /\ Top.op # "walk"
      /\ \/ ~Present(test, node, Top) /\ Found(Top, Nil)
         \/ Top.ptr # Nil /\ Top.pc = "compare" /\ Alike(test, Top.key, node[Top.ptr].key) /\ Found(Top, Top.ptr)
         \/ Advances
  BY LookupFacts
<1>2. /\ Top \in Frames /\ Fits(test, bins, node, object, stack, Len(stack), Top)
      /\ Top.key \in Key /\ (Top.op = "set" => Top.value \in Value)
  BY <1>1, BusyFacts DEF Fits, Looks
<1>3. /\ Fixed /\ Filed(test, bins, node) /\ Filed(test, bins', node') /\ TheMap = MapOf(test, node)
      /\ (node' = node => TheMap' = TheMap)
      /\ \A k \in Key : \A v : Puts(test, node, k, v, node') => TheMap' = Abstract!Put(k, v)
  BY Maps
<1>4. CASE ~Present(test, node, Top) /\ Found(Top, Nil)
  <2>1. \A n \in Used(node) : ~Alike(test, Top.key, node[n].key)
    BY <1>4 DEF Present
  <2>2. TheMap[Top.key] = Nil /\ Puts(test, node, Top.key, Nil, node)
    BY <1>2, <1>3, <2>1, MapFacts, PutsAbsent
  <2>3. \/ Top.op = "ref" /\ Return(Nil) /\ UNCHANGED table
        \/ Top.op = "delete" /\ Return(Nil) /\ UNCHANGED table
        \/ Quiet /\ UNCHANGED table
    BY <1>1, <1>2, <1>4, FoundFacts
  <2>4. TheMap' = TheMap /\ node' = node
    BY <1>3, <2>3 DEF table
  <2>5. CASE Top.op = "ref" /\ Return(Nil)
    <3>1. reply' = Answer("ref", Top.key, TheMap[Top.key])
      BY <2>2, <2>5 DEF Return
    <3> QED
      BY <1>2, <1>3, <2>4, <3>1, AbstractRef
  <2>6. CASE Top.op = "delete" /\ Return(Nil)
    <3>1. reply' = Answer("delete", Top.key, Nil)
      BY <2>6 DEF Return
    <3>2. TheMap' = Abstract!Put(Top.key, Nil)
      BY <1>2, <1>3, <2>2, <2>4
    <3> QED
      BY <1>2, <1>3, <3>1, <3>2, AbstractDelete
  <2> QED
    BY <1>3, <2>3, <2>4, <2>5, <2>6, AbstractQuiet
<1>5. CASE Top.ptr # Nil /\ Top.pc = "compare" /\ Alike(test, Top.key, node[Top.ptr].key) /\ Found(Top, Top.ptr)
  <2> DEFINE n == Top.ptr
  <2>1. n \in Used(node) /\ n # Nil /\ Alike(test, Top.key, node[n].key) /\ node[n].key \in Key
    BY <1>2, <1>3, <1>5, FiledFacts DEF Fits
  <2>2. \/ Top.op = "ref" /\ Return(node[n].value) /\ UNCHANGED table
        \/ Top.op = "delete" /\ Return(Nil) /\ Unlink(n)
        \/ /\ Top.op = "set" /\ node' = [node EXCEPT ![n].value = Top.value]
           /\ Return(Nil) /\ UNCHANGED <<bins, total_nodes, guardian>>
    BY <1>1, <1>2, <1>5, FoundFacts
  <2>a. stack' = Front(stack) /\ n = Top.ptr
    BY <2>2 DEF Return
  <2> HIDE DEF n
  <2>b. ASSUME NEW v, Puts(test, node, node[n].key, v, node') PROVE Puts(test, node, Top.key, v, node')
    <3>1. \A l \in Key : Alike(test, l, node[n].key) <=> Alike(test, l, Top.key)
      BY <2>1, AlikeFacts
    <3> QED
      BY <2>b, <3>1 DEF Puts
  <2>3. CASE Top.op = "ref" /\ Return(node[n].value) /\ UNCHANGED table
    <3>1. TheMap[Top.key] = node[n].value
      BY <1>2, <1>3, <2>1, MapFacts
    <3>2. reply' = Answer("ref", Top.key, TheMap[Top.key])
      BY <2>3, <3>1 DEF Return
    <3>3. TheMap' = TheMap
      BY <1>3, <2>3 DEF table
    <3> QED
      BY <1>2, <1>3, <3>2, <3>3, AbstractRef
  <2>4. CASE Top.op = "delete" /\ Return(Nil) /\ Unlink(n)
    <3>1. \A i \in 1 .. Len(stack) - 1 : stack[i].ptr # Top.ptr
      BY <1>2, <2>1, <2>4, <2>a DEF Fits
    <3>2. Removed(bins, node, {n}, bins', node')
      BY <1>1, <1>5, <2>4, <2>a, <3>1, UnlinkHolds
    <3>3. TheMap' = Abstract!Put(Top.key, Nil)
      BY <1>2, <1>3, <2>b, <3>2, PutsRemoved
    <3>4. reply' = Answer("delete", Top.key, Nil)
      BY <2>4 DEF Return
    <3> QED
      BY <1>2, <1>3, <3>3, <3>4, AbstractDelete
  <2>5. CASE /\ Top.op = "set" /\ node' = [node EXCEPT ![n].value = Top.value]
             /\ Return(Nil) /\ UNCHANGED <<bins, total_nodes, guardian>>
    <3>1. /\ SameKeys(node, node') /\ bins' = bins
          /\ \A m \in Used(node) : node'[m].value = IF m = n THEN Top.value ELSE node[m].value
      BY <1>1, <1>2, <2>1, <2>5, <2>a, ReviseHolds
    <3>2. Filed(test, bins, node')
      BY <1>3, <3>1
    <3>3. Puts(test, node, node[n].key, Top.value, node')
      BY <1>3, <2>1, <3>1, <3>2, PutsRevised
    <3>4. TheMap' = Abstract!Put(Top.key, Top.value)
      BY <1>2, <1>3, <2>b, <3>3
    <3>5. reply' = Answer("set", Top.key, Nil)
      BY <2>5 DEF Return
    <3> QED
      BY <1>2, <1>3, <2>5, <3>4, <3>5, AbstractSet
  <2> QED
    BY <2>2, <2>3, <2>4, <2>5
<1>6. CASE Advances
  <2>1. Quiet /\ UNCHANGED table
    BY <1>6 DEF Advances
  <2>2. TheMap' = TheMap
    BY <1>3, <2>1 DEF table
  <2> QED
    BY <1>3, <2>1, <2>2, AbstractQuiet
<1> QED
  BY <1>1, <1>4, <1>5, <1>6

LEMMA ThrowMaps ==
  ASSUME IndInv, IndInv', Tame, CompareThrows, UNCHANGED <<test, weak, object>> PROVE Abstract!Next
<1>1. Busy /\ Top.pc = "compare"
  BY DEF CompareThrows
<1>2. Top \in Frames /\ Fits(test, bins, node, object, stack, Len(stack), Top)
  BY <1>1, BusyFacts
<1>3. /\ Top.op # "walk" /\ Top.key \in Key /\ Top.ptr # Nil /\ Top.ptr \in Used(node)
      /\ Top.op \in {"ref", "set", "delete"} /\ (Top.op = "set" => Top.value \in Value)
  BY <1>1, <1>2 DEF Fits, Walks, Looks, Frames
<1>4. /\ Fixed /\ Filed(test, bins, node) /\ Filed(test, bins', node')
      /\ (node' = node => TheMap' = TheMap)
      /\ \A k \in Key : \A v : Puts(test, node, k, v, node') => TheMap' = Abstract!Put(k, v)
  BY Maps
<1>5. Top.op = "delete" => \A i \in 1 .. Len(stack) - 1 : stack[i].ptr # Top.ptr
  BY DEF CompareThrows, Tame
<1>6. \/ Top.op = "ref" /\ Return(Failed) /\ UNCHANGED table
      \/ Top.op = "delete" /\ Return(Failed) /\ Unlink(Top.ptr)
      \/ /\ Top.op = "set" /\ node' = [node EXCEPT ![Top.ptr].value = Top.value]
         /\ Return(Failed) /\ UNCHANGED <<bins, total_nodes, guardian>>
  BY <1>3 DEF CompareThrows
<1>7. stack' = Front(stack) /\ reply' = Answer(Top.op, Top.key, Failed)
  BY <1>6 DEF Return
<1> DEFINE k == node[Top.ptr].key
<1>8. k \in Key
  BY <1>3, <1>4, FiledFacts
<1>9. CASE UNCHANGED table
  <2>1. TheMap' = TheMap
    BY <1>4, <1>9 DEF table
  <2> QED
    BY <1>3, <1>4, <1>7, <2>1, AbstractFail
<1>10. CASE Top.op = "delete" /\ Unlink(Top.ptr)
  <2>1. Removed(bins, node, {Top.ptr}, bins', node')
    BY <1>1, <1>3, <1>5, <1>7, <1>10, UnlinkHolds
  <2>2. TheMap' = Abstract!Put(k, Nil)
    BY <1>4, <1>8, <2>1, PutsRemoved
  <2> HIDE DEF k
  <2> QED
    BY <1>3, <1>4, <1>7, <1>8, <1>10, <2>2, AbstractFail
<1>11. CASE /\ Top.op = "set" /\ node' = [node EXCEPT ![Top.ptr].value = Top.value]
            /\ UNCHANGED <<bins, total_nodes, guardian>>
  <2>1. /\ SameKeys(node, node') /\ bins' = bins
        /\ \A m \in Used(node) : node'[m].value = IF m = Top.ptr THEN Top.value ELSE node[m].value
    BY <1>1, <1>3, <1>7, <1>11, ReviseHolds
  <2>2. Filed(test, bins, node')
    BY <1>4, <2>1
  <2>3. Puts(test, node, k, Top.value, node')
    BY <1>3, <1>4, <2>1, <2>2, PutsRevised
  <2>4. TheMap' = Abstract!Put(k, Top.value)
    BY <1>4, <1>8, <2>3
  <2> HIDE DEF k
  <2> QED
    BY <1>3, <1>4, <1>7, <1>8, <1>11, <2>4, AbstractFail
<1> QED
  BY <1>6, <1>9, <1>10, <1>11
LEMMA RehashMaps ==
  ASSUME IndInv, IndInv', RehashReturns, UNCHANGED <<test, weak, object>> PROVE Abstract!Next
<1>1. Busy /\ Top.op = "set" /\ Top.key \in Key /\ Top.value \in Value /\ Return(Nil)
  BY RehashFacts
<1>2. PICK n \in Node \ Used(node) :
        /\ Used(node') = Used(node) \cup {n}
        /\ node'[n].key = Top.key /\ node'[n].value = Top.value /\ \A m \in Used(node) : node'[m] = node[m]
  BY RehashFacts
<1>3. /\ Fixed /\ Filed(test, bins, node) /\ Filed(test, bins', node')
      /\ \A k \in Key : \A v : Puts(test, node, k, v, node') => TheMap' = Abstract!Put(k, v)
  BY Maps
<1>4. Puts(test, node, Top.key, Top.value, node')
  BY <1>2, <1>3, PutsAdded
<1>5. TheMap' = Abstract!Put(Top.key, Top.value) /\ reply' = Answer("set", Top.key, Nil)
  BY <1>1, <1>3, <1>4 DEF Return
<1> QED
  BY <1>1, <1>3, <1>5, AbstractSet

LEMMA WalkMaps ==
  ASSUME IndInv, IndInv', WalkReturns \/ WalkThrows, UNCHANGED <<test, weak, object>> PROVE Abstract!Next
<1>1. Busy /\ Top.op = "walk" /\ UNCHANGED table /\ WalksOn
  BY WalkReturnsFacts, WalkThrowsFacts
<1>2. Fixed /\ TheMap' = TheMap
  BY <1>1, Maps DEF table
<1>3. Top.key = Nil
  BY <1>1, BusyFacts DEF Fits, Walks
<1>4. ASSUME NEW r \in {Nil, Failed}, Return(r) PROVE Abstract!Next
  <2>1. reply' = Answer("walk", Nil, r)
    BY <1>1, <1>3, <1>4 DEF Return
  <2> QED
    BY <1>2, <2>1, AbstractWalk
<1>5. CASE Quiet
  BY <1>2, <1>5, AbstractQuiet
<1> QED
  BY <1>1, <1>4, <1>5 DEF WalksOn

\* table_after_gc() takes entries from a weak table only.
LEMMA CollectMaps ==
  ASSUME IndInv, IndInv', Tame, GarbageCollect, UNCHANGED <<test, weak>> PROVE Abstract!Next
<1>1. /\ Fixed /\ Filed(test, bins, node) /\ Filed(test, bins', node')
      /\ TheMap = MapOf(test, node) /\ TheMap' = MapOf(test, node')
      /\ (node' = node => TheMap' = TheMap)
  BY Maps
<1>2. Quiet /\ node' = [n \in Node |-> IF n \in Cleared THEN FreeNode ELSE node[n]]
  BY DEF GarbageCollect
<1>3. CASE weak
  <2>1. \A n \in Used(node') : n \in Used(node) /\ node'[n] = node[n]
    BY <1>2 DEF Used
  <2>2. ASSUME NEW k \in Key PROVE TheMap'[k] \in {TheMap[k], Nil}
    <3>1. CASE \E n \in Used(node') : Alike(test, k, node'[n].key)
      <4>1. PICK n \in Used(node') : Alike(test, k, node'[n].key)
        BY <3>1
      <4>2. n \in Used(node) /\ node'[n] = node[n]
        BY <2>1
      <4>3. TheMap'[k] = node'[n].value
        BY <1>1, <4>1, MapFacts
      <4>4. TheMap[k] = node[n].value
        BY <1>1, <4>1, <4>2, MapFacts
      <4> QED
        BY <4>2, <4>3, <4>4
    <3>2. CASE ~\E n \in Used(node') : Alike(test, k, node'[n].key)
      <4>1. TheMap'[k] = Nil
        BY <1>1, <3>2, MapFacts
      <4> QED
        BY <4>1
    <3> QED
      BY <3>1, <3>2
  <2> QED
    BY <1>1, <1>2, <1>3, <2>2, AbstractVanish
<1>4. CASE ~weak
  <2>1. Cleared = {}
    BY <1>4 DEF IndInv, Counted, Popped, Cleared
  <2>2. node \in [Node -> Entries \cup {FreeNode}]
    BY <1>1 DEF Filed
  <2>3. node' = node
    BY <1>2, <2>1, <2>2
  <2> QED
    BY <1>1, <1>2, <2>3, AbstractQuiet
<1> QED
  BY <1>3, <1>4 DEF IndInv

LEMMA NextMaps == ASSUME IndInv, IndInv', Tame, Next PROVE Abstract!Next
<1>1. CASE Call /\ UNCHANGED <<test, weak, object>>
  BY <1>1, CallMaps
<1>2. CASE (HashReturns \/ CompareReturns) /\ UNCHANGED <<test, weak, object>>
  BY <1>2, LookupMaps
<1>3. CASE CompareThrows /\ UNCHANGED <<test, weak, object>>
  BY <1>3, ThrowMaps
<1>4. CASE RehashReturns /\ UNCHANGED <<test, weak, object>>
  BY <1>4, RehashMaps
<1>5. CASE (WalkReturns \/ WalkThrows) /\ UNCHANGED <<test, weak, object>>
  BY <1>5, WalkMaps
<1>6. CASE (TableForEach \/ Drop \/ Retain \/ Allocate) /\ UNCHANGED <<test, weak>>
  <2>1. Quiet /\ UNCHANGED table
    BY <1>6 DEF TableForEach, Drop, Retain, Allocate
  <2>2. Fixed /\ TheMap' = TheMap
    BY <1>6, <2>1, Maps DEF table
  <2> QED
    BY <2>1, <2>2, AbstractQuiet
<1>7. CASE GarbageCollect /\ UNCHANGED <<test, weak>>
  BY <1>7, CollectMaps
<1> QED
  BY <1>1, <1>2, <1>3, <1>4, <1>5, <1>6, <1>7 DEF Next, Operation

LEMMA InitMaps == ASSUME Init PROVE Abstract!Init
<1>1. IndInv
  BY InitHolds
<1>2. test \in {"eq", "equal"} /\ weak \in BOOLEAN /\ Filed(test, bins, node) /\ TheMap = MapOf(test, node)
  BY <1>1, MapIs DEF IndInv
<1>3. Used(node) = {}
  BY DEF Init, Used
<1>4. \A k \in Key : TheMap[k] = Nil
  BY <1>2, <1>3, MapFacts
<1>5. TheMap = [k \in Key |-> Nil]
  <2>1. TheMap = [k \in Key |-> TheMap[k]]
    BY DEF TheMap
  <2> QED
    BY <1>4, <2>1
<1>6. KindOf \in [Key -> Key]
  BY <1>2, KindFacts
<1> QED
  BY <1>2, <1>5, <1>6 DEF Init, Answer, TheMap, Abstract!Init, Abstract!None, Abstract!Answer

\* A collection takes only entries whose key has been dropped, or is equal? to
\* one that has been.
LEMMA CollectKeeps ==
  ASSUME IndInv, NEW n \in Linked \cap Cleared
  PROVE  \/ object[node[n].key] = "dropped"
         \/ test = "equal" /\ \E k \in Popped : k # node[n].key
<1>1. PICK k \in Popped : Same(k, node[n].key)
  BY DEF Cleared
<1>2. object[k] = "dropped"
  BY DEF Popped, Unreachable
<1>3. test \in {"eq", "equal"}
  BY DEF IndInv
<1> QED
  BY <1>1, <1>2, <1>3 DEF Same

\* However the operations of a table are nested in the functions they call,
\* each takes effect as one step of a map, on the entry of its own key, and
\* returns what the map has; reallocating the buckets is not seen, and the
\* collector takes away only what a weak table may lose.  (tables.c: lookup,
\* table-ref, table-set!, table-delete!, table_after_gc)
THEOREM TableIsMap == ASSUME Tame PROVE Spec => ImplementsMap
<1> DEFINE Kept ==
      \A n \in Linked \cap Cleared :
        GarbageCollect =>
          \/ object[node[n].key] = "dropped"
          \/ test = "equal" /\ \E k \in Popped : k # node[n].key
<1>1. Init => Abstract!Init
  BY InitMaps
<1>2. ASSUME IndInv, IndInv', [Next]_vars PROVE [Abstract!Next]_<<KindOf, weak, TheMap, reply>>
  <2>1. CASE Next
    BY <1>2, <2>1, NextMaps
  <2>2. CASE UNCHANGED vars
    <3>1. test' = test /\ weak' = weak /\ node' = node /\ reply' = reply
      BY <2>2 DEF vars
    <3>2. KindOf' = KindOf /\ TheMap' = TheMap
      BY <1>2, <3>1, Maps DEF Fixed
    <3> QED
      BY <3>1, <3>2
  <2> QED
    BY <1>2, <2>1, <2>2
<1>3. ASSUME IndInv, [Next]_vars PROVE [Kept]_vars
  BY <1>3, CollectKeeps
<1>4. Spec => []IndInv
  BY Inductive
<1>5. Spec => Abstract!Spec
  BY <1>1, <1>2, <1>4, PTL DEF Spec, Abstract!Spec, TheMap
<1>6. Spec => WeakKept
  BY <1>3, <1>4, PTL DEF Spec, WeakKept
<1> QED
  BY <1>5, <1>6 DEF ImplementsMap

=============================================================================
