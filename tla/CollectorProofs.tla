-------------------------- MODULE CollectorProofs --------------------------
(***************************************************************************)
(* Proofs about Collector, for a heap of any size, any roots and any       *)
(* program, as long as guardians are not stored in other objects.          *)
(***************************************************************************)
EXTENDS CollectorProps, FiniteSetTheorems, WellFoundedInduction, TLAPS

----------------------------------------------------------------------------
(* Reach as the least closed set *)

\* A set that holds 0, and n + 1 whenever it holds n, up to a bound, holds all
\* numbers up to the bound.
LEMMA Climb ==
  ASSUME NEW b \in Nat, NEW S, 0 \in S, \A n \in 0 .. b : n \in S /\ n < b => n + 1 \in S
  PROVE  0 .. b \subseteq S
<1> SUFFICES ASSUME 0 .. b \ S # {} PROVE FALSE
  OBVIOUS
<1> DEFINE T == 0 .. b \ S
<1>1. T \subseteq Nat /\ T # {}
  OBVIOUS
<1>2. PICK x \in T : \A y \in T : ~(<<y, x>> \in OpToRel(<, Nat))
  BY <1>1, NatLessThanWellFounded, WFMin
<1>3. ASSUME NEW y \in T PROVE ~(y < x)
  <2>1. y \in Nat /\ x \in Nat /\ ~(<<y, x>> \in OpToRel(<, Nat))
    BY <1>1, <1>2
  <2> QED
    BY <2>1 DEF OpToRel
<1>4. x \in 0 .. b /\ x \notin S /\ x # 0
  BY <1>2
<1>5. x - 1 \in 0 .. b /\ x - 1 < b /\ x - 1 < x /\ x - 1 + 1 = x
  BY <1>4
<1>6. x - 1 \notin T
  BY <1>3, <1>5
<1> QED
  BY <1>4, <1>5, <1>6

Size == Cardinality(Obj)

LEMMA SizeType == Size \in Nat
  BY CollectorAssumption, FS_CardinalityType DEF Size

\* The cells reached from S in n steps.
Steps(W, S, succ, n) ==
  W = [k \in 0 .. n |-> IF k = 0 THEN S ELSE W[k - 1] \cup UNION {succ[o] : o \in W[k - 1]}]

\* The definition of Reach by recursion has a solution.
LEMMA StepsExist ==
  ASSUME NEW S \in SUBSET Obj, NEW succ \in [Obj -> SUBSET Obj]
  PROVE  \E W \in [0 .. Size -> SUBSET Obj] : Steps(W, S, succ, Size)
<1> DEFINE N == {n \in Nat : \E W \in [0 .. n -> SUBSET Obj] : Steps(W, S, succ, n)}
<1>1. 0 \in N
  <2> DEFINE W == [k \in 0 .. 0 |-> S]
  <2>1. W \in [0 .. 0 -> SUBSET Obj]
    OBVIOUS
  <2>2. Steps(W, S, succ, 0)
    BY DEF Steps
  <2> QED
    BY <2>1, <2>2
<1>2. ASSUME NEW n \in 0 .. Size, n \in N PROVE n + 1 \in N
  <2>1. n \in Nat
    BY SizeType
  <2>2. PICK W \in [0 .. n -> SUBSET Obj] : Steps(W, S, succ, n)
    BY <1>2
  <2> DEFINE last == W[n] \cup UNION {succ[o] : o \in W[n]}
             V == [k \in 0 .. n + 1 |-> IF k = n + 1 THEN last ELSE W[k]]
  <2>3. last \in SUBSET Obj
    <3>1. W[n] \in SUBSET Obj
      BY <2>1
    <3>2. \A o \in W[n] : succ[o] \in SUBSET Obj
      BY <3>1
    <3> QED
      BY <3>1, <3>2
  <2>4. ASSUME NEW k \in 0 .. n + 1
        PROVE  V[k] = IF k = 0 THEN S ELSE V[k - 1] \cup UNION {succ[o] : o \in V[k - 1]}
    <3>1. CASE k = n + 1
      <4>1. k # 0 /\ V[k] = last /\ k - 1 = n
        BY <2>1, <3>1
      <4>2. V[k - 1] = W[n]
        <5>1. n \in 0 .. n + 1 /\ n # n + 1
          BY <2>1
        <5> HIDE DEF last
        <5> QED
          BY <4>1, <5>1
      <4> HIDE DEF V
      <4> QED
        BY <4>1, <4>2
    <3>2. CASE k \in 0 .. n
      <4>1. V[k] = W[k] /\ (k # 0 => V[k - 1] = W[k - 1])
        <5> HIDE DEF last
        <5> QED
          BY <2>1, <3>2
      <4>2. W[k] = IF k = 0 THEN S ELSE W[k - 1] \cup UNION {succ[o] : o \in W[k - 1]}
        BY <2>2, <3>2 DEF Steps
      <4> HIDE DEF V
      <4> QED
        BY <4>1, <4>2
    <3> QED
      BY <2>1, <3>1, <3>2
  <2>5. V \in [0 .. n + 1 -> SUBSET Obj]
    <3> HIDE DEF last
    <3> QED
      BY <2>1, <2>3
  <2>6. Steps(V, S, succ, n + 1)
    <3> HIDE DEF V
    <3> QED
      BY <2>4, <2>5 DEF Steps
  <2> HIDE DEF V
  <2> QED
    BY <2>1, <2>5, <2>6
<1> HIDE DEF N
<1>3. Size \in N
  BY <1>1, <1>2, Climb, SizeType
<1> QED
  BY <1>3 DEF N

\* The steps stay in every closed set that holds the first cells.
LEMMA StepsLeast ==
  ASSUME NEW S, NEW W, NEW Y, S \subseteq Y,
         DOMAIN W = 0 .. Size,
         W[0] = S,
         \A k \in 1 .. Size : W[k - 1] \subseteq Y => W[k] \subseteq Y
  PROVE  \A n \in 0 .. Size : W[n] \subseteq Y
<1> DEFINE N == {n \in 0 .. Size : W[n] \subseteq Y}
<1>1. 0 \in N
  BY SizeType
<1>2. ASSUME NEW n \in 0 .. Size, n \in N, n < Size PROVE n + 1 \in N
  <2>1. n + 1 \in 1 .. Size /\ n + 1 - 1 = n
    BY <1>2, SizeType
  <2> QED
    BY <1>2, <2>1
<1> HIDE DEF N
<1>3. \A n \in 0 .. Size : n \in N /\ n < Size => n + 1 \in N
  BY <1>2
<1>4. 0 .. Size \subseteq N
  BY ONLY <1>1, <1>3, Climb, SizeType
<1> QED
  BY <1>4, SizeType DEF N

\* After as many steps as there are cells nothing new is reached.
LEMMA StepsClosed ==
  ASSUME NEW S \in SUBSET Obj, NEW succ \in [Obj -> SUBSET Obj],
         NEW W \in [0 .. Size -> SUBSET Obj], Steps(W, S, succ, Size)
  PROVE  /\ S \subseteq W[Size]
         /\ \A o \in W[Size] : succ[o] \subseteq W[Size]
<1> DEFINE Closed(T) == \A o \in T : succ[o] \subseteq T
           N == {n \in 0 .. Size : /\ S \subseteq W[n]
                                   /\ Closed(W[n]) \/ Cardinality(W[n]) >= n}
<1>1. 0 \in N
  <2>1. W[0] = S
    BY SizeType DEF Steps
  <2>2. Cardinality(W[0]) \in Nat
    BY <2>1, CollectorAssumption, FS_Subset, FS_CardinalityType
  <2> QED
    BY <2>1, <2>2, SizeType
<1>2. ASSUME NEW n \in 0 .. Size, n \in N, n < Size PROVE n + 1 \in N
  <2>1. n \in Nat /\ n + 1 \in 0 .. Size /\ n + 1 # 0 /\ n + 1 - 1 = n
    BY <1>2, SizeType
  <2>2. W[n + 1] = W[n] \cup UNION {succ[o] : o \in W[n]}
    BY <2>1 DEF Steps
  <2>3. S \subseteq W[n + 1]
    BY <1>2, <2>2
  <2>4. CASE Closed(W[n])
    <3>1. W[n + 1] = W[n]
      BY <2>2, <2>4
    <3> QED
      BY <2>1, <2>3, <2>4, <3>1
  <2>5. CASE ~Closed(W[n])
    <3>1. Cardinality(W[n]) >= n
      BY <1>2, <2>5
    <3>2. W[n] \subseteq W[n + 1] /\ W[n] # W[n + 1]
      BY <2>2, <2>5
    <3>3. IsFiniteSet(W[n + 1])
      <4>1. W[n + 1] \subseteq Obj
        BY <2>1
      <4> QED
        BY <4>1, CollectorAssumption, FS_Subset
    <3>4. Cardinality(W[n]) < Cardinality(W[n + 1])
      BY <3>2, <3>3, FS_Subset, FS_CardinalityType
    <3>5. Cardinality(W[n]) \in Nat /\ Cardinality(W[n + 1]) \in Nat
      BY <3>2, <3>3, FS_Subset, FS_CardinalityType
    <3>6. Cardinality(W[n + 1]) >= n + 1
      BY <2>1, <3>1, <3>4, <3>5
    <3> QED
      BY <2>1, <2>3, <3>6
  <2> QED
    BY <2>4, <2>5
<1> HIDE DEF N
<1>3. Size \in N
  <2>1. \A n \in 0 .. Size : n \in N /\ n < Size => n + 1 \in N
    BY <1>2
  <2>2. 0 .. Size \subseteq N
    BY ONLY <1>1, <2>1, Climb, SizeType
  <2> QED
    BY ONLY <2>2, SizeType
<1>4. W[Size] \subseteq Obj
  BY SizeType
<1>5. CASE Cardinality(W[Size]) >= Size
  <2>1. W[Size] = Obj
    <3>1. IsFiniteSet(Obj) /\ Cardinality(Obj) = Size
      BY CollectorAssumption DEF Size
    <3>2. Cardinality(W[Size]) <= Cardinality(Obj) /\ (Cardinality(Obj) = Cardinality(W[Size]) => W[Size] = Obj)
      BY <1>4, <3>1, FS_Subset, FS_CardinalityType
    <3>3. Cardinality(W[Size]) \in Nat
      BY <1>4, <3>1, FS_Subset, FS_CardinalityType
    <3> QED
      BY <1>5, <3>1, <3>2, <3>3, SizeType
  <2> QED
    BY <1>3, <2>1 DEF N
<1> QED
  BY <1>3, <1>5 DEF N

\* Following all fields from S takes the steps of the recursion.
LEMMA FieldsReach ==
  ASSUME NEW S \in SUBSET Obj, NEW succ \in [Obj -> SUBSET Obj], \A o \in Obj : succ[o] = Fields(o)
  PROVE  \E W \in [0 .. Size -> SUBSET Obj] :
           Steps(W, S, succ, Size) /\ Reach(S, Fields) = W[Size]
<1> DEFINE P(W) == W = [n \in 0 .. Size |->
                          IF n = 0 THEN S ELSE W[n - 1] \cup UNION {Fields(o) : o \in W[n - 1]}]
           step == CHOOSE W : P(W)
<1>1. PICK W \in [0 .. Size -> SUBSET Obj] : Steps(W, S, succ, Size)
  BY StepsExist
<1>2. P(W)
  <2>1. ASSUME NEW k \in 0 .. Size
        PROVE  W[k] = IF k = 0 THEN S ELSE W[k - 1] \cup UNION {Fields(o) : o \in W[k - 1]}
    <3>1. CASE k = 0
      BY <1>1, <3>1 DEF Steps
    <3>2. CASE k # 0
      <4>1. W[k] = W[k - 1] \cup UNION {succ[o] : o \in W[k - 1]}
        BY <1>1, <3>2 DEF Steps
      <4>2. W[k - 1] \in SUBSET Obj
        <5>1. k - 1 \in 0 .. Size
          BY <3>2, SizeType
        <5> QED
          BY <5>1
      <4>3. \A o \in W[k - 1] : succ[o] = Fields(o)
        BY <4>2
      <4> QED
        BY <3>2, <4>1, <4>3
    <3> QED
      BY <3>1, <3>2
  <2> QED
    BY <2>1
<1>3. P(step)
  BY <1>2
<1>4. Reach(S, Fields) = step[Size]
  BY DEF Reach, Size
<1> HIDE DEF step
<1>5. DOMAIN step = 0 .. Size /\ step[0] = S
  BY <1>3, SizeType
<1>6. ASSUME NEW k \in 1 .. Size
      PROVE  step[k] = step[k - 1] \cup UNION {Fields(o) : o \in step[k - 1]}
  BY <1>3, SizeType
<1>7. \A k \in 1 .. Size : step[k - 1] \subseteq Obj => step[k] \subseteq Obj
  <2> TAKE k \in 1 .. Size
  <2> HAVE step[k - 1] \subseteq Obj
  <2>1. \A o \in step[k - 1] : Fields(o) = succ[o] /\ succ[o] \subseteq Obj
    OBVIOUS
  <2> QED
    BY <1>6, <2>1
<1>8. \A n \in 0 .. Size : step[n] \subseteq Obj
  BY <1>5, <1>7, StepsLeast
<1>9. step \in [0 .. Size -> SUBSET Obj]
  <2>1. step = [n \in 0 .. Size |-> step[n]]
    BY <1>3
  <2> QED
    BY <1>8, <2>1
<1>10. ASSUME NEW k \in 0 .. Size
       PROVE  step[k] = IF k = 0 THEN S ELSE step[k - 1] \cup UNION {succ[o] : o \in step[k - 1]}
  <2>1. CASE k = 0
    BY <1>5, <2>1
  <2>2. CASE k # 0
    <3>1. k \in 1 .. Size /\ k - 1 \in 0 .. Size
      BY <2>2, SizeType
    <3>2. \A o \in step[k - 1] : Fields(o) = succ[o]
      BY <1>8, <3>1
    <3> QED
      BY <1>6, <2>2, <3>1, <3>2
  <2> QED
    BY <2>1, <2>2
<1>11. Steps(step, S, succ, Size)
  BY <1>9, <1>10 DEF Steps
<1> QED
  BY <1>4, <1>9, <1>11

\* It stays in every closed set that holds S.
LEMMA FieldsLeast ==
  ASSUME car \in [Obj -> Ref], cdr \in [Obj -> Ref],
         NEW S \in SUBSET Obj, NEW Y, S \subseteq Y, \A o \in Y \cap Obj : Fields(o) \subseteq Y
  PROVE  Reach(S, Fields) \subseteq Y
<1>1. \A o \in Obj : Fields(o) \in SUBSET Obj
  BY DEF Fields, Ref
<1>2. PICK succ \in [Obj -> SUBSET Obj] : \A o \in Obj : succ[o] = Fields(o)
  <2> DEFINE succ == [o \in Obj |-> Fields(o)]
  <2>1. succ \in [Obj -> SUBSET Obj] /\ \A o \in Obj : succ[o] = Fields(o)
    BY <1>1
  <2> HIDE DEF succ
  <2> QED
    BY <2>1
<1>3. PICK W \in [0 .. Size -> SUBSET Obj] : Steps(W, S, succ, Size) /\ Reach(S, Fields) = W[Size]
  BY <1>2, FieldsReach
<1>4. DOMAIN W = 0 .. Size /\ W[0] = S
  BY <1>3, SizeType DEF Steps
<1>5. ASSUME NEW k \in 1 .. Size, W[k - 1] \subseteq Y PROVE W[k] \subseteq Y
  <2>1. k - 1 \in 0 .. Size /\ k \in 0 .. Size /\ k # 0
    BY SizeType
  <2>2. W[k] = W[k - 1] \cup UNION {succ[o] : o \in W[k - 1]}
    BY <1>3, <2>1 DEF Steps
  <2>3. W[k - 1] \subseteq Obj
    BY <2>1
  <2>4. \A o \in W[k - 1] : succ[o] \subseteq Y
    BY <1>2, <1>5, <2>3
  <2> QED
    BY <1>5, <2>2, <2>4
<1>6. \A n \in 0 .. Size : W[n] \subseteq Y
  BY <1>4, <1>5, StepsLeast
<1> QED
  BY <1>3, <1>6, SizeType

\* Following the fields of pairs from S takes the steps of the recursion.
LEMMA PairReach ==
  ASSUME NEW S \in SUBSET Obj, NEW succ \in [Obj -> SUBSET Obj], \A o \in Obj : succ[o] = PairFields(o)
  PROVE  \E W \in [0 .. Size -> SUBSET Obj] :
           Steps(W, S, succ, Size) /\ Reach(S, PairFields) = W[Size]
<1> DEFINE P(W) == W = [n \in 0 .. Size |->
                          IF n = 0 THEN S ELSE W[n - 1] \cup UNION {PairFields(o) : o \in W[n - 1]}]
           step == CHOOSE W : P(W)
<1>1. PICK W \in [0 .. Size -> SUBSET Obj] : Steps(W, S, succ, Size)
  BY StepsExist
<1>2. P(W)
  <2>1. ASSUME NEW k \in 0 .. Size
        PROVE  W[k] = IF k = 0 THEN S ELSE W[k - 1] \cup UNION {PairFields(o) : o \in W[k - 1]}
    <3>1. CASE k = 0
      BY <1>1, <3>1 DEF Steps
    <3>2. CASE k # 0
      <4>1. W[k] = W[k - 1] \cup UNION {succ[o] : o \in W[k - 1]}
        BY <1>1, <3>2 DEF Steps
      <4>2. W[k - 1] \in SUBSET Obj
        <5>1. k - 1 \in 0 .. Size
          BY <3>2, SizeType
        <5> QED
          BY <5>1
      <4>3. \A o \in W[k - 1] : succ[o] = PairFields(o)
        BY <4>2
      <4> QED
        BY <3>2, <4>1, <4>3
    <3> QED
      BY <3>1, <3>2
  <2> QED
    BY <2>1
<1>3. P(step)
  BY <1>2
<1>4. Reach(S, PairFields) = step[Size]
  BY DEF Reach, Size
<1> HIDE DEF step
<1>5. DOMAIN step = 0 .. Size /\ step[0] = S
  BY <1>3, SizeType
<1>6. ASSUME NEW k \in 1 .. Size
      PROVE  step[k] = step[k - 1] \cup UNION {PairFields(o) : o \in step[k - 1]}
  BY <1>3, SizeType
<1>7. \A k \in 1 .. Size : step[k - 1] \subseteq Obj => step[k] \subseteq Obj
  <2> TAKE k \in 1 .. Size
  <2> HAVE step[k - 1] \subseteq Obj
  <2>1. \A o \in step[k - 1] : PairFields(o) = succ[o] /\ succ[o] \subseteq Obj
    OBVIOUS
  <2> QED
    BY <1>6, <2>1
<1>8. \A n \in 0 .. Size : step[n] \subseteq Obj
  BY <1>5, <1>7, StepsLeast
<1>9. step \in [0 .. Size -> SUBSET Obj]
  <2>1. step = [n \in 0 .. Size |-> step[n]]
    BY <1>3
  <2> QED
    BY <1>8, <2>1
<1>10. ASSUME NEW k \in 0 .. Size
       PROVE  step[k] = IF k = 0 THEN S ELSE step[k - 1] \cup UNION {succ[o] : o \in step[k - 1]}
  <2>1. CASE k = 0
    BY <1>5, <2>1
  <2>2. CASE k # 0
    <3>1. k \in 1 .. Size /\ k - 1 \in 0 .. Size
      BY <2>2, SizeType
    <3>2. \A o \in step[k - 1] : PairFields(o) = succ[o]
      BY <1>8, <3>1
    <3> QED
      BY <1>6, <2>2, <3>1, <3>2
  <2> QED
    BY <2>1, <2>2
<1>11. Steps(step, S, succ, Size)
  BY <1>9, <1>10 DEF Steps
<1> QED
  BY <1>4, <1>9, <1>11

\* It stays in every closed set that holds S.
LEMMA PairLeast ==
  ASSUME car \in [Obj -> Ref], cdr \in [Obj -> Ref],
         NEW S \in SUBSET Obj, NEW Y, S \subseteq Y, \A o \in Y \cap Obj : PairFields(o) \subseteq Y
  PROVE  Reach(S, PairFields) \subseteq Y
<1>1. \A o \in Obj : PairFields(o) \in SUBSET Obj
  BY DEF PairFields, Fields, Ref
<1>2. PICK succ \in [Obj -> SUBSET Obj] : \A o \in Obj : succ[o] = PairFields(o)
  <2> DEFINE succ == [o \in Obj |-> PairFields(o)]
  <2>1. succ \in [Obj -> SUBSET Obj] /\ \A o \in Obj : succ[o] = PairFields(o)
    BY <1>1
  <2> HIDE DEF succ
  <2> QED
    BY <2>1
<1>3. PICK W \in [0 .. Size -> SUBSET Obj] : Steps(W, S, succ, Size) /\ Reach(S, PairFields) = W[Size]
  BY <1>2, PairReach
<1>4. DOMAIN W = 0 .. Size /\ W[0] = S
  BY <1>3, SizeType DEF Steps
<1>5. ASSUME NEW k \in 1 .. Size, W[k - 1] \subseteq Y PROVE W[k] \subseteq Y
  <2>1. k - 1 \in 0 .. Size /\ k \in 0 .. Size /\ k # 0
    BY SizeType
  <2>2. W[k] = W[k - 1] \cup UNION {succ[o] : o \in W[k - 1]}
    BY <1>3, <2>1 DEF Steps
  <2>3. W[k - 1] \subseteq Obj
    BY <2>1
  <2>4. \A o \in W[k - 1] : succ[o] \subseteq Y
    BY <1>2, <1>5, <2>3
  <2> QED
    BY <1>5, <2>2, <2>4
<1>6. \A n \in 0 .. Size : W[n] \subseteq Y
  BY <1>4, <1>5, StepsLeast
<1> QED
  BY <1>3, <1>6, SizeType

\* Following the fields that are not weak from S takes the steps of the recursion.
LEMMA StrongReach ==
  ASSUME NEW S \in SUBSET Obj, NEW succ \in [Obj -> SUBSET Obj], \A o \in Obj : succ[o] = StrongFields(o)
  PROVE  \E W \in [0 .. Size -> SUBSET Obj] :
           Steps(W, S, succ, Size) /\ Reach(S, StrongFields) = W[Size]
<1> DEFINE P(W) == W = [n \in 0 .. Size |->
                          IF n = 0 THEN S ELSE W[n - 1] \cup UNION {StrongFields(o) : o \in W[n - 1]}]
           step == CHOOSE W : P(W)
<1>1. PICK W \in [0 .. Size -> SUBSET Obj] : Steps(W, S, succ, Size)
  BY StepsExist
<1>2. P(W)
  <2>1. ASSUME NEW k \in 0 .. Size
        PROVE  W[k] = IF k = 0 THEN S ELSE W[k - 1] \cup UNION {StrongFields(o) : o \in W[k - 1]}
    <3>1. CASE k = 0
      BY <1>1, <3>1 DEF Steps
    <3>2. CASE k # 0
      <4>1. W[k] = W[k - 1] \cup UNION {succ[o] : o \in W[k - 1]}
        BY <1>1, <3>2 DEF Steps
      <4>2. W[k - 1] \in SUBSET Obj
        <5>1. k - 1 \in 0 .. Size
          BY <3>2, SizeType
        <5> QED
          BY <5>1
      <4>3. \A o \in W[k - 1] : succ[o] = StrongFields(o)
        BY <4>2
      <4> QED
        BY <3>2, <4>1, <4>3
    <3> QED
      BY <3>1, <3>2
  <2> QED
    BY <2>1
<1>3. P(step)
  BY <1>2
<1>4. Reach(S, StrongFields) = step[Size]
  BY DEF Reach, Size
<1> HIDE DEF step
<1>5. DOMAIN step = 0 .. Size /\ step[0] = S
  BY <1>3, SizeType
<1>6. ASSUME NEW k \in 1 .. Size
      PROVE  step[k] = step[k - 1] \cup UNION {StrongFields(o) : o \in step[k - 1]}
  BY <1>3, SizeType
<1>7. \A k \in 1 .. Size : step[k - 1] \subseteq Obj => step[k] \subseteq Obj
  <2> TAKE k \in 1 .. Size
  <2> HAVE step[k - 1] \subseteq Obj
  <2>1. \A o \in step[k - 1] : StrongFields(o) = succ[o] /\ succ[o] \subseteq Obj
    OBVIOUS
  <2> QED
    BY <1>6, <2>1
<1>8. \A n \in 0 .. Size : step[n] \subseteq Obj
  BY <1>5, <1>7, StepsLeast
<1>9. step \in [0 .. Size -> SUBSET Obj]
  <2>1. step = [n \in 0 .. Size |-> step[n]]
    BY <1>3
  <2> QED
    BY <1>8, <2>1
<1>10. ASSUME NEW k \in 0 .. Size
       PROVE  step[k] = IF k = 0 THEN S ELSE step[k - 1] \cup UNION {succ[o] : o \in step[k - 1]}
  <2>1. CASE k = 0
    BY <1>5, <2>1
  <2>2. CASE k # 0
    <3>1. k \in 1 .. Size /\ k - 1 \in 0 .. Size
      BY <2>2, SizeType
    <3>2. \A o \in step[k - 1] : StrongFields(o) = succ[o]
      BY <1>8, <3>1
    <3> QED
      BY <1>6, <2>2, <3>1, <3>2
  <2> QED
    BY <2>1, <2>2
<1>11. Steps(step, S, succ, Size)
  BY <1>9, <1>10 DEF Steps
<1> QED
  BY <1>4, <1>9, <1>11

\* It stays in every closed set that holds S.
LEMMA StrongLeast ==
  ASSUME car \in [Obj -> Ref], cdr \in [Obj -> Ref],
         NEW S \in SUBSET Obj, NEW Y, S \subseteq Y, \A o \in Y \cap Obj : StrongFields(o) \subseteq Y
  PROVE  Reach(S, StrongFields) \subseteq Y
<1>1. \A o \in Obj : StrongFields(o) \in SUBSET Obj
  BY DEF StrongFields, Fields, Ref
<1>2. PICK succ \in [Obj -> SUBSET Obj] : \A o \in Obj : succ[o] = StrongFields(o)
  <2> DEFINE succ == [o \in Obj |-> StrongFields(o)]
  <2>1. succ \in [Obj -> SUBSET Obj] /\ \A o \in Obj : succ[o] = StrongFields(o)
    BY <1>1
  <2> HIDE DEF succ
  <2> QED
    BY <2>1
<1>3. PICK W \in [0 .. Size -> SUBSET Obj] : Steps(W, S, succ, Size) /\ Reach(S, StrongFields) = W[Size]
  BY <1>2, StrongReach
<1>4. DOMAIN W = 0 .. Size /\ W[0] = S
  BY <1>3, SizeType DEF Steps
<1>5. ASSUME NEW k \in 1 .. Size, W[k - 1] \subseteq Y PROVE W[k] \subseteq Y
  <2>1. k - 1 \in 0 .. Size /\ k \in 0 .. Size /\ k # 0
    BY SizeType
  <2>2. W[k] = W[k - 1] \cup UNION {succ[o] : o \in W[k - 1]}
    BY <1>3, <2>1 DEF Steps
  <2>3. W[k - 1] \subseteq Obj
    BY <2>1
  <2>4. \A o \in W[k - 1] : succ[o] \subseteq Y
    BY <1>2, <1>5, <2>3
  <2> QED
    BY <1>5, <2>2, <2>4
<1>6. \A n \in 0 .. Size : W[n] \subseteq Y
  BY <1>4, <1>5, StepsLeast
<1> QED
  BY <1>3, <1>6, SizeType

\* And it is closed itself.
LEMMA StrongClosed ==
  ASSUME car \in [Obj -> Ref], cdr \in [Obj -> Ref], NEW S \in SUBSET Obj
  PROVE  /\ S \subseteq Reach(S, StrongFields)
         /\ Reach(S, StrongFields) \subseteq Obj
         /\ \A o \in Reach(S, StrongFields) : StrongFields(o) \subseteq Reach(S, StrongFields)
<1>1. \A o \in Obj : StrongFields(o) \in SUBSET Obj
  BY DEF StrongFields, Fields, Ref
<1>2. PICK succ \in [Obj -> SUBSET Obj] : \A o \in Obj : succ[o] = StrongFields(o)
  <2> DEFINE succ == [o \in Obj |-> StrongFields(o)]
  <2>1. succ \in [Obj -> SUBSET Obj] /\ \A o \in Obj : succ[o] = StrongFields(o)
    BY <1>1
  <2> HIDE DEF succ
  <2> QED
    BY <2>1
<1>3. PICK W \in [0 .. Size -> SUBSET Obj] : Steps(W, S, succ, Size) /\ Reach(S, StrongFields) = W[Size]
  BY <1>2, StrongReach
<1>4. W[Size] \subseteq Obj
  BY SizeType
<1>5. S \subseteq W[Size] /\ \A o \in W[Size] : succ[o] \subseteq W[Size]
  BY <1>3, StepsClosed
<1> QED
  BY <1>2, <1>3, <1>4, <1>5

----------------------------------------------------------------------------
(* The inductive invariant *)

(* The hypothesis of the theorems: guardians are not stored in other objects. *)
NoNest == "nest" \notin LispOps

(* The invariant speaks of the cells in use, use, and of the cells that make up *)
(* the lists of guardians: own gives the guardian, shown the cells of accessible  *)
(* lists, and rank falls along each list.                                         *)

\* What a variable may refer to, and what any field may.
Held(use, own) == {o \in use : own[o] = Nil}
Plain(use, own) == {o \in use : own[o] = Nil /\ kind[o] # "guardian"}

\* Subrs are the static cells, and have no fields; a weak reference has one.
StaticRight ==
  \A o \in Obj : /\ o \in Static <=> kind[o] = "subr"
                 /\ o \in Static => car[o] = Nil /\ cdr[o] = Nil
                 /\ kind[o] = "weak" => cdr[o] = Nil

\* The lists that start in a guardian are its own.
GuardiansRight(use, own, shown) ==
  \A g \in Of("guardian") :
    /\ g \in Held(use, own)
    /\ car[g] # Nil => car[g] \in use /\ own[car[g]] = g /\ car[g] \in shown
    /\ cdr[g] # Nil => cdr[g] \in use /\ own[cdr[g]] = g /\ cdr[g] \notin shown

\* The cells of those lists are pairs, and refer to an object and to the next
\* cell of the same list.
ListsRight(use, own, shown, rank) ==
  \A o \in use : own[o] # Nil =>
    /\ kind[o] = "pair"
    /\ own[o] \in Of("guardian")
    /\ car[o] \in Plain(use, own)
    /\ car[o] \in Static => "static" \in LispOps
    /\ cdr[o] # Nil => /\ cdr[o] \in use
                       /\ own[cdr[o]] = own[o]
                       /\ cdr[o] \in shown <=> o \in shown
                       /\ rank[cdr[o]] < rank[o]

\* No two references lead to the same cell of an accessible list.
Linked(use, own, shown) ==
  \A o \in use \cap shown : own[o] # Nil /\ cdr[o] # Nil =>
    /\ cdr[o] # car[own[o]]
    /\ \A p \in use : own[p] # Nil /\ cdr[p] = cdr[o] => p = o

\* All other cells refer to cells that are neither guardians nor part of their lists.
PlainRight(use, own) ==
  \A o \in Plain(use, own) :
    car[o] \in Plain(use, own) \cup {Nil} /\ cdr[o] \in Plain(use, own) \cup {Nil}

\* The collector's tables.
TablesRight(use, own) ==
  /\ roots \subseteq Held(use, own)
  /\ weakRefs \subseteq Held(use, own) \cap Of("weak")
  /\ \A w \in weakRefs : car[w] \in Static => "static" \in LispOps
  /\ \A e \in origins \cup history : e[1] \in Held(use, own) /\ e[2] \in Held(use, own)
  /\ phase \notin {"origins", "sweep"} => use \cap Of("weak") \subseteq weakRefs

Cells(use, own, shown, rank) ==
  /\ Static \subseteq use
  /\ use \subseteq Allocated
  /\ \A o \in Static : own[o] = Nil
  /\ StaticRight
  /\ GuardiansRight(use, own, shown)
  /\ ListsRight(use, own, shown, rank)
  /\ Linked(use, own, shown)
  /\ PlainRight(use, own)

Heap(use, own, shown, rank) == Cells(use, own, shown, rank) /\ TablesRight(use, own)

\* Marked, and not in a list of a guardian that is garbage.
Kept(own) == {o \in marked : own[o] \in marked \cup {Nil}}

\* While guardians are scanned, the only cells of a marked guardian that may be
\* unmarked are the ones behind ptr and the objects in changed.
Scanning(use, own, shown) ==
  /\ todo \subseteq Of("guardian")
  /\ guard # Nil => /\ guard \in Of("guardian") \ todo
                    /\ ptr = guard \/ (ptr \in marked \cap shown /\ own[ptr] = guard)
  /\ changed \subseteq Plain(use, own)
  /\ \A o \in marked \cap Plain(use, own) : kind[o] = "pair" =>
       car[o] \in marked \cup Static \cup {Nil} /\ cdr[o] \in marked \cup Static \cup {Nil}
  /\ \A g \in marked \cap Of("guardian") :
       /\ cdr[g] \in marked \cup {Nil}
       /\ g \in todo \/ (g = guard /\ ptr = guard) \/ car[g] \in marked \cup {Nil}
  /\ \A o \in marked : own[o] \in marked =>
       /\ car[o] \in marked \cup Static \cup changed
       /\ cdr[o] \in marked \cup {Nil} \/ (o = ptr /\ guard # Nil)

\* From then on what is kept refers to marked cells, or to cells still to mark.
Traced(own) ==
  \A o \in Kept(own) : StrongFields(o) \subseteq marked \cup grey \cup Static

Collecting(use, own, shown) ==
  /\ marked \cup grey \subseteq use \ Static
  /\ phase = "idle" => marked = {}
  /\ phase # "idle" => history = {} /\ roots \cup MarkOrigins \subseteq marked \cup grey \cup Static
  /\ phase \notin {"mark", "remark"} => grey = {}
  /\ phase # "scan" => changed = {}
  /\ phase = "mark" =>
       \A o \in marked : MarkedFields(o) \subseteq marked \cup grey \cup Static \cup {Nil}
  /\ phase = "scan" => Scanning(use, own, shown)
  /\ phase \in {"remark", "weak", "origins", "sweep"} => Traced(own)
  /\ phase = "remark" => grey \subseteq Plain(use, own)
  /\ phase \in {"origins", "sweep"} =>
       /\ weakRefs \subseteq marked
       /\ \A w \in marked \cap Of("weak") : w \in weakRefs /\ car[w] \in marked \cup {Nil}
  /\ phase = "sweep" => \A e \in origins : e[1] \in marked

\* Only what the roots, origins and guardians refer to is ever marked.
Sources == roots \cup MarkOrigins \cup Of("guardian")
ClosedSet(Y) == Sources \subseteq Y /\ \A o \in Y : StrongFields(o) \subseteq Y
Rooted(use) ==
  phase \notin {"idle", "sweep"} =>
    \A Y \in SUBSET use : ClosedSet(Y) => marked \cup grey \cup changed \subseteq Y

Shape(use, own, shown, rank) ==
  /\ use \in SUBSET Obj /\ own \in [Obj -> Ref] /\ shown \in SUBSET Obj /\ rank \in [Obj -> Nat]

Sound(use, own, shown, rank) ==
  /\ Heap(use, own, shown, rank)
  /\ Collecting(use, own, shown)
  /\ Rooted(use)

\* Any heap the program can be in, at any point of a collection.
IndInv ==
  TypeOK /\ \E use, own, shown, rank : Shape(use, own, shown, rank) /\ Sound(use, own, shown, rank)

LEMMA InitInv == ASSUME NoNest PROVE Init => IndInv
<1> SUFFICES ASSUME Init PROVE IndInv
  OBVIOUS
<1>1. TypeOK
  BY CollectorAssumption DEF Init, TypeOK, Ref, Kinds, Phases
<1> DEFINE own == [o \in Obj |-> Nil]
           rank == [o \in Obj |-> 0]
<1>2. Shape(Static, own, {}, rank)
  BY CollectorAssumption DEF Shape, Ref
<1>3. Of("guardian") = {} /\ Of("weak") = {} /\ Static \subseteq Allocated
  BY CollectorAssumption DEF Init, Of, Allocated
<1>4. Heap(Static, own, {}, rank)
  BY <1>3, CollectorAssumption
  DEF Init, Heap, Cells, StaticRight, GuardiansRight, ListsRight, Linked, PlainRight, TablesRight, Held, Plain
<1>5. Collecting(Static, own, {}) /\ Rooted(Static)
  BY DEF Init, Collecting, Rooted
<1> QED
  BY <1>1, <1>2, <1>4, <1>5 DEF IndInv, Sound

----------------------------------------------------------------------------
(* The program *)

\* What the program may store is neither a guardian nor a cell of its lists.
LEMMA StorablePlain ==
  ASSUME NoNest, NEW use, NEW own, NEW shown, NEW rank, Heap(use, own, shown, rank)
  PROVE  /\ Storable \subseteq Plain(use, own)
         /\ Guardable \subseteq Plain(use, own)
         /\ \A v \in Guardable : v \in Static => "static" \in LispOps
<1>1. Values \subseteq Held(use, own)
  BY CollectorAssumption DEF Heap, Cells, TablesRight, Values, Held
<1>2. Storable \subseteq Plain(use, own)
  BY <1>1 DEF NoNest, Storable, Held, Plain
<1>3. ASSUME NEW v \in Guardable, v \in Static PROVE "static" \in LispOps
  <2>1. kind[v] = "subr"
    BY <1>3, CollectorAssumption DEF Heap, Cells, StaticRight
  <2> QED
    BY <2>1 DEF Guardable
<1> QED
  BY <1>2, <1>3 DEF Guardable

\* While the program runs nothing is marked.
LEMMA ProgramCollects ==
  ASSUME phase = "idle", UNCHANGED gcVars,
         NEW use, NEW own, NEW shown, Collecting(use, own, shown),
         NEW use2, NEW own2, NEW shown2
  PROVE  Collecting(use2, own2, shown2)' /\ Rooted(use2)'
  BY DEF Collecting, Rooted, gcVars

\* A new cell is a pair, a weak reference or an empty guardian.
LEMMA AllocCells ==
  ASSUME TypeOK, NEW use, NEW own, NEW shown, NEW rank,
         Shape(use, own, shown, rank), Cells(use, own, shown, rank),
         NEW o \in Obj, NEW k \in {"pair", "weak", "guardian"},
         NEW a \in Plain(use, own) \cup {Nil}, NEW d \in Plain(use, own) \cup {Nil},
         Alloc(o, k, a, d), k = "guardian" => a = Nil /\ d = Nil, k = "weak" => d = Nil
  PROVE  o \notin use /\ \E use2, own2 : /\ use2 = use \cup {o}
                                         /\ own2 = [own EXCEPT ![o] = Nil]
                                         /\ Cells(use2, own2, shown, rank)'
<1>1. PICK use2, own2 : use2 = use \cup {o} /\ own2 = [own EXCEPT ![o] = Nil]
  OBVIOUS
<1>2. o \notin use /\ o \notin Static
  BY DEF Cells, Alloc, Allocated
<1>3. /\ \A x \in Obj \ {o} : kind'[x] = kind[x] /\ car'[x] = car[x] /\ cdr'[x] = cdr[x] /\ own2[x] = own[x]
      /\ kind'[o] = k /\ car'[o] = a /\ cdr'[o] = d /\ own2[o] = Nil
  BY <1>1 DEF TypeOK, Shape, Alloc
<1>4. Plain(use, own) \subseteq use /\ use \subseteq Obj /\ use \subseteq Obj \ {o}
  BY <1>2 DEF Shape, Plain
<1>5. \A x : x \in Plain(use2, own2)' <=> x \in Plain(use, own) \/ (x = o /\ k # "guardian")
  BY <1>1, <1>3, <1>4 DEF Plain
<1>6. \A x \in Obj : x \in Of("guardian")' <=> x \in Of("guardian") \/ (x = o /\ k = "guardian")
  BY <1>2, <1>3 DEF Of, Alloc
<1>7. Static \subseteq use2 /\ use2 \subseteq Allocated' /\ \A x \in Static : own2[x] = Nil
  BY <1>1, <1>2, <1>3, <1>4 DEF Cells, Allocated
<1>8. StaticRight'
  BY <1>2, <1>3, CollectorAssumption DEF Cells, StaticRight
<1>9. GuardiansRight(use2, own2, shown)'
  <2> SUFFICES ASSUME NEW g \in Of("guardian")'
               PROVE  /\ g \in Held(use2, own2)'
                      /\ car'[g] # Nil => car'[g] \in use2 /\ own2[car'[g]] = g /\ car'[g] \in shown
                      /\ cdr'[g] # Nil => cdr'[g] \in use2 /\ own2[cdr'[g]] = g /\ cdr'[g] \notin shown
    BY DEF GuardiansRight
  <2>1. g \in Obj
    BY DEF Of
  <2>2. CASE g = o
    BY <1>1, <1>3, <1>6, <2>2, <1>2 DEF Held, Of, Alloc
  <2>3. CASE g # o
    <3>1. g \in Of("guardian")
      BY <1>6, <2>1, <2>3
    <3>2. /\ g \in Held(use, own)
          /\ car[g] # Nil => car[g] \in use /\ own[car[g]] = g /\ car[g] \in shown
          /\ cdr[g] # Nil => cdr[g] \in use /\ own[cdr[g]] = g /\ cdr[g] \notin shown
      BY <3>1 DEF Cells, GuardiansRight
    <3> QED
      BY <1>1, <1>3, <1>4, <2>1, <2>3, <3>2 DEF Held
  <2> QED
    BY <2>2, <2>3
<1>10. ListsRight(use2, own2, shown, rank)'
  <2> SUFFICES ASSUME NEW x \in use2, own2[x] # Nil
               PROVE  /\ kind'[x] = "pair"
                      /\ own2[x] \in Of("guardian")'
                      /\ car'[x] \in Plain(use2, own2)'
                      /\ car'[x] \in Static => "static" \in LispOps
                      /\ cdr'[x] # Nil => /\ cdr'[x] \in use2
                                          /\ own2[cdr'[x]] = own2[x]
                                          /\ cdr'[x] \in shown <=> x \in shown
                                          /\ rank[cdr'[x]] < rank[x]
    BY DEF ListsRight
  <2>1. x # o /\ x \in use
    BY <1>1, <1>3
  <2>2. /\ kind[x] = "pair"
        /\ own[x] \in Of("guardian")
        /\ car[x] \in Plain(use, own)
        /\ car[x] \in Static => "static" \in LispOps
        /\ cdr[x] # Nil => /\ cdr[x] \in use
                           /\ own[cdr[x]] = own[x]
                           /\ cdr[x] \in shown <=> x \in shown
                           /\ rank[cdr[x]] < rank[x]
    BY <1>3, <1>4, <2>1 DEF Cells, ListsRight
  <2>3. own[x] \in Obj
    BY <2>2 DEF Of
  <2> QED
    BY <1>1, <1>3, <1>4, <1>5, <1>6, <2>1, <2>2, <2>3
<1>11. PlainRight(use2, own2)'
  <2> SUFFICES ASSUME NEW x \in Plain(use2, own2)'
               PROVE  car'[x] \in Plain(use2, own2)' \cup {Nil} /\ cdr'[x] \in Plain(use2, own2)' \cup {Nil}
    BY DEF PlainRight
  <2>1. CASE x = o
    BY <1>3, <1>5, <2>1
  <2>2. CASE x # o
    <3>1. x \in Plain(use, own)
      BY <1>5, <2>2
    <3>2. car[x] \in Plain(use, own) \cup {Nil} /\ cdr[x] \in Plain(use, own) \cup {Nil}
      BY <3>1 DEF Cells, PlainRight
    <3> QED
      BY <1>3, <1>4, <1>5, <2>2, <3>1, <3>2
  <2> QED
    BY <2>1, <2>2
<1>12. Linked(use2, own2, shown)'
  <2> SUFFICES ASSUME NEW x \in use2 \cap shown, own2[x] # Nil, cdr'[x] # Nil
               PROVE  /\ cdr'[x] # car'[own2[x]]
                      /\ \A y \in use2 : own2[y] # Nil /\ cdr'[y] = cdr'[x] => y = x
    BY DEF Linked
  <2>1. x # o /\ x \in use /\ own[x] # Nil /\ cdr'[x] = cdr[x] /\ own2[x] = own[x]
    BY <1>1, <1>3, <1>4
  <2>2. own[x] \in Obj /\ own[x] # o /\ own[x] \in use
    BY <1>2, <2>1 DEF Cells, ListsRight, GuardiansRight, Held, Of
  <2>3. car'[own[x]] = car[own[x]]
    BY <1>3, <2>2
  <2>4. \A y \in use2 : own2[y] # Nil => y \in use /\ own[y] # Nil /\ cdr'[y] = cdr[y]
    BY <1>1, <1>3, <1>4
  <2> QED
    BY <2>1, <2>3, <2>4 DEF Cells, Linked
<1> QED
  BY <1>1, <1>2, <1>7, <1>8, <1>9, <1>10, <1>11, <1>12 DEF Cells

\* A step of the program gives back the invariant when it keeps types and heap.
LEMMA ProgramStep ==
  ASSUME phase = "idle", UNCHANGED gcVars, TypeOK',
         NEW use, NEW own, NEW shown, Collecting(use, own, shown),
         NEW use2, NEW own2, NEW shown2, NEW rank2,
         Shape(use2, own2, shown2, rank2), Heap(use2, own2, shown2, rank2)'
  PROVE  IndInv'
<1>1. Collecting(use2, own2, shown2)' /\ Rooted(use2)'
  BY ProgramCollects
<1>2. Sound(use2, own2, shown2, rank2)'
  BY <1>1 DEF Sound
<1> HIDE DEF Shape, Heap
<1> QED
  BY <1>2 DEF IndInv, Shape

\* A new cell is bound to a variable, and a weak reference entered in weak_refs.
LEMMA AllocInv ==
  ASSUME IndInv, phase = "idle",
         NEW use, NEW own, NEW shown, NEW rank,
         Shape(use, own, shown, rank), Sound(use, own, shown, rank),
         NEW o \in Obj, NEW k \in {"pair", "weak", "guardian"},
         NEW a \in Plain(use, own) \cup {Nil}, NEW d \in Plain(use, own) \cup {Nil},
         Alloc(o, k, a, d), k = "guardian" => a = Nil /\ d = Nil,
         k = "weak" => d = Nil /\ (a \in Static => "static" \in LispOps),
         roots' = roots \cup ({o} \ Static),
         weakRefs' = IF k = "weak" THEN weakRefs \cup {o} ELSE weakRefs,
         UNCHANGED <<origins, history, gcVars>>
  PROVE  IndInv'
<1>1. PICK use2, own2 : use2 = use \cup {o} /\ own2 = [own EXCEPT ![o] = Nil] /\ Cells(use2, own2, shown, rank)'
  <2>1. TypeOK /\ Cells(use, own, shown, rank)
    BY DEF IndInv, Sound, Heap
  <2> QED
    BY <2>1, AllocCells
<1>2. own2 \in [Obj -> Ref]
  BY <1>1 DEF Shape, Ref
<1>3. Cells(use2, own2, shown, rank)' /\ o \notin use
  BY <1>1 DEF Sound, Heap, Cells, Allocated, Alloc
<1>4. Shape(use2, own2, shown, rank)
  BY <1>1, <1>2 DEF Shape
<1>5. \A x \in use : x # o /\ kind'[x] = kind[x] /\ car'[x] = car[x] /\ own2[x] = own[x]
  BY <1>1, <1>3 DEF Shape, Alloc, IndInv, TypeOK
<1>6. kind'[o] = k /\ car'[o] = a /\ own2[o] = Nil
  BY <1>1 DEF Shape, Alloc, IndInv, TypeOK
<1>7. TablesRight(use2, own2)'
  <2>1. Held(use, own) \subseteq Held(use2, own2) /\ o \in Held(use2, own2)
    BY <1>1, <1>5, <1>6 DEF Held
  <2>2. TablesRight(use, own)
    BY DEF Sound, Heap
  <2>3. roots' \subseteq Held(use2, own2)
    BY <2>1, <2>2 DEF TablesRight
  <2>4. weakRefs \subseteq use /\ weakRefs \subseteq Obj
    BY <2>2 DEF TablesRight, Held, IndInv, TypeOK
  <2>5. weakRefs' \subseteq Held(use2, own2) \cap Of("weak")'
    BY <1>5, <1>6, <2>1, <2>2, <2>4 DEF TablesRight, Of
  <2>6. \A w \in weakRefs' : car'[w] \in Static => "static" \in LispOps
    BY <1>5, <1>6, <2>2, <2>4 DEF TablesRight
  <2>7. use2 \cap Of("weak")' \subseteq weakRefs'
    BY <1>1, <1>5, <1>6, <2>2 DEF TablesRight, Of
  <2>8. \A e \in (origins \cup history)' : e[1] \in Held(use2, own2) /\ e[2] \in Held(use2, own2)
    BY <2>1, <2>2 DEF TablesRight
  <2> QED
    BY <2>3, <2>5, <2>6, <2>7, <2>8 DEF TablesRight, Held
<1>8. TypeOK'
  <2>1. a \in Ref /\ d \in Ref
    BY DEF Plain, Shape, Ref
  <2>2. kind' \in [Obj -> Kinds] /\ car' \in [Obj -> Ref] /\ cdr' \in [Obj -> Ref]
    BY <2>1 DEF IndInv, TypeOK, Alloc, Kinds
  <2>3. weakRefs' \subseteq Obj /\ roots' \subseteq Obj
    BY DEF IndInv, TypeOK
  <2> QED
    BY <2>2, <2>3 DEF IndInv, TypeOK, gcVars
<1>9. Heap(use2, own2, shown, rank)'
  BY <1>3, <1>7 DEF Heap
<1>10. Collecting(use, own, shown)
  BY DEF Sound
<1> QED
  BY <1>4, <1>8, <1>9, <1>10, ProgramStep

LEMMA ConsInv ==
  ASSUME NoNest, IndInv, NEW o \in Obj, NEW a \in Storable \cup {Nil}, NEW d \in Storable \cup {Nil},
         Cons(o, a, d)
  PROVE  IndInv'
<1>1. PICK use, own, shown, rank : Shape(use, own, shown, rank) /\ Sound(use, own, shown, rank)
  BY DEF IndInv
<1>2. a \in Plain(use, own) \cup {Nil} /\ d \in Plain(use, own) \cup {Nil}
  BY <1>1, StorablePlain DEF Sound
<1> QED
  BY <1>1, <1>2, AllocInv DEF Cons, Lisp, Bind

LEMMA MakeWeakInv ==
  ASSUME NoNest, IndInv, NEW o \in Obj, NEW v \in Guardable, MakeWeak(o, v)
  PROVE  IndInv'
<1>1. PICK use, own, shown, rank : Shape(use, own, shown, rank) /\ Sound(use, own, shown, rank)
  BY DEF IndInv
<1>2. v \in Plain(use, own) /\ (v \in Static => "static" \in LispOps)
  BY <1>1, StorablePlain DEF Sound
<1> QED
  BY <1>1, <1>2, AllocInv DEF MakeWeak, Lisp, Bind

LEMMA MakeGuardianInv ==
  ASSUME IndInv, NEW o \in Obj, MakeGuardian(o)
  PROVE  IndInv'
<1>1. PICK use, own, shown, rank : Shape(use, own, shown, rank) /\ Sound(use, own, shown, rank)
  BY DEF IndInv
<1> QED
  BY <1>1, AllocInv DEF MakeGuardian, Lisp, Bind

\* A field of a pair or a weak reference is set to something plain.
LEMMA SetCells ==
  ASSUME TypeOK, NEW use, NEW own, NEW shown, NEW rank,
         Shape(use, own, shown, rank), Cells(use, own, shown, rank),
         NEW p \in Plain(use, own), kind[p] # "subr", NEW v \in Plain(use, own) \cup {Nil},
         car' = [car EXCEPT ![p] = v], UNCHANGED <<kind, cdr>>
  PROVE  Cells(use, own, shown, rank)'
<1>1. /\ \A x \in Obj \ {p} : car'[x] = car[x]
      /\ car'[p] = v /\ p \in Obj /\ own[p] = Nil /\ kind[p] # "guardian" /\ p \notin Static
  BY CollectorAssumption DEF TypeOK, Shape, Plain, Cells, StaticRight
<1>2. Plain(use, own)' = Plain(use, own) /\ Of("guardian")' = Of("guardian") /\ Allocated' = Allocated
  BY DEF Plain, Of, Allocated
<1>3. StaticRight'
  BY <1>1 DEF Cells, StaticRight
<1>4. GuardiansRight(use, own, shown)'
  BY <1>1, <1>2 DEF Cells, GuardiansRight, Held, Of
<1>5. ListsRight(use, own, shown, rank)'
  <2>1. \A x \in use : own[x] # Nil => car'[x] = car[x]
    BY <1>1 DEF Shape
  <2> QED
    BY <1>2, <2>1 DEF Cells, ListsRight
<1>6. PlainRight(use, own)'
  <2>1. \A x \in Plain(use, own) : car'[x] = IF x = p THEN v ELSE car[x]
    BY <1>1 DEF Shape, Plain
  <2> QED
    BY <1>2, <2>1 DEF Cells, PlainRight
<1>7. Linked(use, own, shown)'
  <2>1. \A x \in use : own[x] # Nil => car'[own[x]] = car[own[x]]
    BY <1>1 DEF Cells, ListsRight, Of
  <2> QED
    BY <2>1 DEF Cells, Linked
<1> QED
  BY <1>2, <1>3, <1>4, <1>5, <1>6, <1>7 DEF Cells

LEMMA SetCarInv ==
  ASSUME NoNest, IndInv, NEW p \in roots, NEW v \in Storable \cup {Nil}, SetCar(p, v)
  PROVE  IndInv'
<1>1. PICK use, own, shown, rank : Shape(use, own, shown, rank) /\ Sound(use, own, shown, rank)
  BY DEF IndInv
<1>2. TypeOK /\ Cells(use, own, shown, rank) /\ TablesRight(use, own) /\ Collecting(use, own, shown)
      /\ Heap(use, own, shown, rank)
  BY <1>1 DEF IndInv, Sound, Heap
<1>3. v \in Plain(use, own) \cup {Nil}
  BY <1>2, StorablePlain
<1>4. p \in Plain(use, own) /\ kind[p] = "pair"
  BY <1>2 DEF TablesRight, Held, Plain, SetCar
<1>5. car' = [car EXCEPT ![p] = v] /\ UNCHANGED <<kind, cdr, lispVars>> /\ UNCHANGED gcVars /\ phase = "idle"
  BY DEF SetCar, Lisp
<1>6. Cells(use, own, shown, rank)'
  BY <1>1, <1>2, <1>3, <1>4, <1>5, SetCells
<1>7. TablesRight(use, own)'
  <2>1. \A w \in weakRefs : w # p /\ car'[w] = car[w]
    BY <1>2, <1>4, <1>5 DEF TypeOK, TablesRight, Of
  <2> QED
    BY <1>2, <1>5, <2>1 DEF TablesRight, Held, Of, lispVars, gcVars
<1>8. TypeOK'
  <2>1. v \in Ref
    BY <1>1, <1>3 DEF Plain, Shape, Ref
  <2> QED
    BY <1>2, <1>5, <2>1 DEF TypeOK, lispVars, gcVars
<1> QED
  BY <1>1, <1>2, <1>5, <1>6, <1>7, <1>8, ProgramStep DEF Heap

LEMMA WeakSetInv ==
  ASSUME NoNest, IndInv, NEW p \in roots, NEW v \in Guardable, WeakSet(p, v)
  PROVE  IndInv'
<1>1. PICK use, own, shown, rank : Shape(use, own, shown, rank) /\ Sound(use, own, shown, rank)
  BY DEF IndInv
<1>2. TypeOK /\ Cells(use, own, shown, rank) /\ TablesRight(use, own) /\ Collecting(use, own, shown)
      /\ Heap(use, own, shown, rank)
  BY <1>1 DEF IndInv, Sound, Heap
<1>3. v \in Plain(use, own) /\ (v \in Static => "static" \in LispOps)
  BY <1>2, StorablePlain
<1>4. p \in Plain(use, own) /\ kind[p] = "weak"
  BY <1>2 DEF TablesRight, Held, Plain, WeakSet
<1>5. car' = [car EXCEPT ![p] = v] /\ UNCHANGED <<kind, cdr, lispVars>> /\ UNCHANGED gcVars /\ phase = "idle"
  BY DEF WeakSet, Lisp
<1>6. Cells(use, own, shown, rank)'
  BY <1>1, <1>2, <1>3, <1>4, <1>5, SetCells
<1>7. TablesRight(use, own)'
  <2>1. \A w \in weakRefs : car'[w] = car[w] \/ car'[w] = v
    BY <1>2, <1>5 DEF TypeOK
  <2> QED
    BY <1>2, <1>3, <1>5, <2>1 DEF TablesRight, Held, Of, lispVars, gcVars
<1>8. TypeOK'
  <2>1. v \in Ref
    BY <1>1, <1>3 DEF Plain, Shape, Ref
  <2> QED
    BY <1>2, <1>5, <2>1 DEF TypeOK, lispVars, gcVars
<1> QED
  BY <1>1, <1>2, <1>5, <1>6, <1>7, <1>8, ProgramStep DEF Heap

\* The program only changes what its variables and tables refer to.
LEMMA TablesInv ==
  ASSUME IndInv, phase = "idle", UNCHANGED <<heapVars, weakRefs, gcVars>>,
         NEW use, NEW own, NEW shown, NEW rank,
         Shape(use, own, shown, rank), Sound(use, own, shown, rank),
         roots' \subseteq Held(use, own),
         origins' \subseteq Obj \X Obj, history' \subseteq Obj \X Obj,
         \A e \in origins' \cup history' : e[1] \in Held(use, own) /\ e[2] \in Held(use, own)
  PROVE  IndInv'
<1>1. Cells(use, own, shown, rank)'
  BY DEF Sound, Heap, Cells, StaticRight, GuardiansRight, ListsRight, Linked, PlainRight, Plain, Held, Of, Allocated,
         heapVars
<1>2. TablesRight(use, own)'
  BY DEF Sound, Heap, TablesRight, Held, Of, heapVars, gcVars
<1>3. TypeOK'
  BY DEF IndInv, TypeOK, heapVars, gcVars, Held, Shape
<1>4. Heap(use, own, shown, rank)' /\ Collecting(use, own, shown)
  BY <1>1, <1>2 DEF Heap, Sound
<1> QED
  BY <1>3, <1>4, ProgramStep

LEMMA ReferenceInv ==
  ASSUME NoNest, IndInv, NEW p \in roots,
         Car(p) \/ WeakRef(p) \/ DropRoot(p) \/ \E q \in roots : RecordOrigin(p, q) \/ Macroexpand(p, q)
  PROVE  IndInv'
<1>1. PICK use, own, shown, rank : Shape(use, own, shown, rank) /\ Sound(use, own, shown, rank)
  BY DEF IndInv
<1>2. TypeOK /\ PlainRight(use, own) /\ TablesRight(use, own)
  BY <1>1 DEF IndInv, Sound, Heap, Cells
<1>3. /\ roots \subseteq Held(use, own)
      /\ \A e \in origins \cup history : e[1] \in Held(use, own) /\ e[2] \in Held(use, own)
      /\ Held(use, own) \subseteq Obj
  BY <1>1, <1>2 DEF TablesRight, Held, Shape
<1>4. CASE Car(p) \/ WeakRef(p)
  <2>1. p \in Plain(use, own) /\ car[p] # Nil
    BY <1>3, <1>4 DEF Car, WeakRef, Held, Plain
  <2>2. car[p] \in Held(use, own)
    BY <1>2, <2>1 DEF PlainRight, Held, Plain
  <2>3. roots' = roots \cup ({car[p]} \ Static) /\ UNCHANGED <<heapVars, weakRefs, origins, history, gcVars>>
        /\ phase = "idle"
    BY <1>4 DEF Car, WeakRef, Bind, Lisp
  <2> QED
    BY <1>1, <1>2, <1>3, <2>2, <2>3, TablesInv DEF TypeOK
<1>5. CASE DropRoot(p)
  BY <1>1, <1>2, <1>3, <1>5, TablesInv DEF DropRoot, TypeOK
<1>6. ASSUME NEW q \in roots, RecordOrigin(p, q) \/ Macroexpand(p, q) PROVE IndInv'
  <2>1. p \in Obj /\ q \in Obj
    BY <1>3
  <2>2. /\ UNCHANGED <<heapVars, roots, weakRefs, gcVars>> /\ phase = "idle"
        /\ origins' \subseteq origins \cup {<<p, q>>} /\ history' \subseteq history \cup {<<p, q>>}
    BY <1>6 DEF RecordOrigin, Macroexpand, Lisp
  <2> QED
    BY <1>1, <1>2, <1>3, <2>1, <2>2, TablesInv DEF TypeOK
<1> QED
  BY <1>4, <1>5, <1>6

\* primitive-guardian-pop takes the first cell off the list of inaccessible objects.
LEMMA GuardianPopInv ==
  ASSUME IndInv, NEW g \in roots, GuardianPop(g)
  PROVE  IndInv'
<1>1. PICK use, own, shown, rank : Shape(use, own, shown, rank) /\ Sound(use, own, shown, rank)
  BY DEF IndInv
<1>2. TypeOK /\ Cells(use, own, shown, rank) /\ TablesRight(use, own) /\ Collecting(use, own, shown)
  BY <1>1 DEF IndInv, Sound, Heap
<1>3. PICK c : c = cdr[g]
  OBVIOUS
<1>4. /\ cdr' = [cdr EXCEPT ![g] = cdr[c]] /\ UNCHANGED <<kind, car, weakRefs, origins, history>>
      /\ UNCHANGED gcVars /\ phase = "idle" /\ roots' = roots \cup ({car[c]} \ Static)
      /\ c # Nil /\ g \in Of("guardian") /\ g \in Obj
  BY <1>2, <1>3 DEF GuardianPop, Bind, Lisp, Of, TypeOK
<1>5. g \in Held(use, own) /\ c \in use /\ own[c] = g /\ c \notin shown /\ c \in Obj /\ g # Nil
  BY <1>1, <1>2, <1>3, <1>4, CollectorAssumption DEF Cells, GuardiansRight, Shape
<1>6. /\ car[c] \in Plain(use, own)
      /\ cdr[c] # Nil => /\ cdr[c] \in use
                         /\ own[cdr[c]] = g
                         /\ cdr[c] \notin shown
  BY <1>2, <1>5 DEF Cells, ListsRight
<1>7. \A x \in Obj \ {g} : cdr'[x] = cdr[x]
  BY <1>2, <1>4 DEF TypeOK
<1>8. cdr'[g] = cdr[c] /\ own[g] = Nil /\ kind[g] = "guardian"
  BY <1>2, <1>4, <1>5 DEF TypeOK, Of, Held
<1>9. /\ Plain(use, own)' = Plain(use, own) /\ Held(use, own)' = Held(use, own)
      /\ Of("guardian")' = Of("guardian") /\ Of("weak")' = Of("weak") /\ Allocated' = Allocated
      /\ use \subseteq Obj
  BY <1>1, <1>4 DEF Plain, Held, Of, Allocated, Shape
<1>10. Cells(use, own, shown, rank)'
  <2>1. StaticRight'
    BY <1>2, <1>4, <1>7, <1>8 DEF Cells, StaticRight
  <2>2. GuardiansRight(use, own, shown)'
    BY <1>2, <1>4, <1>6, <1>7, <1>8, <1>9 DEF Cells, GuardiansRight, Of
  <2>3. ListsRight(use, own, shown, rank)'
    <3>1. \A x \in use : own[x] # Nil => cdr'[x] = cdr[x]
      BY <1>7, <1>8, <1>9
    <3> QED
      BY <1>2, <1>4, <1>9, <3>1 DEF Cells, ListsRight
  <2>4. PlainRight(use, own)'
    <3>1. \A x \in Plain(use, own) : cdr'[x] = cdr[x]
      BY <1>7, <1>8, <1>9 DEF Plain
    <3> QED
      BY <1>2, <1>4, <1>9, <3>1 DEF Cells, PlainRight
  <2>5. Linked(use, own, shown)'
    <3>1. \A x \in use : own[x] # Nil => cdr'[x] = cdr[x]
      BY <1>7, <1>8, <1>9
    <3> QED
      BY <1>2, <1>4, <3>1 DEF Cells, Linked
  <2> QED
    BY <1>2, <1>9, <2>1, <2>2, <2>3, <2>4, <2>5 DEF Cells
<1>11. TablesRight(use, own)'
  <2>1. car[c] \in Held(use, own)
    BY <1>6 DEF Plain, Held
  <2> QED
    BY <1>2, <1>4, <1>9, <2>1 DEF TablesRight, gcVars
<1>12. TypeOK'
  <2>1. cdr[c] \in Ref /\ car[c] \in Obj
    BY <1>2, <1>5, <1>6, <1>9 DEF TypeOK, Plain
  <2> QED
    BY <1>2, <1>4, <2>1 DEF TypeOK, gcVars
<1> QED
  BY <1>1, <1>2, <1>4, <1>10, <1>11, <1>12, ProgramStep DEF Heap

\* primitive-guardian-push adds a cell to the list of accessible objects.
LEMMA GuardianPushInv ==
  ASSUME NoNest, IndInv, NEW g \in roots, NEW v \in Guardable, NEW c \in Obj, GuardianPush(g, v, c)
  PROVE  IndInv'
<1>1. PICK use, own, shown, rank : Shape(use, own, shown, rank) /\ Sound(use, own, shown, rank)
  BY DEF IndInv
<1>2. TypeOK /\ Cells(use, own, shown, rank) /\ TablesRight(use, own) /\ Collecting(use, own, shown)
      /\ Heap(use, own, shown, rank)
  BY <1>1 DEF IndInv, Sound, Heap
<1>3. v \in Plain(use, own) /\ (v \in Static => "static" \in LispOps)
  BY <1>2, StorablePlain
<1>4. /\ kind[g] = "guardian" /\ kind[c] = "free" /\ g \in Of("guardian") /\ g \in Obj /\ c # g
      /\ kind' = [kind EXCEPT ![c] = "pair"]
      /\ car' = [car EXCEPT ![c] = v, ![g] = c]
      /\ cdr' = [cdr EXCEPT ![c] = car[g]]
      /\ UNCHANGED lispVars /\ UNCHANGED gcVars /\ phase = "idle"
  BY <1>2 DEF GuardianPush, Lisp, Of, TypeOK
<1>5. c \notin use /\ c \notin Static /\ g \in Held(use, own) /\ g # Nil /\ c # Nil /\ use \subseteq Obj
  BY <1>1, <1>2, <1>4, CollectorAssumption DEF Cells, GuardiansRight, Allocated, Shape
<1>6. PICK use2, own2, shown2, rank2 :
        /\ use2 = use \cup {c}
        /\ own2 = [own EXCEPT ![c] = g]
        /\ shown2 = shown \cup {c}
        /\ rank2 = [rank EXCEPT ![c] = IF car[g] = Nil THEN 0 ELSE rank[car[g]] + 1]
  OBVIOUS
<1>7. /\ \A x \in Obj \ {c} : /\ kind'[x] = kind[x] /\ cdr'[x] = cdr[x] /\ own2[x] = own[x]
                              /\ rank2[x] = rank[x] /\ (x # g => car'[x] = car[x])
      /\ kind'[c] = "pair" /\ car'[c] = v /\ cdr'[c] = car[g] /\ own2[c] = g /\ car'[g] = c
  BY <1>1, <1>2, <1>4, <1>6 DEF TypeOK, Shape
<1>8. car[g] # Nil => /\ car[g] \in use /\ own[car[g]] = g /\ car[g] \in shown
                      /\ rank[car[g]] \in Nat /\ rank2[c] = rank[car[g]] + 1
  BY <1>1, <1>2, <1>4, <1>5, <1>6 DEF Cells, GuardiansRight, Shape
<1>9. Shape(use2, own2, shown2, rank2)
  <2>1. rank2 \in [Obj -> Nat]
    <3>1. (IF car[g] = Nil THEN 0 ELSE rank[car[g]] + 1) \in Nat
      BY <1>8
    <3> QED
      BY <1>1, <1>6, <3>1 DEF Shape
  <2> QED
    BY <1>1, <1>4, <1>6, <2>1 DEF Shape, Ref
<1>10. \A x : x \in Plain(use2, own2)' <=> x \in Plain(use, own)
  BY <1>5, <1>6, <1>7 DEF Plain
<1>11. \A x : x \in Held(use2, own2)' <=> x \in Held(use, own)
  BY <1>5, <1>6, <1>7 DEF Held
<1>12. Of("guardian")' = Of("guardian") /\ Of("weak")' = Of("weak")
  BY <1>4, <1>7 DEF Of
<1>13. Cells(use2, own2, shown2, rank2)'
  <2>1. Static \subseteq use2 /\ use2 \subseteq Allocated' /\ \A x \in Static : own2[x] = Nil
    BY <1>2, <1>5, <1>6, <1>7, CollectorAssumption DEF Cells, Allocated
  <2>2. StaticRight'
    <3> SUFFICES ASSUME NEW x \in Obj
                 PROVE  /\ x \in Static <=> kind'[x] = "subr"
                        /\ x \in Static => car'[x] = Nil /\ cdr'[x] = Nil
                        /\ kind'[x] = "weak" => cdr'[x] = Nil
      BY DEF StaticRight
    <3>1. /\ x \in Static <=> kind[x] = "subr"
          /\ x \in Static => car[x] = Nil /\ cdr[x] = Nil
          /\ kind[x] = "weak" => cdr[x] = Nil
      BY <1>2 DEF Cells, StaticRight
    <3>2. CASE x = c
      BY <1>5, <1>7, <3>2
    <3>3. CASE x # c
      BY <1>4, <1>7, <3>1, <3>3
    <3> QED
      BY <3>2, <3>3
  <2>3. GuardiansRight(use2, own2, shown2)'
    <3> SUFFICES ASSUME NEW h \in Of("guardian")
                 PROVE  /\ h \in Held(use2, own2)'
                        /\ car'[h] # Nil => car'[h] \in use2 /\ own2[car'[h]] = h /\ car'[h] \in shown2
                        /\ cdr'[h] # Nil => cdr'[h] \in use2 /\ own2[cdr'[h]] = h /\ cdr'[h] \notin shown2
      BY <1>12 DEF GuardiansRight
    <3>1. h \in Obj /\ h # c
      BY <1>4 DEF Of
    <3>2. /\ h \in Held(use, own)
          /\ car[h] # Nil => car[h] \in use /\ own[car[h]] = h /\ car[h] \in shown
          /\ cdr[h] # Nil => cdr[h] \in use /\ own[cdr[h]] = h /\ cdr[h] \notin shown
      BY <1>2 DEF Cells, GuardiansRight
    <3>3. h \in Held(use2, own2)'
      BY <1>11, <3>2
    <3>4. \A x \in use : x \in Obj \ {c} /\ x \in use2 /\ own2[x] = own[x] /\ (x \in shown2 <=> x \in shown)
      BY <1>5, <1>6, <1>7
    <3>5. cdr'[h] = cdr[h]
      BY <1>7, <3>1
    <3>6. cdr'[h] # Nil => cdr'[h] \in use2 /\ own2[cdr'[h]] = h /\ cdr'[h] \notin shown2
      BY ONLY <3>2, <3>4, <3>5
    <3>7. CASE h = g
      <4>1. car'[h] = c /\ c \in use2 /\ own2[c] = h /\ c \in shown2
        BY <1>6, <1>7, <3>7
      <4> QED
        BY <3>3, <3>6, <4>1
    <3>8. CASE h # g
      <4>1. car'[h] = car[h]
        BY <1>7, <3>1, <3>8
      <4>2. car'[h] # Nil => car'[h] \in use2 /\ own2[car'[h]] = h /\ car'[h] \in shown2
        BY ONLY <3>2, <3>4, <4>1
      <4> QED
        BY <3>3, <3>6, <4>2
    <3> QED
      BY <3>7, <3>8
  <2>4. ListsRight(use2, own2, shown2, rank2)'
    <3> SUFFICES ASSUME NEW x \in use2, own2[x] # Nil
                 PROVE  /\ kind'[x] = "pair"
                        /\ own2[x] \in Of("guardian")
                        /\ car'[x] \in Plain(use2, own2)'
                        /\ car'[x] \in Static => "static" \in LispOps
                        /\ cdr'[x] # Nil => /\ cdr'[x] \in use2
                                            /\ own2[cdr'[x]] = own2[x]
                                            /\ cdr'[x] \in shown2 <=> x \in shown2
                                            /\ rank2[cdr'[x]] < rank2[x]
      BY <1>12 DEF ListsRight
    <3>1. CASE x = c
      <4>1. kind'[c] = "pair" /\ own2[c] \in Of("guardian") /\ car'[c] \in Plain(use2, own2)'
            /\ (car'[c] \in Static => "static" \in LispOps)
        BY <1>3, <1>4, <1>7, <1>10
      <4>2. ASSUME cdr'[c] # Nil
            PROVE  /\ cdr'[c] \in use2 /\ own2[cdr'[c]] = own2[c] /\ cdr'[c] \in shown2 /\ c \in shown2
                   /\ rank2[cdr'[c]] < rank2[c]
        <5>1. cdr'[c] = car[g] /\ car[g] \in Obj \ {c} /\ car[g] \in use /\ own[car[g]] = g /\ car[g] \in shown
          BY <1>5, <1>7, <1>8, <4>2
        <5>2. rank2[car[g]] = rank[car[g]] /\ rank2[c] = rank[car[g]] + 1 /\ rank[car[g]] \in Nat
          BY <1>7, <1>8, <4>2, <5>1
        <5> QED
          BY <1>6, <1>7, <5>1, <5>2
      <4> QED
        BY <3>1, <4>1, <4>2
    <3>2. CASE x # c
      <4>1. x \in use /\ own[x] # Nil /\ own2[x] = own[x]
        BY <1>5, <1>6, <1>7, <3>2
      <4>2. /\ kind[x] = "pair"
            /\ own[x] \in Of("guardian")
            /\ car[x] \in Plain(use, own)
            /\ car[x] \in Static => "static" \in LispOps
            /\ cdr[x] # Nil => /\ cdr[x] \in use
                               /\ own[cdr[x]] = own[x]
                               /\ cdr[x] \in shown <=> x \in shown
                               /\ rank[cdr[x]] < rank[x]
        BY <1>2, <4>1 DEF Cells, ListsRight
      <4>3. x # g
        BY <1>4, <4>2
      <4>4. \A y \in use : /\ y \in use2 /\ own2[y] = own[y] /\ rank2[y] = rank[y]
                           /\ y \in shown2 <=> y \in shown
        BY <1>5, <1>6, <1>7
      <4>5. kind'[x] = kind[x] /\ car'[x] = car[x] /\ cdr'[x] = cdr[x]
        BY <1>5, <1>7, <3>2, <4>1, <4>3
      <4>6. cdr'[x] # Nil => /\ cdr'[x] \in use2
                             /\ own2[cdr'[x]] = own2[x]
                             /\ cdr'[x] \in shown2 <=> x \in shown2
                             /\ rank2[cdr'[x]] < rank2[x]
        BY ONLY <4>1, <4>2, <4>4, <4>5
      <4>7. car'[x] \in Plain(use2, own2)'
        BY <1>10, <4>2, <4>5
      <4> QED
        BY <4>1, <4>2, <4>5, <4>6, <4>7
    <3> QED
      BY <3>1, <3>2
  <2>5. PlainRight(use2, own2)'
    <3>1. \A x \in Plain(use, own) : x \in Obj \ {c} /\ x # g
      BY <1>4, <1>5 DEF Plain
    <3> QED
      BY <1>2, <1>7, <1>10, <3>1 DEF Cells, PlainRight
  <2>6. Linked(use2, own2, shown2)'
    <3> SUFFICES ASSUME NEW x \in use2 \cap shown2, own2[x] # Nil, cdr'[x] # Nil
                 PROVE  /\ cdr'[x] # car'[own2[x]]
                        /\ \A y \in use2 : own2[y] # Nil /\ cdr'[y] = cdr'[x] => y = x
      BY DEF Linked
    <3>1. \A y \in use : own[y] # Nil /\ cdr[y] # Nil =>
            /\ cdr[y] \in use /\ own[cdr[y]] = own[y] /\ (cdr[y] \in shown <=> y \in shown)
      BY <1>2 DEF Cells, ListsRight
    <3>2. \A y \in use : own[y] # Nil /\ cdr[y] # Nil => cdr[y] # car[g]
      <4> SUFFICES ASSUME NEW y \in use, own[y] # Nil, cdr[y] # Nil, cdr[y] = car[g] PROVE FALSE
        OBVIOUS
      <4>1. own[y] = g /\ y \in shown
        BY <1>8, <3>1
      <4> QED
        BY <1>2, <4>1 DEF Cells, Linked
    <3>3. \A y \in use2 : own2[y] # Nil /\ y # c => y \in use /\ own[y] # Nil /\ cdr'[y] = cdr[y] /\ own2[y] = own[y]
      BY <1>5, <1>6, <1>7
    <3>4. CASE x = c
      <4>1. car'[own2[x]] = c /\ cdr'[x] = car[g] /\ car[g] # c
        BY <1>5, <1>7, <1>8, <3>4
      <4> QED
        BY <3>2, <3>3, <3>4, <4>1
    <3>5. CASE x # c
      <4>1. x \in use \cap shown /\ own[x] # Nil /\ cdr'[x] = cdr[x] /\ own2[x] = own[x]
        BY <1>6, <3>3, <3>5
      <4>2. cdr[x] \in use /\ cdr[x] # c /\ cdr[x] # car[g]
        BY <1>5, <3>1, <3>2, <4>1
      <4>3. own[x] \in Of("guardian") /\ own[x] # c
        BY <1>2, <1>4, <4>1 DEF Cells, ListsRight, Of
      <4>4. car'[own[x]] = c \/ car'[own[x]] = car[own[x]]
        BY <1>7, <4>3 DEF Of
      <4>5. cdr[x] # car[own[x]] /\ \A y \in use : own[y] # Nil /\ cdr[y] = cdr[x] => y = x
        BY <1>2, <4>1 DEF Cells, Linked
      <4>6. cdr'[c] # cdr[x]
        BY <1>7, <4>2
      <4> QED
        BY <3>3, <4>1, <4>2, <4>4, <4>5, <4>6
    <3> QED
      BY <3>4, <3>5
  <2> QED
    BY <2>1, <2>2, <2>3, <2>4, <2>5, <2>6 DEF Cells
<1>14. TablesRight(use2, own2)'
  <2>1. \A w \in weakRefs : car'[w] = car[w]
    BY <1>2, <1>4, <1>5, <1>7 DEF TablesRight, Held, Of
  <2>2. use2 \cap Of("weak") \subseteq weakRefs
    BY <1>2, <1>4, <1>6 DEF TablesRight, Of
  <2>3. Held(use, own) \subseteq Held(use2, own2)'
    BY <1>11
  <2> QED
    BY <1>2, <1>4, <1>12, <2>1, <2>2, <2>3 DEF TablesRight, lispVars, gcVars
<1>15. TypeOK'
  <2>1. v \in Ref /\ c \in Ref /\ car[g] \in Ref
    BY <1>2, <1>3, <1>4, <1>5 DEF Plain, Ref, TypeOK
  <2> QED
    BY <1>2, <1>4, <2>1 DEF TypeOK, Kinds, lispVars, gcVars
<1> QED
  BY <1>2, <1>4, <1>9, <1>13, <1>14, <1>15, ProgramStep DEF Heap

LEMMA ProgramInv == ASSUME NoNest, IndInv, Program PROVE IndInv'
<1>1. ASSUME NEW o \in Obj, NEW a \in Storable \cup {Nil}, NEW d \in Storable \cup {Nil}, Cons(o, a, d)
      PROVE  IndInv'
  BY <1>1, ConsInv
<1>2. ASSUME NEW p \in roots, Car(p) \/ WeakRef(p) \/ GuardianPop(p) \/ DropRoot(p)
      PROVE  IndInv'
  BY <1>2, ReferenceInv, GuardianPopInv
<1>3. ASSUME NEW p \in roots, NEW v \in Storable \cup {Nil}, SetCar(p, v) PROVE IndInv'
  BY <1>3, SetCarInv
<1>4. ASSUME NEW o \in Obj, NEW v \in Guardable, MakeWeak(o, v) PROVE IndInv'
  BY <1>4, MakeWeakInv
<1>5. ASSUME NEW p \in roots, NEW v \in Guardable, WeakSet(p, v) PROVE IndInv'
  BY <1>5, WeakSetInv
<1>6. ASSUME NEW o \in Obj, MakeGuardian(o) PROVE IndInv'
  BY <1>6, MakeGuardianInv
<1>7. ASSUME NEW p \in roots, NEW v \in Guardable, NEW c \in Obj, GuardianPush(p, v, c) PROVE IndInv'
  BY <1>7, GuardianPushInv
<1>8. ASSUME NEW p \in roots, NEW q \in roots, RecordOrigin(p, q) \/ Macroexpand(p, q) PROVE IndInv'
  BY <1>8, ReferenceInv
<1> QED
  BY <1>1, <1>2, <1>3, <1>4, <1>5, <1>6, <1>7, <1>8 DEF Program

----------------------------------------------------------------------------
(* The collection *)

\* What the invariant says of each cell, in the form in which the steps use it.
LEMMA CellFacts ==
  ASSUME TypeOK, NEW use, NEW own, NEW shown, NEW rank,
         Shape(use, own, shown, rank), Sound(use, own, shown, rank)
  PROVE  /\ use \subseteq Obj /\ Nil \notin use /\ Nil \notin Obj
         /\ \A o \in Obj : o \in Static <=> kind[o] = "subr"
         /\ \A o \in Obj : kind[o] = "weak" => cdr[o] = Nil
         /\ \A o \in Static : o \in use /\ own[o] = Nil /\ car[o] = Nil /\ cdr[o] = Nil
         /\ \A o \in use : kind[o] # "free"
         /\ \A g \in Of("guardian") :
              /\ g \in use /\ own[g] = Nil /\ g \notin Static /\ kind[g] = "guardian"
              /\ car[g] # Nil => car[g] \in use /\ own[car[g]] = g /\ car[g] \in shown /\ car[g] \notin Static
              /\ cdr[g] # Nil => cdr[g] \in use /\ own[cdr[g]] = g /\ cdr[g] \notin shown /\ cdr[g] \notin Static
         /\ \A o \in use : own[o] # Nil =>
              /\ kind[o] = "pair" /\ own[o] \in Of("guardian") /\ o \notin Static
              /\ car[o] \in use /\ own[car[o]] = Nil /\ kind[car[o]] # "guardian"
              /\ cdr[o] # Nil => cdr[o] \in use /\ own[cdr[o]] = own[o] /\ cdr[o] \notin Static
         /\ \A o \in use : own[o] = Nil /\ kind[o] # "guardian" =>
              /\ car[o] # Nil => car[o] \in use /\ own[car[o]] = Nil /\ kind[car[o]] # "guardian"
              /\ cdr[o] # Nil => cdr[o] \in use /\ own[cdr[o]] = Nil /\ kind[cdr[o]] # "guardian"
<1>1. Cells(use, own, shown, rank) /\ use \subseteq Obj /\ Nil \notin use /\ Nil \notin Obj
  BY CollectorAssumption DEF Sound, Heap, Shape
<1>2. /\ \A o \in Obj : o \in Static <=> kind[o] = "subr"
      /\ \A o \in Obj : kind[o] = "weak" => cdr[o] = Nil
  BY <1>1 DEF Cells, StaticRight
<1>3. \A o \in Static : o \in use /\ own[o] = Nil /\ car[o] = Nil /\ cdr[o] = Nil
  BY <1>1, CollectorAssumption DEF Cells, StaticRight
<1>4. \A o \in use : kind[o] # "free"
  BY <1>1 DEF Cells, Allocated
<1>5. ASSUME NEW g \in Of("guardian")
      PROVE  /\ g \in use /\ own[g] = Nil /\ g \notin Static /\ kind[g] = "guardian"
             /\ car[g] # Nil => car[g] \in use /\ own[car[g]] = g /\ car[g] \in shown /\ car[g] \notin Static
             /\ cdr[g] # Nil => cdr[g] \in use /\ own[cdr[g]] = g /\ cdr[g] \notin shown /\ cdr[g] \notin Static
  <2>1. g \in Obj /\ kind[g] = "guardian"
    BY DEF Of
  <2>2. /\ g \in use /\ own[g] = Nil
        /\ car[g] # Nil => car[g] \in use /\ own[car[g]] = g /\ car[g] \in shown
        /\ cdr[g] # Nil => cdr[g] \in use /\ own[cdr[g]] = g /\ cdr[g] \notin shown
    BY <1>1 DEF Cells, GuardiansRight, Held
  <2> QED
    BY <1>1, <1>2, <1>3, <2>1, <2>2
<1>6. ASSUME NEW o \in use, own[o] # Nil
      PROVE  /\ kind[o] = "pair" /\ own[o] \in Of("guardian") /\ o \notin Static
             /\ car[o] \in use /\ own[car[o]] = Nil /\ kind[car[o]] # "guardian"
             /\ cdr[o] # Nil => cdr[o] \in use /\ own[cdr[o]] = own[o] /\ cdr[o] \notin Static
  BY <1>1, <1>3, <1>6 DEF Cells, ListsRight, Plain
<1>7. ASSUME NEW o \in use, own[o] = Nil, kind[o] # "guardian"
      PROVE  /\ car[o] # Nil => car[o] \in use /\ own[car[o]] = Nil /\ kind[car[o]] # "guardian"
             /\ cdr[o] # Nil => cdr[o] \in use /\ own[cdr[o]] = Nil /\ kind[cdr[o]] # "guardian"
  BY <1>1, <1>7 DEF Cells, PlainRight, Plain
<1> QED
  BY <1>1, <1>2, <1>3, <1>4, <1>5, <1>6, <1>7

\* Every field in use refers to a cell in use.
LEMMA UseClosed ==
  ASSUME TypeOK, NEW use, NEW own, NEW shown, NEW rank,
         Shape(use, own, shown, rank), Sound(use, own, shown, rank)
  PROVE  \A o \in use : /\ car[o] \in use \cup {Nil} /\ cdr[o] \in use \cup {Nil}
                        /\ Fields(o) \subseteq use
<1> TAKE o \in use
<1>1. car[o] \in use \cup {Nil} /\ cdr[o] \in use \cup {Nil}
  <2>1. CASE own[o] # Nil
    BY <2>1, CellFacts
  <2>2. CASE kind[o] = "guardian"
    <3>1. o \in Of("guardian")
      BY <2>2, CellFacts DEF Of
    <3> QED
      BY <3>1, CellFacts
  <2>3. CASE own[o] = Nil /\ kind[o] # "guardian"
    BY <2>3, CellFacts
  <2> QED
    BY <2>1, <2>2, <2>3
<1> QED
  BY <1>1 DEF Fields

\* Steps that leave the cells alone keep what is said of the heap.
LEMMA SameHeap ==
  ASSUME NEW use, NEW own, NEW shown, NEW rank, Heap(use, own, shown, rank),
         UNCHANGED <<heapVars, roots, weakRefs>>, origins' \subseteq origins, history' \subseteq history,
         phase' \in {"origins", "sweep"} \/ phase \notin {"origins", "sweep"}
  PROVE  Heap(use, own, shown, rank)'
<1>1. Cells(use, own, shown, rank)'
  BY DEF Heap, Cells, StaticRight, GuardiansRight, ListsRight, Linked, PlainRight, Plain, Held, Of, Allocated,
         heapVars
<1>2. TablesRight(use, own)'
  BY DEF Heap, TablesRight, Held, Of, heapVars
<1> QED
  BY <1>1, <1>2 DEF Heap

LEMMA SameClosed ==
  ASSUME NEW Y, UNCHANGED <<heapVars, roots, origins>>
  PROVE  ClosedSet(Y)' <=> ClosedSet(Y)
  BY DEF ClosedSet, Sources, MarkOrigins, Of, StrongFields, Fields, heapVars

LEMMA CollectStep ==
  ASSUME TypeOK', NEW use, NEW own, NEW shown, NEW rank,
         Shape(use, own, shown, rank), Heap(use, own, shown, rank)',
         Collecting(use, own, shown)', Rooted(use)'
  PROVE  IndInv'
<1>1. Sound(use, own, shown, rank)'
  BY DEF Sound
<1> QED
  BY <1>1 DEF IndInv, Shape

LEMMA GarbageCollectInv == ASSUME IndInv, GarbageCollect PROVE IndInv'
<1>1. PICK use, own, shown, rank : Shape(use, own, shown, rank) /\ Sound(use, own, shown, rank)
  BY DEF IndInv
<1>2. TypeOK /\ Heap(use, own, shown, rank) /\ TablesRight(use, own) /\ Collecting(use, own, shown)
  BY <1>1 DEF IndInv, Sound, Heap
<1>3. /\ phase = "idle" /\ phase' = "mark" /\ history' = {}
      /\ grey' = MarkVal(roots \cup MarkOrigins)
      /\ UNCHANGED <<heapVars, roots, weakRefs, origins, marked, guard, todo, ptr, changed>>
  BY DEF GarbageCollect, BeforeGC
<1>4. marked = {} /\ changed = {}
  BY <1>2, <1>3 DEF Collecting
<1>5. roots \cup MarkOrigins \subseteq use /\ use \subseteq Obj /\ Nil \notin use
  BY <1>1, <1>2, CollectorAssumption DEF TablesRight, Held, MarkOrigins, Shape
<1>6. grey' \subseteq use \ Static /\ grey' \subseteq roots \cup MarkOrigins
      /\ roots \cup MarkOrigins \subseteq grey' \cup Static
  BY <1>3, <1>4, <1>5 DEF MarkVal
<1>7. TypeOK'
  BY <1>2, <1>3, <1>5, <1>6 DEF TypeOK, Phases, heapVars
<1>8. Heap(use, own, shown, rank)'
  BY <1>2, <1>3, SameHeap
<1>9. Collecting(use, own, shown)'
  BY <1>3, <1>4, <1>6 DEF Collecting, MarkOrigins
<1>10. Rooted(use)'
  BY <1>3, <1>4, <1>6 DEF Rooted, ClosedSet, Sources, MarkOrigins
<1> QED
  BY <1>1, <1>7, <1>8, <1>9, <1>10, CollectStep

LEMMA MarkValueInv == ASSUME IndInv, NEW o \in grey, MarkValue(o) PROVE IndInv'
<1>1. PICK use, own, shown, rank : Shape(use, own, shown, rank) /\ Sound(use, own, shown, rank)
  BY DEF IndInv
<1>2. TypeOK /\ Heap(use, own, shown, rank) /\ Collecting(use, own, shown) /\ Rooted(use)
  BY <1>1 DEF IndInv, Sound
<1>3. /\ phase \in {"mark", "remark"} /\ marked' = marked \cup {o}
      /\ grey' = (grey \cup MarkVal(MarkedFields(o))) \ {o}
      /\ UNCHANGED heapVars /\ UNCHANGED lispVars /\ phase' = phase /\ changed' = changed
      /\ UNCHANGED <<guard, todo, ptr>>
  BY DEF MarkValue
<1>4. marked \cup grey \subseteq use \ Static /\ o \in use /\ o \notin Static /\ use \subseteq Obj /\ Nil \notin use
  BY <1>1, <1>2, CollectorAssumption DEF Collecting, Shape
<1>5. MarkedFields(o) \subseteq {car[o], cdr[o]} /\ MarkedFields(o) \subseteq use \cup {Nil}
  <2>1. MarkedFields(o) \subseteq {car[o], cdr[o]}
    BY DEF MarkedFields
  <2> QED
    BY <1>1, <1>2, <1>4, <2>1, UseClosed
<1>6. /\ marked' \cup grey' = marked \cup grey \cup MarkVal(MarkedFields(o))
      /\ MarkVal(MarkedFields(o)) \subseteq use \ Static
      /\ MarkedFields(o) \subseteq marked' \cup grey' \cup Static \cup {Nil}
  BY <1>3, <1>5 DEF MarkVal
<1>7. TypeOK'
  BY <1>2, <1>3, <1>4, <1>6 DEF TypeOK, heapVars, lispVars
<1>8. Heap(use, own, shown, rank)'
  BY <1>2, <1>3, SameHeap DEF lispVars
<1>9. phase = "mark" =>
        \A x \in marked' : MarkedFields(x)' \subseteq marked' \cup grey' \cup Static \cup {Nil}
  <2>1. \A x : MarkedFields(x)' = MarkedFields(x)
    BY <1>3 DEF MarkedFields, heapVars
  <2> QED
    BY <1>2, <1>3, <1>6, <2>1 DEF Collecting
<1>10. ASSUME phase = "remark" PROVE Traced(own)' /\ grey' \subseteq Plain(use, own)'
  <2>1. o \in Plain(use, own) /\ kind[o] # "guardian" /\ own[o] = Nil /\ kind[o] \in {"pair", "weak"}
    <3>1. kind[o] \in Kinds /\ kind[o] # "subr" /\ kind[o] # "free"
      BY <1>1, <1>2, <1>4, CellFacts DEF TypeOK
    <3> QED
      BY <1>2, <1>10, <3>1 DEF Collecting, Plain, Kinds
  <2>2. StrongFields(o) \subseteq MarkedFields(o) /\ Nil \notin StrongFields(o)
    BY <2>1 DEF StrongFields, Fields, MarkedFields
  <2>3. Plain(use, own)' = Plain(use, own)
    BY <1>3 DEF Plain, heapVars
  <2>4. MarkedFields(o) \subseteq Plain(use, own) \cup {Nil}
    <3>1. car[o] \in Plain(use, own) \cup {Nil} /\ cdr[o] \in Plain(use, own) \cup {Nil}
      BY <1>1, <1>2, <2>1 DEF Heap, Cells, PlainRight
    <3> QED
      BY <1>5, <3>1
  <2>5. grey' \subseteq Plain(use, own)
    BY <1>2, <1>3, <1>10, <2>4 DEF Collecting, MarkVal
  <2>6. \A x \in Kept(own)' : x \in Kept(own) \/ x = o
    <3>1. \A x \in marked : own[x] # o
      <4> TAKE x \in marked
      <4>1. x \in use
        BY <1>4
      <4>2. own[x] # Nil => kind[own[x]] = "guardian"
        BY <1>1, <1>2, <4>1, CellFacts DEF Of
      <4> QED
        BY <1>4, <2>1, <4>2
    <3> QED
      BY <1>3, <3>1 DEF Kept
  <2>7. \A x : StrongFields(x)' = StrongFields(x)
    BY <1>3 DEF StrongFields, Fields, heapVars
  <2>8. Traced(own)
    BY <1>2, <1>10 DEF Collecting
  <2>9. Traced(own)'
    <3> SUFFICES ASSUME NEW x \in Kept(own)' PROVE StrongFields(x) \subseteq marked' \cup grey' \cup Static
      BY <2>7 DEF Traced
    <3>1. CASE x = o
      BY <1>6, <2>2, <3>1
    <3>2. CASE x \in Kept(own)
      BY <1>6, <2>8, <3>2 DEF Traced
    <3> QED
      BY <2>6, <3>1, <3>2
  <2> QED
    BY <2>3, <2>5, <2>9
<1>11. Collecting(use, own, shown)'
  <2>1. phase' = phase /\ phase \in {"mark", "remark"} /\ changed' = {} /\ history' = {}
    BY <1>2, <1>3 DEF Collecting, lispVars
  <2>2. marked' \cup grey' \subseteq use \ Static
    BY <1>4, <1>6
  <2>3. (roots \cup MarkOrigins)' \subseteq marked' \cup grey' \cup Static
    BY <1>2, <1>3, <1>6 DEF Collecting, lispVars, MarkOrigins
  <2> QED
    BY <1>9, <1>10, <2>1, <2>2, <2>3 DEF Collecting
<1>12. Rooted(use)'
  <2> SUFFICES ASSUME NEW Y \in SUBSET use, ClosedSet(Y)'
               PROVE  (marked \cup grey \cup changed)' \subseteq Y
    BY DEF Rooted
  <2>1. ClosedSet(Y)
    BY <1>3, SameClosed DEF lispVars
  <2>2. marked \cup grey \cup changed \subseteq Y
    BY <1>2, <1>3, <2>1 DEF Rooted
  <2>3. MarkedFields(o) \ {Nil} \subseteq StrongFields(o)
    BY DEF MarkedFields, StrongFields, Fields
  <2>4. MarkVal(MarkedFields(o)) \subseteq Y
    BY <2>1, <2>2, <2>3 DEF ClosedSet, MarkVal
  <2> QED
    BY <1>3, <1>6, <2>2, <2>4
<1> QED
  BY <1>1, <1>7, <1>8, <1>11, <1>12, CollectStep

LEMMA MarkDoneInv == ASSUME IndInv, MarkDone PROVE IndInv'
<1>1. PICK use, own, shown, rank : Shape(use, own, shown, rank) /\ Sound(use, own, shown, rank)
  BY DEF IndInv
<1>2. TypeOK /\ Heap(use, own, shown, rank) /\ Collecting(use, own, shown) /\ Rooted(use)
  BY <1>1 DEF IndInv, Sound
<1>3. /\ phase = "mark" /\ grey = {} /\ phase' = "scan" /\ todo' = Of("guardian") /\ guard' = Nil
      /\ changed' = {} /\ UNCHANGED heapVars /\ UNCHANGED lispVars /\ UNCHANGED <<marked, grey, ptr>>
  BY DEF MarkDone
<1>4. marked \subseteq use \ Static /\ use \subseteq Obj /\ Nil \notin use
  BY <1>1, <1>2, CollectorAssumption DEF Collecting, Shape
<1>5. TypeOK'
  BY <1>2, <1>3 DEF TypeOK, Phases, Ref, Of, heapVars, lispVars
<1>6. Heap(use, own, shown, rank)'
  BY <1>2, <1>3, SameHeap DEF lispVars
<1>7. \A o \in marked : MarkedFields(o) \subseteq marked \cup Static \cup {Nil}
  BY <1>2, <1>3 DEF Collecting
<1>8. Scanning(use, own, shown)'
  <2>1. Of("guardian")' = Of("guardian") /\ Plain(use, own)' = Plain(use, own)
    BY <1>3 DEF Of, Plain, heapVars
  <2>2. \A o \in marked \cap Plain(use, own) : kind[o] = "pair" =>
          car[o] \in marked \cup Static \cup {Nil} /\ cdr[o] \in marked \cup Static \cup {Nil}
    BY <1>7 DEF MarkedFields
  <2>3. \A g \in marked \cap Of("guardian") : cdr[g] \in marked \cup {Nil}
    <3> TAKE g \in marked \cap Of("guardian")
    <3>1. kind[g] = "guardian" /\ (cdr[g] # Nil => cdr[g] \notin Static)
      BY <1>1, <1>2, CellFacts
    <3>2. MarkedFields(g) = {cdr[g]}
      BY <3>1 DEF MarkedFields
    <3> QED
      BY <1>7, <3>1, <3>2
  <2>4. ASSUME NEW o \in marked, own[o] \in marked
        PROVE  car[o] \in marked \cup Static /\ cdr[o] \in marked \cup {Nil}
    <3>1. o \in use /\ own[o] # Nil
      BY <1>4, <2>4
    <3>2. kind[o] = "pair" /\ car[o] # Nil /\ (cdr[o] # Nil => cdr[o] \notin Static)
      BY <1>1, <1>2, <1>4, <3>1, CellFacts
    <3>3. MarkedFields(o) = {car[o], cdr[o]}
      BY <3>2 DEF MarkedFields
    <3> QED
      BY <1>7, <3>2, <3>3
  <2> QED
    BY <1>3, <2>1, <2>2, <2>3, <2>4 DEF Scanning, heapVars
<1>9. Collecting(use, own, shown)'
  BY <1>2, <1>3, <1>8 DEF Collecting, lispVars, MarkOrigins
<1>10. Rooted(use)'
  BY <1>2, <1>3, SameClosed DEF Rooted, lispVars
<1> QED
  BY <1>1, <1>5, <1>6, <1>9, <1>10, CollectStep

LEMMA NextGuardianInv == ASSUME IndInv, NEW g \in todo, NextGuardian(g) PROVE IndInv'
<1>1. PICK use, own, shown, rank : Shape(use, own, shown, rank) /\ Sound(use, own, shown, rank)
  BY DEF IndInv
<1>2. TypeOK /\ Heap(use, own, shown, rank) /\ Collecting(use, own, shown) /\ Rooted(use)
  BY <1>1 DEF IndInv, Sound
<1>3. /\ phase = "scan" /\ phase' = "scan" /\ guard = Nil /\ guard' = g /\ ptr' = g /\ todo' = todo \ {g}
      /\ UNCHANGED heapVars /\ UNCHANGED lispVars /\ UNCHANGED <<marked, grey, changed>>
  BY DEF NextGuardian
<1>4. Scanning(use, own, shown)
  BY <1>2, <1>3 DEF Collecting
<1>5. TypeOK'
  BY <1>2, <1>3 DEF TypeOK, Ref, heapVars, lispVars
<1>6. Heap(use, own, shown, rank)'
  BY <1>2, <1>3, SameHeap DEF lispVars
<1>7. Scanning(use, own, shown)'
  <2>1. Of("guardian")' = Of("guardian") /\ Plain(use, own)' = Plain(use, own)
    BY <1>3 DEF Of, Plain, heapVars
  <2>2. g \in Of("guardian") /\ g # Nil
    BY <1>4, CollectorAssumption DEF Scanning, Of
  <2>3. \A h \in marked \cap Of("guardian") :
          /\ cdr[h] \in marked \cup {Nil}
          /\ h \in todo' \/ h = g \/ car[h] \in marked \cup {Nil}
    BY <1>3, <1>4, CollectorAssumption DEF Scanning, Of
  <2>4. \A o \in marked : own[o] \in marked =>
          /\ car[o] \in marked \cup Static \cup changed
          /\ cdr[o] \in marked \cup {Nil}
    BY <1>3, <1>4 DEF Scanning
  <2> QED
    BY <1>3, <1>4, <2>1, <2>2, <2>3, <2>4 DEF Scanning, heapVars
<1>8. Collecting(use, own, shown)'
  BY <1>2, <1>3, <1>7 DEF Collecting, lispVars, MarkOrigins
<1>9. Rooted(use)'
  BY <1>2, <1>3, SameClosed DEF Rooted, lispVars
<1> QED
  BY <1>1, <1>5, <1>6, <1>8, <1>9, CollectStep

LEMMA GuardianDoneInv == ASSUME IndInv, GuardianDone PROVE IndInv'
<1>1. PICK use, own, shown, rank : Shape(use, own, shown, rank) /\ Sound(use, own, shown, rank)
  BY DEF IndInv
<1>2. TypeOK /\ Heap(use, own, shown, rank) /\ Collecting(use, own, shown) /\ Rooted(use)
  BY <1>1 DEF IndInv, Sound
<1>3. /\ phase = "scan" /\ phase' = "scan" /\ guard # Nil /\ Cell = Nil /\ guard' = Nil /\ ptr' = Nil
      /\ todo' = todo
      /\ UNCHANGED heapVars /\ UNCHANGED lispVars /\ UNCHANGED <<marked, grey, changed>>
  BY DEF GuardianDone
<1>4. Scanning(use, own, shown)
  BY <1>2, <1>3 DEF Collecting
<1>5. TypeOK'
  BY <1>2, <1>3 DEF TypeOK, Ref, heapVars, lispVars
<1>6. Heap(use, own, shown, rank)'
  BY <1>2, <1>3, SameHeap DEF lispVars
<1>7. Scanning(use, own, shown)'
  <2>1. Of("guardian")' = Of("guardian") /\ Plain(use, own)' = Plain(use, own)
    BY <1>3 DEF Of, Plain, heapVars
  <2>2. ptr = guard => car[guard] = Nil
    BY <1>3 DEF Cell
  <2>3. ptr # guard => cdr[ptr] = Nil
    BY <1>3 DEF Cell
  <2>4. \A o \in marked : own[o] \in marked => o # guard
    <3>1. guard \in Of("guardian")
      BY <1>3, <1>4 DEF Scanning
    <3>2. own[guard] = Nil /\ Nil \notin marked
      BY <1>1, <1>2, <3>1, CellFacts DEF Collecting
    <3> QED
      BY <3>2
  <2> QED
    BY <1>3, <1>4, <2>1, <2>2, <2>3, <2>4 DEF Scanning, heapVars
<1>8. Collecting(use, own, shown)'
  BY <1>2, <1>3, <1>7 DEF Collecting, lispVars, MarkOrigins
<1>9. Rooted(use)'
  BY <1>2, <1>3, SameClosed DEF Rooted, lispVars
<1> QED
  BY <1>1, <1>5, <1>6, <1>8, <1>9, CollectStep

\* The cell that the scan is at belongs to the guardian it is at.
LEMMA AtCell ==
  ASSUME TypeOK, NEW use, NEW own, NEW shown, NEW rank,
         Shape(use, own, shown, rank), Sound(use, own, shown, rank),
         phase = "scan", guard # Nil, Cell # Nil
  PROVE  /\ guard \in Of("guardian") /\ guard \in use /\ own[guard] = Nil
         /\ Cell \in use /\ own[Cell] = guard /\ Cell \in shown /\ Cell \notin Static
         /\ kind[Cell] = "pair" /\ Cell # guard /\ car[Cell] \in Plain(use, own)
         /\ ptr = guard => car[guard] = Cell
         /\ ptr # guard => /\ ptr \in marked \cap shown /\ own[ptr] = guard /\ cdr[ptr] = Cell /\ ptr \in use
                           /\ kind[ptr] = "pair" /\ rank[Cell] < rank[ptr]
         /\ Cell \in StrongFields(ptr)
<1>1. Scanning(use, own, shown) /\ marked \subseteq use /\ Cells(use, own, shown, rank)
  BY DEF Sound, Collecting, Heap
<1>2. guard \in Of("guardian") /\ guard \in use /\ own[guard] = Nil /\ kind[guard] = "guardian"
  BY <1>1, CellFacts DEF Scanning
<1>3. CASE ptr = guard
  <2>1. Cell = car[guard] /\ Cell \in use /\ own[Cell] = guard /\ Cell \in shown /\ Cell \notin Static
    BY <1>2, <1>3, CellFacts DEF Cell
  <2>2. kind[Cell] = "pair" /\ Cell # guard /\ car[Cell] \in Plain(use, own)
    BY <1>1, <1>2, <2>1 DEF Cells, ListsRight
  <2>3. Cell \in StrongFields(ptr)
    BY <1>2, <1>3, <2>1 DEF StrongFields, Fields
  <2> QED
    BY <1>2, <1>3, <2>1, <2>2, <2>3
<1>4. CASE ptr # guard
  <2>1. ptr \in marked \cap shown /\ own[ptr] = guard /\ ptr \in use /\ Cell = cdr[ptr]
    BY <1>1, <1>4 DEF Scanning, Cell
  <2>2. /\ kind[ptr] = "pair" /\ Cell \in use /\ own[Cell] = guard /\ Cell \in shown /\ rank[Cell] < rank[ptr]
    BY <1>1, <2>1 DEF Cells, ListsRight
  <2>3. kind[Cell] = "pair" /\ Cell # guard /\ car[Cell] \in Plain(use, own)
    BY <1>1, <1>2, <2>2 DEF Cells, ListsRight
  <2>4. Cell \notin Static
    BY <2>2, CellFacts
  <2>5. Cell \in StrongFields(ptr)
    BY <2>1, <2>2 DEF StrongFields, Fields
  <2> QED
    BY <1>2, <1>4, <2>1, <2>2, <2>3, <2>4, <2>5
<1> QED
  BY <1>3, <1>4

LEMMA KeepAccessibleInv == ASSUME IndInv, KeepAccessible PROVE IndInv'
<1>1. PICK use, own, shown, rank : Shape(use, own, shown, rank) /\ Sound(use, own, shown, rank)
  BY DEF IndInv
<1>2. TypeOK /\ Heap(use, own, shown, rank) /\ Collecting(use, own, shown) /\ Rooted(use)
  BY <1>1 DEF IndInv, Sound
<1>3. PICK c : c = Cell
  OBVIOUS
<1>4. /\ phase = "scan" /\ phase' = "scan" /\ guard # Nil /\ Cell # Nil /\ car[c] \in marked
      /\ marked' = marked \cup {c} /\ ptr' = c /\ guard' = guard /\ todo' = todo
      /\ UNCHANGED heapVars /\ UNCHANGED lispVars /\ UNCHANGED <<grey, changed>>
  BY <1>3 DEF KeepAccessible
<1>5. Scanning(use, own, shown)
  BY <1>2, <1>4 DEF Collecting
<1>6. /\ guard \in Of("guardian") /\ guard \in use /\ own[guard] = Nil
      /\ c \in use /\ own[c] = guard /\ c \in shown /\ c \notin Static /\ kind[c] = "pair" /\ c # guard
      /\ ptr = guard => car[guard] = c
      /\ ptr # guard => ptr \in marked /\ cdr[ptr] = c /\ ptr \in use
      /\ c \in StrongFields(ptr)
  BY <1>1, <1>2, <1>3, <1>4, AtCell
<1>7. c \in Obj /\ marked \subseteq use \ Static
  BY <1>1, <1>2, <1>6 DEF Shape, Collecting
<1>8. TypeOK'
  BY <1>2, <1>4, <1>6, <1>7 DEF TypeOK, Ref, heapVars, lispVars
<1>9. Heap(use, own, shown, rank)'
  BY <1>2, <1>4, SameHeap DEF lispVars
<1>10. Scanning(use, own, shown)'
  <2>1. Of("guardian")' = Of("guardian") /\ Plain(use, own)' = Plain(use, own)
    BY <1>4 DEF Of, Plain, heapVars
  <2>2. c \notin Plain(use, own) /\ c \notin Of("guardian") /\ guard \in Obj /\ guard # Nil
    BY <1>4, <1>6 DEF Plain, Of
  <2>3. \A o \in marked' : own[o] \in marked' => own[o] \in marked
    <3> SUFFICES ASSUME NEW o \in marked', own[o] = c PROVE FALSE
      BY <1>4
    <3>1. o \in use
      BY <1>4, <1>6, <1>7
    <3>2. own[o] \in Of("guardian")
      BY <1>1, <1>2, <1>6, <3>1, CellFacts
    <3> QED
      BY <2>2, <3>2
  <2>4. ASSUME NEW o \in marked', own[o] \in marked'
        PROVE  /\ car[o] \in marked' \cup Static \cup changed
               /\ cdr[o] \in marked' \cup {Nil} \/ o = c
    <3>1. CASE o = c
      BY <1>4, <3>1
    <3>2. CASE o # c
      <4>1. o \in marked /\ own[o] \in marked
        BY <1>4, <2>3, <2>4, <3>2
      <4>2. /\ car[o] \in marked \cup Static \cup changed
            /\ cdr[o] \in marked \cup {Nil} \/ o = ptr
        BY <1>5, <4>1 DEF Scanning
      <4>3. o # guard
        BY <1>1, <1>2, <1>6, <4>1, CellFacts DEF Collecting
      <4> QED
        BY <1>4, <1>6, <4>2, <4>3
    <3> QED
      BY <3>1, <3>2
  <2>5. \A o \in (marked \cap Plain(use, own))' : kind[o] = "pair" =>
          car[o] \in marked' \cup Static \cup {Nil} /\ cdr[o] \in marked' \cup Static \cup {Nil}
    BY <1>4, <1>5, <2>1, <2>2 DEF Scanning
  <2>6. \A g \in (marked \cap Of("guardian"))' :
          /\ cdr[g] \in marked' \cup {Nil}
          /\ g \in todo \/ car[g] \in marked' \cup {Nil}
    BY <1>4, <1>5, <1>6, <2>1, <2>2 DEF Scanning
  <2> QED
    BY <1>4, <1>5, <1>6, <2>1, <2>4, <2>5, <2>6 DEF Scanning, heapVars
<1>11. Collecting(use, own, shown)'
  BY <1>2, <1>4, <1>6, <1>10 DEF Collecting, lispVars, MarkOrigins
<1>12. Rooted(use)'
  <2> SUFFICES ASSUME NEW Y \in SUBSET use, ClosedSet(Y)'
               PROVE  (marked \cup grey \cup changed)' \subseteq Y
    BY DEF Rooted
  <2>1. ClosedSet(Y)
    BY <1>4, SameClosed DEF lispVars
  <2>2. marked \cup grey \cup changed \subseteq Y
    BY <1>2, <1>4, <2>1 DEF Rooted
  <2>3. ptr \in Y
    BY <1>6, <2>1, <2>2 DEF ClosedSet, Sources
  <2>4. c \in Y
    BY <1>6, <2>1, <2>3 DEF ClosedSet
  <2> QED
    BY <1>4, <2>2, <2>4
<1> QED
  BY <1>1, <1>8, <1>9, <1>11, <1>12, CollectStep

LEMMA MarkChangedInv == ASSUME IndInv, MarkChanged PROVE IndInv'
<1>1. PICK use, own, shown, rank : Shape(use, own, shown, rank) /\ Sound(use, own, shown, rank)
  BY DEF IndInv
<1>2. TypeOK /\ Heap(use, own, shown, rank) /\ Collecting(use, own, shown) /\ Rooted(use)
  BY <1>1 DEF IndInv, Sound
<1>3. /\ phase = "scan" /\ phase' = "remark" /\ guard = Nil /\ todo = {} /\ grey' = MarkVal(changed)
      /\ changed' = {} /\ UNCHANGED heapVars /\ UNCHANGED lispVars /\ UNCHANGED <<marked, guard, todo, ptr>>
  BY DEF MarkChanged
<1>4. Scanning(use, own, shown) /\ grey = {} /\ marked \subseteq use \ Static
  BY <1>2, <1>3 DEF Collecting
<1>5. grey' \subseteq Plain(use, own) /\ grey' \subseteq changed /\ grey' \cap Static = {}
      /\ changed \subseteq marked \cup grey' \cup Static /\ Plain(use, own) \subseteq use /\ use \subseteq Obj
      /\ Nil \notin use
  BY <1>1, <1>3, <1>4, CollectorAssumption DEF Scanning, MarkVal, Plain, Shape
<1>6. TypeOK'
  BY <1>2, <1>3, <1>5 DEF TypeOK, Phases, heapVars, lispVars
<1>7. Heap(use, own, shown, rank)'
  BY <1>2, <1>3, SameHeap DEF lispVars
<1>8. Plain(use, own)' = Plain(use, own) /\ \A x : StrongFields(x)' = StrongFields(x)
  BY <1>3 DEF Plain, StrongFields, Fields, heapVars
<1>9. Traced(own)'
  <2> SUFFICES ASSUME NEW x \in Kept(own) PROVE StrongFields(x) \subseteq marked \cup grey' \cup Static
    BY <1>3, <1>8 DEF Traced, Kept
  <2>1. x \in marked /\ x \in use /\ x \in Obj /\ x \notin Static /\ own[x] \in marked \cup {Nil} /\ x # Nil
    BY <1>1, <1>4, <1>5 DEF Kept, Shape
  <2>2. CASE own[x] # Nil
    <3>1. own[x] \in marked
      BY <2>1, <2>2
    <3>2. car[x] \in marked \cup Static \cup changed /\ cdr[x] \in marked \cup {Nil}
      BY <1>3, <1>4, <2>1, <3>1 DEF Scanning
    <3> QED
      BY <1>5, <3>2 DEF StrongFields, Fields
  <2>3. CASE kind[x] = "guardian"
    <3>1. x \in Of("guardian")
      BY <2>1, <2>3 DEF Of
    <3>2. car[x] \in marked \cup {Nil} /\ cdr[x] \in marked \cup {Nil}
      BY <1>3, <1>4, <2>1, <3>1 DEF Scanning
    <3> QED
      BY <3>2 DEF StrongFields, Fields
  <2>4. CASE kind[x] = "weak"
    BY <2>4 DEF StrongFields
  <2>5. CASE own[x] = Nil /\ kind[x] = "pair"
    <3>1. x \in Plain(use, own)
      BY <2>1, <2>5 DEF Plain
    <3>2. car[x] \in marked \cup Static \cup {Nil} /\ cdr[x] \in marked \cup Static \cup {Nil}
      BY <1>4, <2>1, <2>5, <3>1 DEF Scanning
    <3> QED
      BY <3>2 DEF StrongFields, Fields
  <2>6. kind[x] \in {"pair", "weak", "guardian"}
    BY <1>1, <1>2, <2>1, CellFacts DEF TypeOK, Kinds
  <2> QED
    BY <2>2, <2>3, <2>4, <2>5, <2>6
<1>10. Collecting(use, own, shown)'
  BY <1>2, <1>3, <1>4, <1>5, <1>8, <1>9 DEF Collecting, lispVars, MarkOrigins
<1>11. Rooted(use)'
  BY <1>2, <1>3, <1>5, SameClosed DEF Rooted, lispVars
<1> QED
  BY <1>1, <1>6, <1>7, <1>10, <1>11, CollectStep

LEMMA RemarkDoneInv == ASSUME IndInv, RemarkDone PROVE IndInv'
<1>1. PICK use, own, shown, rank : Shape(use, own, shown, rank) /\ Sound(use, own, shown, rank)
  BY DEF IndInv
<1>2. TypeOK /\ Heap(use, own, shown, rank) /\ Collecting(use, own, shown) /\ Rooted(use)
  BY <1>1 DEF IndInv, Sound
<1>3. /\ phase = "remark" /\ grey = {} /\ phase' = "weak" /\ UNCHANGED heapVars /\ UNCHANGED lispVars
      /\ UNCHANGED <<marked, grey, guard, todo, ptr, changed>>
  BY DEF RemarkDone
<1>4. TypeOK'
  BY <1>2, <1>3 DEF TypeOK, Phases, heapVars, lispVars
<1>5. Heap(use, own, shown, rank)'
  BY <1>2, <1>3, SameHeap DEF lispVars
<1>6. Traced(own)'
  BY <1>2, <1>3 DEF Collecting, Traced, Kept, StrongFields, Fields, heapVars
<1>7. Collecting(use, own, shown)'
  BY <1>2, <1>3, <1>6 DEF Collecting, lispVars, MarkOrigins
<1>8. Rooted(use)'
  BY <1>2, <1>3, SameClosed DEF Rooted, lispVars
<1> QED
  BY <1>1, <1>4, <1>5, <1>7, <1>8, CollectStep

LEMMA ScanOriginsInv == ASSUME IndInv, ScanOrigins PROVE IndInv'
<1>1. PICK use, own, shown, rank : Shape(use, own, shown, rank) /\ Sound(use, own, shown, rank)
  BY DEF IndInv
<1>2. TypeOK /\ Heap(use, own, shown, rank) /\ Collecting(use, own, shown) /\ Rooted(use)
  BY <1>1 DEF IndInv, Sound
<1>3. /\ phase = "origins" /\ phase' = "sweep" /\ origins' = {e \in origins : e[1] \in marked}
      /\ UNCHANGED heapVars /\ UNCHANGED <<roots, weakRefs, history>>
      /\ UNCHANGED <<marked, grey, guard, todo, ptr, changed>>
  BY DEF ScanOrigins
<1>4. TypeOK'
  BY <1>2, <1>3 DEF TypeOK, Phases, heapVars
<1>5. Heap(use, own, shown, rank)'
  BY <1>2, <1>3, SameHeap
<1>6. Traced(own)'
  BY <1>2, <1>3 DEF Collecting, Traced, Kept, StrongFields, Fields, heapVars
<1>7. Collecting(use, own, shown)'
  <2>1. MarkOrigins' \subseteq MarkOrigins
    BY <1>3 DEF MarkOrigins
  <2>2. Of("weak")' = Of("weak")
    BY <1>3 DEF Of, heapVars
  <2> QED
    BY <1>2, <1>3, <1>6, <2>1, <2>2 DEF Collecting, heapVars
<1>8. Rooted(use)'
  BY <1>3 DEF Rooted
<1> QED
  BY <1>1, <1>4, <1>5, <1>7, <1>8, CollectStep

LEMMA ScanWeakRefsInv == ASSUME IndInv, ScanWeakRefs PROVE IndInv'
<1>1. PICK use, own, shown, rank : Shape(use, own, shown, rank) /\ Sound(use, own, shown, rank)
  BY DEF IndInv
<1>2. TypeOK /\ Cells(use, own, shown, rank) /\ TablesRight(use, own) /\ Collecting(use, own, shown) /\ Rooted(use)
  BY <1>1 DEF IndInv, Sound, Heap
<1>3. /\ phase = "weak" /\ phase' = "origins" /\ weakRefs' = weakRefs \cap marked /\ car' = ClearedWeak
      /\ UNCHANGED <<kind, cdr, roots, origins, history, marked, grey, guard, todo, ptr, changed>>
  BY DEF ScanWeakRefs
<1>4. \A o \in Obj : car'[o] = IF o \in weakRefs \cap marked /\ car[o] \notin marked THEN Nil ELSE car[o]
  BY <1>3 DEF ClearedWeak
<1>5. \A o \in Obj : kind[o] # "weak" => car'[o] = car[o]
  BY <1>2, <1>4 DEF TablesRight, Of
<1>6. /\ Plain(use, own)' = Plain(use, own) /\ Held(use, own)' = Held(use, own)
      /\ Of("guardian")' = Of("guardian") /\ Of("weak")' = Of("weak") /\ Allocated' = Allocated
      /\ use \subseteq Obj
  BY <1>1, <1>3 DEF Plain, Held, Of, Allocated, Shape
<1>7. \A x \in Obj : StrongFields(x)' = StrongFields(x)
  BY <1>3, <1>5 DEF StrongFields, Fields
<1>8. TypeOK'
  <2>1. car' \in [Obj -> Ref]
    BY <1>2, <1>3 DEF ClearedWeak, TypeOK, Ref
  <2> QED
    BY <1>2, <1>3, <2>1 DEF TypeOK, Phases
<1>9. Cells(use, own, shown, rank)'
  <2>1. StaticRight'
    BY <1>2, <1>3, <1>4 DEF Cells, StaticRight
  <2>2. GuardiansRight(use, own, shown)'
    <3>1. \A g \in Of("guardian") : car'[g] = car[g]
      BY <1>5 DEF Of
    <3> QED
      BY <1>2, <1>3, <1>6, <3>1 DEF Cells, GuardiansRight
  <2>3. ListsRight(use, own, shown, rank)'
    <3>1. \A o \in use : own[o] # Nil => car'[o] = car[o]
      BY <1>2, <1>5, <1>6 DEF Cells, ListsRight
    <3> QED
      BY <1>2, <1>3, <1>6, <3>1 DEF Cells, ListsRight
  <2>4. PlainRight(use, own)'
    <3>1. \A o \in Plain(use, own) : car'[o] \in {car[o], Nil}
      BY <1>4, <1>6 DEF Plain
    <3> QED
      BY <1>2, <1>3, <1>6, <3>1 DEF Cells, PlainRight
  <2>5. Linked(use, own, shown)'
    <3>1. \A o \in use : own[o] # Nil => car'[own[o]] = car[own[o]]
      BY <1>2, <1>5 DEF Cells, ListsRight, Of
    <3> QED
      BY <1>2, <1>3, <3>1 DEF Cells, Linked
  <2> QED
    BY <1>2, <1>6, <2>1, <2>2, <2>3, <2>4, <2>5 DEF Cells
<1>10. TablesRight(use, own)'
  <2>1. \A w \in weakRefs : car'[w] \in Static => "static" \in LispOps
    <3> TAKE w \in weakRefs
    <3>1. w \in Obj /\ Nil \notin Static
      BY <1>2, CollectorAssumption DEF TypeOK
    <3> QED
      BY <1>2, <1>4, <3>1 DEF TablesRight
  <2> QED
    BY <1>2, <1>3, <1>6, <2>1 DEF TablesRight
<1>11. marked \subseteq use /\ marked \subseteq Obj /\ grey = {}
  BY <1>2, <1>3, <1>6 DEF Collecting
<1>12. Traced(own)'
  <2>1. \A x \in Kept(own) : x \in Obj
    BY <1>11 DEF Kept
  <2> QED
    BY <1>2, <1>3, <1>7, <2>1 DEF Collecting, Traced, Kept
<1>13. \A w \in marked \cap Of("weak") : w \in weakRefs' /\ car'[w] \in marked \cup {Nil}
  <2> TAKE w \in marked \cap Of("weak")
  <2>1. w \in weakRefs \cap marked
    BY <1>2, <1>3, <1>11 DEF TablesRight
  <2> QED
    BY <1>3, <1>4, <1>11, <2>1
<1>14. Collecting(use, own, shown)'
  BY <1>2, <1>3, <1>6, <1>12, <1>13 DEF Collecting, MarkOrigins
<1>15. Rooted(use)'
  <2> SUFFICES ASSUME NEW Y \in SUBSET use, ClosedSet(Y)'
               PROVE  (marked \cup grey \cup changed)' \subseteq Y
    BY DEF Rooted
  <2>1. ClosedSet(Y)
    <3>1. Sources' = Sources
      BY <1>3, <1>6 DEF Sources, MarkOrigins
    <3>2. \A x \in Y : x \in Obj
      BY <1>6
    <3> QED
      BY <1>7, <3>1, <3>2 DEF ClosedSet
  <2> QED
    BY <1>2, <1>3, <2>1 DEF Rooted
<1> QED
  BY <1>1, <1>8, <1>9, <1>10, <1>14, <1>15, CollectStep DEF Heap

\* rep_run_guardians() moves the cell c of the guardian g from behind p to the list of
\* inaccessible objects.
Moves(g, p, c) ==
  /\ guard = g /\ ptr = p /\ Cell = c /\ c # Nil /\ g # Nil /\ phase = "scan" /\ car[c] \notin marked
  /\ MoveInaccessible

LEMMA MoveEffect ==
  ASSUME TypeOK, NEW use, NEW own, NEW shown, NEW rank,
         Shape(use, own, shown, rank), Sound(use, own, shown, rank),
         NEW g, NEW p, NEW c, Moves(g, p, c)
  PROVE  /\ g \in Of("guardian") /\ g \in use /\ own[g] = Nil /\ g \in Obj
         /\ c \in use /\ own[c] = g /\ c \in shown /\ c \notin Static /\ c \in Obj
         /\ kind[c] = "pair" /\ c # g /\ car[c] \in Plain(use, own)
         /\ p = g => car[g] = c
         /\ p # g => /\ p \in marked \cap shown /\ own[p] = g /\ cdr[p] = c /\ p \in use /\ p \in Obj
                     /\ kind[p] = "pair" /\ rank[c] < rank[p] /\ p # c
         /\ \A x \in Obj \ {g} : car'[x] = car[x]
         /\ \A x \in Obj \ {g, c, p} : cdr'[x] = cdr[x]
         /\ car'[g] = IF p = g THEN cdr[c] ELSE car[g]
         /\ cdr'[g] = c /\ cdr'[c] = cdr[g]
         /\ p # g => cdr'[p] = cdr[c]
         /\ changed' = changed \cup {car[c]} /\ marked' = marked \cup {c}
         /\ UNCHANGED kind /\ UNCHANGED lispVars /\ UNCHANGED <<phase, grey, guard, todo, ptr>>
<1>1. /\ g \in Of("guardian") /\ g \in use /\ own[g] = Nil
      /\ c \in use /\ own[c] = g /\ c \in shown /\ c \notin Static
      /\ kind[c] = "pair" /\ c # g /\ car[c] \in Plain(use, own)
      /\ p = g => car[g] = c
      /\ p # g => /\ p \in marked \cap shown /\ own[p] = g /\ cdr[p] = c /\ p \in use
                  /\ kind[p] = "pair" /\ rank[c] < rank[p]
  BY AtCell DEF Moves
<1>2. g \in Obj /\ c \in Obj /\ (p # g => p \in Obj) /\ rank[c] \in Nat
  BY <1>1 DEF Shape
<1>3. p # c
  BY <1>1, <1>2
<1>4. /\ car' = IF p = g THEN [car EXCEPT ![g] = cdr[c]] ELSE car
      /\ cdr' = IF p = g THEN [cdr EXCEPT ![c] = cdr[g], ![g] = c]
                ELSE [cdr EXCEPT ![p] = cdr[c], ![c] = cdr[g], ![g] = c]
      /\ changed' = changed \cup {car[c]} /\ marked' = marked \cup {c}
      /\ UNCHANGED kind /\ UNCHANGED lispVars /\ UNCHANGED <<phase, grey, guard, todo, ptr>>
  BY DEF Moves, MoveInaccessible
<1>5. /\ \A x \in Obj \ {g} : car'[x] = car[x]
      /\ car'[g] = IF p = g THEN cdr[c] ELSE car[g]
  BY <1>2, <1>4 DEF TypeOK
<1>6. /\ \A x \in Obj \ {g, c, p} : cdr'[x] = cdr[x]
      /\ cdr'[g] = c /\ cdr'[c] = cdr[g]
      /\ p # g => cdr'[p] = cdr[c]
  BY <1>1, <1>2, <1>3, <1>4 DEF TypeOK
<1> QED
  BY <1>1, <1>2, <1>3, <1>4, <1>5, <1>6

LEMMA MoveCells ==
  ASSUME TypeOK, NEW use, NEW own, NEW shown, NEW rank,
         Shape(use, own, shown, rank), Sound(use, own, shown, rank),
         NEW g, NEW p, NEW c, Moves(g, p, c)
  PROVE  \E shown2, rank2 :
           /\ shown2 = shown \ {c}
           /\ Shape(use, own, shown2, rank2)
           /\ Cells(use, own, shown2, rank2)'
<1>1. /\ g \in Of("guardian") /\ g \in use /\ own[g] = Nil /\ g \in Obj
      /\ c \in use /\ own[c] = g /\ c \in shown /\ c \notin Static /\ c \in Obj
      /\ kind[c] = "pair" /\ c # g /\ car[c] \in Plain(use, own)
      /\ p = g => car[g] = c
      /\ p # g => /\ p \in marked \cap shown /\ own[p] = g /\ cdr[p] = c /\ p \in use /\ p \in Obj
                  /\ kind[p] = "pair" /\ rank[c] < rank[p] /\ p # c
  BY MoveEffect
<1>2. /\ \A x \in Obj \ {g} : car'[x] = car[x]
      /\ \A x \in Obj \ {g, c, p} : cdr'[x] = cdr[x]
      /\ car'[g] = IF p = g THEN cdr[c] ELSE car[g]
      /\ cdr'[g] = c /\ cdr'[c] = cdr[g]
      /\ p # g => cdr'[p] = cdr[c]
      /\ kind' = kind
  BY MoveEffect
<1>3. Cells(use, own, shown, rank) /\ use \subseteq Obj /\ \A x \in Obj : rank[x] \in Nat
  BY DEF Sound, Heap, Shape
<1>4. /\ Plain(use, own)' = Plain(use, own) /\ Held(use, own)' = Held(use, own)
      /\ Of("guardian")' = Of("guardian") /\ Allocated' = Allocated
  BY <1>2 DEF Plain, Held, Of, Allocated
<1>5. PICK shown2, rank2 :
        /\ shown2 = shown \ {c}
        /\ rank2 = [rank EXCEPT ![c] = IF cdr[g] = Nil THEN 0 ELSE rank[cdr[g]] + 1]
  OBVIOUS
<1>6. /\ cdr[g] # Nil => /\ cdr[g] \in use /\ own[cdr[g]] = g /\ cdr[g] \notin shown /\ cdr[g] # c
      /\ car[g] # Nil => car[g] \in use /\ own[car[g]] = g /\ car[g] \in shown
  BY <1>1, <1>3 DEF Cells, GuardiansRight
<1>7. /\ \A x \in Obj \ {c} : rank2[x] = rank[x]
      /\ cdr[g] # Nil => rank2[c] = rank[cdr[g]] + 1
      /\ rank2 \in [Obj -> Nat]
  <2>1. (IF cdr[g] = Nil THEN 0 ELSE rank[cdr[g]] + 1) \in Nat
    BY <1>3, <1>6
  <2> QED
    BY <1>1, <1>5, <2>1 DEF Shape
<1>8. Shape(use, own, shown2, rank2)
  BY <1>5, <1>7 DEF Shape
<1>9. cdr[c] # Nil => /\ cdr[c] \in use /\ own[cdr[c]] = g /\ cdr[c] \in shown /\ cdr[c] # c
                      /\ rank[cdr[c]] < rank[c]
  <2>1. cdr[c] # Nil => /\ cdr[c] \in use /\ own[cdr[c]] = g /\ cdr[c] \in shown
                        /\ rank[cdr[c]] < rank[c]
    BY <1>1, <1>3, CollectorAssumption DEF Cells, ListsRight
  <2> QED
    BY <1>1, <1>3, <2>1
\* p is the only one that refers to c
<1>10. \A x \in use : own[x] # Nil /\ cdr[x] = c => x = p /\ p # g
  <2> SUFFICES ASSUME NEW x \in use, own[x] # Nil, cdr[x] = c PROVE x = p /\ p # g
    OBVIOUS
  <2>1. c # Nil
    BY DEF Moves
  <2>2. own[x] = g /\ x \in shown
    BY <1>1, <1>3, <2>1 DEF Cells, ListsRight
  <2>3. c # car[g] /\ \A y \in use : own[y] # Nil /\ cdr[y] = c => y = x
    BY <1>3, <2>1, <2>2 DEF Cells, Linked
  <2>4. p # g /\ own[p] # Nil /\ p \in use /\ cdr[p] = c
    BY <1>1, <2>2, <2>3
  <2> QED
    BY <2>3, <2>4
<1>11. \A x \in use : own[x] # Nil => x # g /\ x \in Obj
  BY <1>1, <1>3
<1>12. StaticRight'
  <2>1. \A x \in Static : x # g /\ x # c /\ (p # g => x # p) /\ x # p
    <3>1. \A x \in Static : kind[x] = "subr"
      BY <1>3, CollectorAssumption DEF Cells, StaticRight
    <3>2. kind[g] = "guardian"
      BY <1>1 DEF Of
    <3> QED
      BY <1>1, <3>1, <3>2
  <2>2. \A x \in Obj : kind[x] = "weak" => x # g /\ x # c /\ x # p
    BY <1>1 DEF Of
  <2> SUFFICES ASSUME NEW x \in Obj
               PROVE  /\ x \in Static <=> kind'[x] = "subr"
                      /\ x \in Static => car'[x] = Nil /\ cdr'[x] = Nil
                      /\ kind'[x] = "weak" => cdr'[x] = Nil
    BY DEF StaticRight
  <2>3. /\ x \in Static <=> kind[x] = "subr"
        /\ x \in Static => car[x] = Nil /\ cdr[x] = Nil
        /\ kind[x] = "weak" => cdr[x] = Nil
    BY <1>3 DEF Cells, StaticRight
  <2> QED
    BY <1>2, <2>1, <2>2, <2>3
<1>13. GuardiansRight(use, own, shown2)'
  <2> SUFFICES ASSUME NEW h \in Of("guardian")
               PROVE  /\ h \in Held(use, own)
                      /\ car'[h] # Nil => car'[h] \in use /\ own[car'[h]] = h /\ car'[h] \in shown2
                      /\ cdr'[h] # Nil => cdr'[h] \in use /\ own[cdr'[h]] = h /\ cdr'[h] \notin shown2
    BY <1>4 DEF GuardiansRight
  <2>1. /\ h \in Held(use, own) /\ h \in Obj /\ kind[h] = "guardian"
        /\ car[h] # Nil => car[h] \in use /\ own[car[h]] = h /\ car[h] \in shown
        /\ cdr[h] # Nil => cdr[h] \in use /\ own[cdr[h]] = h /\ cdr[h] \notin shown
    BY <1>3 DEF Cells, GuardiansRight, Of
  <2>2. CASE h = g
    <3>1. cdr'[g] = c /\ c \in use /\ own[c] = g /\ c \notin shown2
      BY <1>1, <1>2, <1>5
    <3>2. CASE p = g
      BY <1>2, <1>5, <1>9, <2>1, <2>2, <3>1, <3>2
    <3>3. CASE p # g
      <4>1. car[g] # c
        <5>1. p \in use \cap shown /\ own[p] = g /\ cdr[p] = c /\ c # Nil /\ g # Nil
          BY <1>1, <3>3 DEF Moves
        <5> QED
          BY <1>3, <5>1 DEF Cells, Linked
      <4> QED
        BY <1>2, <1>5, <2>1, <2>2, <3>1, <3>3, <4>1
    <3> QED
      BY <3>2, <3>3
  <2>3. CASE h # g
    <3>1. h # c /\ h # p
      BY <1>1, <2>1, <2>3
    <3>2. car'[h] = car[h] /\ cdr'[h] = cdr[h]
      BY <1>2, <2>1, <2>3, <3>1
    <3> QED
      BY <1>1, <1>5, <2>1, <2>3, <3>2
  <2> QED
    BY <2>2, <2>3
<1>14. ListsRight(use, own, shown2, rank2)'
  <2> SUFFICES ASSUME NEW x \in use, own[x] # Nil
               PROVE  /\ kind[x] = "pair"
                      /\ own[x] \in Of("guardian")
                      /\ car'[x] \in Plain(use, own)
                      /\ car'[x] \in Static => "static" \in LispOps
                      /\ cdr'[x] # Nil => /\ cdr'[x] \in use
                                          /\ own[cdr'[x]] = own[x]
                                          /\ cdr'[x] \in shown2 <=> x \in shown2
                                          /\ rank2[cdr'[x]] < rank2[x]
    BY <1>2, <1>4 DEF ListsRight
  <2>1. /\ kind[x] = "pair"
        /\ own[x] \in Of("guardian")
        /\ car[x] \in Plain(use, own)
        /\ car[x] \in Static => "static" \in LispOps
        /\ cdr[x] # Nil => /\ cdr[x] \in use
                           /\ own[cdr[x]] = own[x]
                           /\ cdr[x] \in shown <=> x \in shown
                           /\ rank[cdr[x]] < rank[x]
    BY <1>3 DEF Cells, ListsRight
  <2>2. x # g /\ x \in Obj /\ car'[x] = car[x]
    BY <1>2, <1>11
  <2>3. CASE x = c
    <3>1. cdr'[x] = cdr[g] /\ x \notin shown2 /\ own[x] = g
      BY <1>1, <1>2, <1>5, <2>3
    <3>2. cdr[g] # Nil => rank2[cdr[g]] < rank2[c] /\ cdr[g] \notin shown2
      <4>1. cdr[g] # Nil => cdr[g] \in Obj \ {c} /\ rank[cdr[g]] \in Nat
        BY <1>3, <1>6
      <4> QED
        BY <1>5, <1>6, <1>7, <4>1
    <3> QED
      BY <1>6, <2>1, <2>2, <2>3, <3>1, <3>2
  <2>4. CASE x = p /\ x # c
    <3>1. cdr'[x] = cdr[c] /\ own[x] = g /\ x \in shown2 /\ rank[c] < rank[x]
      BY <1>1, <1>2, <1>5, <2>2, <2>4
    <3>2. rank2[x] = rank[x] /\ rank[c] \in Nat /\ rank[x] \in Nat
      BY <1>1, <1>3, <1>7, <2>2, <2>4
    <3>3. cdr[c] # Nil => rank2[cdr[c]] = rank[cdr[c]] /\ rank[cdr[c]] \in Nat
      BY <1>3, <1>7, <1>9
    <3>4. cdr[c] # Nil => rank2[cdr[c]] < rank2[x] /\ cdr[c] \in shown2
      BY <1>5, <1>9, <3>1, <3>2, <3>3
    <3> QED
      BY <1>9, <2>1, <2>2, <3>1, <3>4
  <2>5. CASE x # p /\ x # c
    <3>1. cdr'[x] = cdr[x] /\ cdr[x] # c /\ rank2[x] = rank[x]
      BY <1>2, <1>7, <1>10, <2>2, <2>5
    <3>2. cdr[x] # Nil => rank2[cdr[x]] = rank[cdr[x]]
      BY <1>3, <1>7, <2>1, <3>1
    <3> QED
      BY <1>5, <2>1, <2>2, <2>5, <3>1, <3>2
  <2> QED
    BY <2>3, <2>4, <2>5
<1>15. PlainRight(use, own)'
  <2>1. \A x \in Plain(use, own) : x \in Obj \ {g, c, p}
    BY <1>1, <1>3 DEF Plain, Of, Moves
  <2> QED
    BY <1>2, <1>3, <1>4, <2>1 DEF Cells, PlainRight
<1>16. Linked(use, own, shown2)'
  <2> SUFFICES ASSUME NEW x \in use \cap shown2, own[x] # Nil, cdr'[x] # Nil
               PROVE  /\ cdr'[x] # car'[own[x]]
                      /\ \A y \in use : own[y] # Nil /\ cdr'[y] = cdr'[x] => y = x
    BY DEF Linked
  <2>1. x # c /\ x \in use \cap shown /\ x # g /\ x \in Obj
    BY <1>5, <1>11
  <2>2. \A y \in use \cap shown : own[y] # Nil /\ cdr[y] # Nil =>
          cdr[y] # car[own[y]] /\ \A z \in use : own[z] # Nil /\ cdr[z] = cdr[y] => z = y
    BY <1>3 DEF Cells, Linked
  <2>3. \A y \in use : own[y] # Nil /\ cdr[y] # Nil => own[cdr[y]] = own[y] /\ (cdr[y] \in shown <=> y \in shown)
    BY <1>3 DEF Cells, ListsRight
  <2>4. g # Nil
    BY DEF Moves
  <2>5. CASE x = p
    <3>1. p # g /\ cdr'[x] = cdr[c] /\ cdr[c] # Nil /\ own[x] = g /\ car'[g] = car[g]
      BY <1>1, <1>2, <2>1, <2>5
    <3>2. cdr[c] # car[g] /\ \A z \in use : own[z] # Nil /\ cdr[z] = cdr[c] => z = c
      BY <1>1, <2>2, <2>4, <3>1
    <3>3. ASSUME NEW y \in use, own[y] # Nil, cdr'[y] = cdr'[x] PROVE y = x
      <4>1. CASE y = c
        BY <1>2, <1>6, <1>9, <3>1, <3>3, <4>1
      <4>2. CASE y # c /\ y # p
        <5>1. cdr'[y] = cdr[y]
          BY <1>2, <1>11, <3>3, <4>2
        <5> QED
          BY <3>1, <3>2, <3>3, <4>2, <5>1
      <4> QED
        BY <2>5, <4>1, <4>2
    <3> QED
      BY <3>1, <3>2, <3>3
  <2>6. CASE x # p
    <3>1. cdr'[x] = cdr[x] /\ cdr[x] # Nil
      BY <1>2, <2>1, <2>6
    <3>2. cdr[x] # car[own[x]] /\ \A z \in use : own[z] # Nil /\ cdr[z] = cdr[x] => z = x
      BY <2>1, <2>2, <3>1
    <3>3. cdr[x] \in shown /\ own[cdr[x]] = own[x]
      BY <2>1, <2>3, <3>1
    <3>4. cdr[x] # cdr[c]
      BY <1>1, <2>1, <2>4, <3>2
    <3>5. cdr'[x] # car'[own[x]]
      <4>1. CASE own[x] = g
        BY <1>2, <3>1, <3>2, <3>4, <4>1
      <4>2. CASE own[x] # g
        <5>1. own[x] \in Obj
          BY <1>3, <2>1 DEF Cells, ListsRight, Of
        <5> QED
          BY <1>2, <3>1, <3>2, <4>2, <5>1
      <4> QED
        BY <4>1, <4>2
    <3>6. ASSUME NEW y \in use, own[y] # Nil, cdr'[y] = cdr'[x] PROVE y = x
      <4>1. y # c
        BY <1>2, <1>6, <3>1, <3>3, <3>6
      <4>2. y # p
        BY <1>1, <1>2, <3>1, <3>4, <3>6, <1>11
      <4>3. cdr'[y] = cdr[y]
        BY <1>2, <1>11, <3>6, <4>1, <4>2
      <4> QED
        BY <3>1, <3>2, <3>6, <4>3
    <3> QED
      BY <3>5, <3>6
  <2> QED
    BY <2>5, <2>6
<1>17. Cells(use, own, shown2, rank2)'
  BY <1>3, <1>4, <1>12, <1>13, <1>14, <1>15, <1>16 DEF Cells
<1> QED
  BY <1>5, <1>8, <1>17

\* Moving a cell changes nothing about what the collector's sources lead to.
LEMMA MoveRooted ==
  ASSUME TypeOK, NEW use, NEW own, NEW shown, NEW rank,
         Shape(use, own, shown, rank), Sound(use, own, shown, rank),
         NEW g, NEW p, NEW c, Moves(g, p, c)
  PROVE  Rooted(use)'
<1> SUFFICES ASSUME NEW Y \in SUBSET use, ClosedSet(Y)'
             PROVE  (marked \cup grey \cup changed)' \subseteq Y
  BY DEF Rooted
<1>1. /\ g \in Of("guardian") /\ g \in use /\ own[g] = Nil /\ g \in Obj
      /\ c \in use /\ own[c] = g /\ c \in shown /\ c \in Obj
      /\ kind[c] = "pair" /\ c # g
      /\ p = g => car[g] = c
      /\ p # g => /\ p \in marked \cap shown /\ own[p] = g /\ cdr[p] = c /\ p \in use /\ p \in Obj
                  /\ kind[p] = "pair" /\ rank[c] < rank[p] /\ p # c
  BY MoveEffect
<1>2. /\ \A x \in Obj \ {g} : car'[x] = car[x]
      /\ \A x \in Obj \ {g, c, p} : cdr'[x] = cdr[x]
      /\ car'[g] = IF p = g THEN cdr[c] ELSE car[g]
      /\ cdr'[g] = c /\ cdr'[c] = cdr[g]
      /\ p # g => cdr'[p] = cdr[c]
      /\ kind' = kind
      /\ changed' = changed \cup {car[c]} /\ marked' = marked \cup {c} /\ grey' = grey
      /\ UNCHANGED lispVars
  BY MoveEffect
<1>3. kind[g] = "guardian" /\ use \subseteq Obj /\ c # Nil /\ g # Nil /\ Nil \notin use
  BY <1>1, CollectorAssumption DEF Of, Shape, Moves
<1>4. Sources' = Sources /\ Sources \subseteq Y /\ g \in Y
  BY <1>1, <1>2 DEF Sources, MarkOrigins, Of, lispVars, ClosedSet
<1>5. \A x \in Y : StrongFields(x)' \subseteq Y
  BY DEF ClosedSet
<1>6. \A x \in Y : kind[x] # "weak" =>
        (car'[x] # Nil => car'[x] \in Y) /\ (cdr'[x] # Nil => cdr'[x] \in Y)
  BY <1>2, <1>5 DEF StrongFields, Fields
<1>7. c \in Y /\ (cdr[g] # Nil => cdr[g] \in Y) /\ (car[c] # Nil => car[c] \in Y)
  <2>1. c \in Y
    BY <1>2, <1>3, <1>4, <1>6
  <2> QED
    BY <1>1, <1>2, <1>6, <2>1
\* fields of the cells of Y as they were
<1>8. ASSUME NEW x \in Y, NEW f \in StrongFields(x), x # c
      PROVE  f \in Y
  <2>1. x \in Obj /\ kind[x] # "weak" /\ f # Nil /\ (f = car[x] \/ f = cdr[x])
    BY <1>3 DEF StrongFields, Fields
  <2>2. CASE x = g
    BY <1>1, <1>2, <1>4, <1>6, <1>7, <2>1, <2>2
  <2>3. CASE x # g /\ x = p
    BY <1>1, <1>2, <1>6, <1>7, <2>1, <2>3
  <2>4. CASE x # g /\ x # p
    BY <1>2, <1>6, <1>8, <2>1, <2>4
  <2> QED
    BY <2>2, <2>3, <2>4
<1>9. Cells(use, own, shown, rank) /\ Rooted(use) /\ phase = "scan"
  BY DEF Sound, Heap, Moves
<1>10. p # g => p \in Y
  <2> SUFFICES ASSUME p # g PROVE p \in Y
    OBVIOUS
  <2> DEFINE X == {o \in use : ~(own[o] = g /\ o \in shown /\ rank[o] >= rank[p])}
             Z == Y \cup X
  <2>1. \A o \in use : own[o] = g /\ o \in shown /\ rank[o] >= rank[p] => o \notin X
    OBVIOUS
  <2>2. rank[c] \in Nat /\ rank[p] \in Nat
    BY <1>1 DEF Shape
  <2>3. ASSUME NEW x \in Z, NEW f \in StrongFields(x) PROVE f \in Z
    <3>1. CASE x \in Y /\ x # c
      BY <1>8, <3>1
    <3>2. CASE x = c
      <4>1. f # Nil /\ (f = car[c] \/ f = cdr[c])
        BY <3>2 DEF StrongFields, Fields
      <4>2. CASE f = car[c]
        BY <1>7, <4>1, <4>2
      <4>3. CASE f = cdr[c]
        <5>1. f \in use /\ rank[f] < rank[c] /\ rank[f] \in Nat
          <6>1. f \in use /\ rank[f] < rank[c]
            BY <1>1, <1>3, <1>9, <4>1, <4>3 DEF Cells, ListsRight
          <6> QED
            BY <1>3, <6>1 DEF Shape
        <5>2. ~(rank[f] >= rank[p])
          BY <1>1, <2>2, <5>1
        <5> QED
          BY <5>1, <5>2
      <4> QED
        BY <4>1, <4>2, <4>3
    <3>3. CASE x \in X /\ x \notin Y
      <4>1. x \in use /\ f # Nil /\ (f = car[x] \/ f = cdr[x]) /\ x # g
        BY <1>4, <3>3 DEF StrongFields, Fields
      <4>2. f \in use
        BY <4>1, UseClosed
      <4>3. SUFFICES ASSUME own[f] = g, f \in shown, rank[f] >= rank[p] PROVE FALSE
        BY <4>2
      <4>4. kind[x] # "guardian"
        <5>1. SUFFICES ASSUME x \in Of("guardian") PROVE FALSE
          BY <1>3, <4>1 DEF Of
        <5>2. own[f] = x
          BY <4>1, <5>1, CellFacts
        <5> QED
          BY <4>1, <4>3, <5>2
      <4>5. own[x] # Nil
        BY <1>3, <4>1, <4>3, <4>4, CellFacts
      <4>6. f = cdr[x] /\ own[x] = g /\ x \in shown /\ rank[f] < rank[x]
        <5>1. f = cdr[x]
          BY <1>3, <4>1, <4>3, <4>5, CellFacts
        <5> QED
          BY <1>9, <4>1, <4>3, <4>5, <5>1 DEF Cells, ListsRight
      <4>7. rank[x] \in Nat /\ rank[f] \in Nat
        BY <1>3, <4>1, <4>2 DEF Shape
      <4>8. rank[x] >= rank[p]
        BY <2>2, <4>3, <4>6, <4>7
      <4> QED
        BY <3>3, <4>1, <4>6, <4>8
    <3> QED
      BY <1>7, <3>1, <3>2, <3>3
  <2>4. Z \in SUBSET use
    OBVIOUS
  <2>5. ClosedSet(Z)
    <3> HIDE DEF Z
    <3>1. \A x \in Z : StrongFields(x) \subseteq Z
      BY <2>3
    <3>2. Sources \subseteq Z
      BY <1>4 DEF Z
    <3> QED
      BY <3>1, <3>2 DEF ClosedSet
  <2>6. marked \subseteq Z
    <3> HIDE DEF Z
    <3> QED
      BY <1>9, <2>4, <2>5 DEF Rooted
  <2>7. p \in Z /\ p \notin X
    BY <1>1, <2>1, <2>2, <2>6
  <2> QED
    BY <2>7
<1>11. ClosedSet(Y)
  <2>1. ASSUME NEW f \in StrongFields(c) PROVE f \in Y
    <3>1. f # Nil /\ (f = car[c] \/ f = cdr[c])
      BY DEF StrongFields, Fields
    <3>2. cdr[c] # Nil => cdr[c] \in Y
      <4>1. CASE p = g
        BY <1>2, <1>3, <1>4, <1>6, <4>1
      <4>2. CASE p # g
        BY <1>1, <1>2, <1>6, <1>10, <4>2
      <4> QED
        BY <4>1, <4>2
    <3> QED
      BY <1>7, <3>1, <3>2
  <2>2. \A x \in Y : StrongFields(x) \subseteq Y
    BY <1>8, <2>1
  <2> QED
    BY <1>4, <2>2 DEF ClosedSet
<1>12. marked \cup grey \cup changed \subseteq Y
  BY <1>9, <1>11 DEF Rooted
<1>13. car[c] # Nil
  BY <1>1, <1>3, CellFacts
<1> QED
  BY <1>2, <1>7, <1>12, <1>13

LEMMA MoveInaccessibleInv == ASSUME IndInv, MoveInaccessible PROVE IndInv'
<1>1. PICK use, own, shown, rank : Shape(use, own, shown, rank) /\ Sound(use, own, shown, rank)
  BY DEF IndInv
<1>2. TypeOK /\ TablesRight(use, own) /\ Collecting(use, own, shown) /\ Rooted(use)
  BY <1>1 DEF IndInv, Sound, Heap
<1>3. PICK g, p, c : Moves(g, p, c)
  BY DEF MoveInaccessible, Moves
<1>4. /\ g \in Of("guardian") /\ g \in use /\ own[g] = Nil /\ g \in Obj
      /\ c \in use /\ own[c] = g /\ c \in shown /\ c \notin Static /\ c \in Obj
      /\ kind[c] = "pair" /\ c # g /\ car[c] \in Plain(use, own)
      /\ p = g => car[g] = c
      /\ p # g => p \in marked \cap shown /\ own[p] = g /\ p \in use /\ p \in Obj /\ kind[p] = "pair" /\ p # c
  BY <1>1, <1>2, <1>3, MoveEffect
<1>5. /\ \A x \in Obj \ {g} : car'[x] = car[x]
      /\ \A x \in Obj \ {g, c, p} : cdr'[x] = cdr[x]
      /\ car'[g] = IF p = g THEN cdr[c] ELSE car[g]
      /\ cdr'[g] = c /\ cdr'[c] = cdr[g]
      /\ kind' = kind
      /\ changed' = changed \cup {car[c]} /\ marked' = marked \cup {c}
      /\ UNCHANGED lispVars /\ UNCHANGED <<phase, grey, guard, todo, ptr>>
  BY <1>1, <1>2, <1>3, MoveEffect
<1>6. guard = g /\ ptr = p /\ phase = "scan" /\ c # Nil /\ g # Nil
  BY <1>3 DEF Moves
<1>7. PICK shown2, rank2 :
        shown2 = shown \ {c} /\ Shape(use, own, shown2, rank2) /\ Cells(use, own, shown2, rank2)'
  BY <1>1, <1>2, <1>3, MoveCells
<1>8. /\ Plain(use, own)' = Plain(use, own) /\ Held(use, own)' = Held(use, own)
      /\ Of("guardian")' = Of("guardian") /\ Of("weak")' = Of("weak")
      /\ use \subseteq Obj /\ marked \subseteq use \ Static /\ Plain(use, own) \subseteq Obj
  BY <1>1, <1>2, <1>5 DEF Plain, Held, Of, Shape, Collecting
<1>9. TypeOK'
  <2>1. car' \in [Obj -> Ref] /\ cdr' \in [Obj -> Ref]
    <3>1. /\ car' = IF ptr = guard THEN [car EXCEPT ![guard] = cdr[c]] ELSE car
          /\ cdr' = IF ptr = guard THEN [cdr EXCEPT ![c] = cdr[guard], ![guard] = c]
                    ELSE [cdr EXCEPT ![ptr] = cdr[c], ![c] = cdr[guard], ![guard] = c]
      BY <1>3 DEF MoveInaccessible, Moves
    <3>2. cdr[c] \in Ref /\ cdr[guard] \in Ref /\ c \in Ref
      BY <1>2, <1>4, <1>6 DEF TypeOK, Ref
    <3> QED
      BY <1>2, <3>1, <3>2 DEF TypeOK
  <2>2. changed' \subseteq Obj /\ marked' \subseteq Obj \ Static
    BY <1>2, <1>4, <1>5, <1>8 DEF TypeOK
  <2> QED
    BY <1>2, <1>5, <2>1, <2>2 DEF TypeOK, lispVars
<1>10. TablesRight(use, own)'
  <2>1. \A w \in weakRefs : car'[w] = car[w]
    BY <1>2, <1>4, <1>5 DEF TablesRight, Of
  <2> QED
    BY <1>2, <1>5, <1>8, <2>1 DEF TablesRight, lispVars
<1>11. Scanning(use, own, shown2)'
  <2>1. Scanning(use, own, shown)
    BY <1>2, <1>6 DEF Collecting
  <2>2. todo \subseteq Of("guardian") /\ g \in Of("guardian") \ todo
        /\ (p = g \/ (p \in marked' \cap shown2 /\ own[p] = g))
    BY <1>4, <1>5, <1>6, <1>7, <2>1 DEF Scanning
  <2>3. changed' \subseteq Plain(use, own)
    BY <1>4, <1>5, <2>1 DEF Scanning
  <2>4. \A o \in marked' \cap Plain(use, own) : kind[o] = "pair" =>
          car'[o] \in marked' \cup Static \cup {Nil} /\ cdr'[o] \in marked' \cup Static \cup {Nil}
    <3> SUFFICES ASSUME NEW o \in marked' \cap Plain(use, own), kind[o] = "pair"
                 PROVE  car'[o] \in marked' \cup Static \cup {Nil} /\ cdr'[o] \in marked' \cup Static \cup {Nil}
      OBVIOUS
    <3>1. o \in marked /\ o \in Obj \ {g, c, p}
      BY <1>4, <1>5, <1>6, <1>8 DEF Plain, Of
    <3>2. car[o] \in marked \cup Static \cup {Nil} /\ cdr[o] \in marked \cup Static \cup {Nil}
      BY <2>1, <3>1 DEF Scanning
    <3> QED
      BY <1>5, <3>1, <3>2
  <2>5. \A h \in marked' \cap Of("guardian") :
          /\ cdr'[h] \in marked' \cup {Nil}
          /\ h \in todo \/ (h = g /\ p = g) \/ car'[h] \in marked' \cup {Nil}
    <3> TAKE h \in marked' \cap Of("guardian")
    <3>1. h \in Obj /\ kind[h] = "guardian" /\ h # c /\ h \in marked /\ (h # g => h # p)
      BY <1>4, <1>5 DEF Of
    <3>2. /\ cdr[h] \in marked \cup {Nil}
          /\ h \in todo \/ (h = g /\ p = g) \/ car[h] \in marked \cup {Nil}
      BY <1>6, <2>1, <3>1 DEF Scanning
    <3>3. CASE h = g
      BY <1>5, <3>2, <3>3
    <3>4. CASE h # g
      BY <1>5, <3>1, <3>2, <3>4
    <3> QED
      BY <3>3, <3>4
  <2>6. \A o \in marked' : own[o] \in marked' =>
          /\ car'[o] \in marked' \cup Static \cup changed'
          /\ cdr'[o] \in marked' \cup {Nil} \/ o = p
    <3> SUFFICES ASSUME NEW o \in marked', own[o] \in marked'
                 PROVE  /\ car'[o] \in marked' \cup Static \cup changed'
                        /\ cdr'[o] \in marked' \cup {Nil} \/ o = p
      OBVIOUS
    <3>1. o \in use /\ own[o] # Nil
      BY <1>4, <1>5, <1>6, <1>8, CollectorAssumption
    <3>2. own[o] \in Of("guardian") /\ own[o] \in marked /\ o # g /\ car'[o] = car[o]
      <4>1. own[o] \in Of("guardian")
        BY <1>1, <1>2, <3>1, CellFacts
      <4> QED
        BY <1>4, <1>5, <1>8, <3>1, <4>1 DEF Of
    <3>3. CASE o = c
      <4>1. cdr[g] \in marked \cup {Nil}
        BY <1>4, <2>1, <3>2, <3>3 DEF Scanning
      <4> QED
        BY <1>5, <3>2, <3>3, <4>1
    <3>4. CASE o # c /\ o # p
      <4>1. o \in marked /\ cdr'[o] = cdr[o]
        BY <1>5, <1>8, <3>1, <3>2, <3>4
      <4>2. car[o] \in marked \cup Static \cup changed /\ cdr[o] \in marked \cup {Nil}
        BY <1>6, <2>1, <3>2, <3>4, <4>1 DEF Scanning
      <4> QED
        BY <1>5, <3>2, <4>1, <4>2
    <3>5. CASE o # c /\ o = p
      <4>1. o \in marked
        BY <1>5, <3>5
      <4>2. car[o] \in marked \cup Static \cup changed
        BY <2>1, <3>2, <4>1 DEF Scanning
      <4> QED
        BY <1>5, <3>2, <3>5, <4>2
    <3> QED
      BY <3>3, <3>4, <3>5
  <2> QED
    BY <1>5, <1>6, <1>8, <2>2, <2>3, <2>4, <2>5, <2>6 DEF Scanning
<1>12. Collecting(use, own, shown2)'
  BY <1>2, <1>4, <1>5, <1>6, <1>11 DEF Collecting, lispVars, MarkOrigins
<1>13. Rooted(use)'
  BY <1>1, <1>2, <1>3, MoveRooted
<1>14. Heap(use, own, shown2, rank2)'
  BY <1>7, <1>10 DEF Heap
<1> QED
  BY <1>7, <1>9, <1>12, <1>13, <1>14, CollectStep

LEMMA SweepInv == ASSUME IndInv, Sweep PROVE IndInv'
<1>1. PICK use, own, shown, rank : Shape(use, own, shown, rank) /\ Sound(use, own, shown, rank)
  BY DEF IndInv
<1>2. TypeOK /\ Cells(use, own, shown, rank) /\ TablesRight(use, own) /\ Collecting(use, own, shown)
  BY <1>1 DEF IndInv, Sound, Heap
<1>3. /\ phase = "sweep" /\ phase' = "idle" /\ marked' = {}
      /\ UNCHANGED lispVars /\ UNCHANGED <<grey, guard, todo, ptr, changed>>
      /\ \A o \in Obj : /\ kind'[o] = IF o \in marked \cup Static THEN kind[o] ELSE "free"
                        /\ car'[o] = IF o \in marked THEN car[o] ELSE Nil
                        /\ cdr'[o] = IF o \in marked THEN cdr[o] ELSE Nil
  BY DEF Sweep
<1>4. PICK use2 : use2 = Kept(own) \cup Static
  OBVIOUS
<1>5. /\ marked \subseteq use \ Static /\ grey = {} /\ changed = {} /\ use \subseteq Obj /\ Nil \notin use
      /\ history = {} /\ roots \cup MarkOrigins \subseteq marked \cup Static
      /\ weakRefs \subseteq marked /\ \A e \in origins : e[1] \in marked
      /\ \A w \in marked \cap Of("weak") : w \in weakRefs /\ car[w] \in marked \cup {Nil}
  BY <1>1, <1>2, <1>3, CollectorAssumption DEF Collecting, Shape
<1>6. \A o \in Kept(own) : StrongFields(o) \subseteq marked \cup Static
  BY <1>2, <1>3, <1>5 DEF Collecting, Traced
<1>7. \A o \in Kept(own) : o \in marked /\ o \in use /\ o \in Obj /\ o \notin Static /\ own[o] \in marked \cup {Nil}
  BY <1>5 DEF Kept
<1>8. \A o \in Static : own[o] = Nil /\ o \in Obj /\ o \notin marked /\ kind[o] = "subr" /\ o \in use
  BY <1>1, <1>2, <1>5, CellFacts, CollectorAssumption
<1>9. \A o \in marked : kind'[o] = kind[o] /\ car'[o] = car[o] /\ cdr'[o] = cdr[o] /\ o \in Obj /\ o \in use
  BY <1>3, <1>5
<1>10. \A o \in Static : kind'[o] = "subr" /\ car'[o] = Nil /\ cdr'[o] = Nil
  BY <1>3, <1>8
<1>11. use2 \subseteq use /\ use2 \subseteq Obj
  BY <1>4, <1>5, <1>7, <1>8
\* a field of a kept cell refers to a kept or a static cell
<1>12. \A o \in marked \cup Static : own[o] \in marked \cup {Nil} => o \in use2
  BY <1>4 DEF Kept
<1>13. \A o \in marked \cup Static : own[o] = Nil /\ kind[o] # "guardian" => o \in Plain(use2, own)'
  BY <1>8, <1>9, <1>10, <1>12 DEF Plain
<1>14. Shape(use2, own, shown, rank)
  BY <1>1, <1>11 DEF Shape
<1>15. Static \subseteq use2 /\ use2 \subseteq Allocated' /\ \A o \in Static : own[o] = Nil
  <2>1. \A o \in Kept(own) : kind'[o] # "free"
    BY <1>1, <1>2, <1>7, <1>9, CellFacts
  <2> QED
    BY <1>4, <1>8, <1>10, <1>11, <2>1 DEF Allocated
<1>16. StaticRight'
  <2> SUFFICES ASSUME NEW x \in Obj
               PROVE  /\ x \in Static <=> kind'[x] = "subr"
                      /\ x \in Static => car'[x] = Nil /\ cdr'[x] = Nil
                      /\ kind'[x] = "weak" => cdr'[x] = Nil
    BY DEF StaticRight
  <2>1. /\ x \in Static <=> kind[x] = "subr"
        /\ kind[x] = "weak" => cdr[x] = Nil
    BY <1>2 DEF Cells, StaticRight
  <2> QED
    BY <1>3, <1>10, <2>1
<1>17. \A h \in Of("guardian")' : h \in marked /\ h \in Of("guardian") /\ h \in Kept(own)
  <2> TAKE h \in Of("guardian")'
  <2>1. h \in Obj /\ kind'[h] = "guardian"
    BY DEF Of
  <2>2. h \in marked
    BY <1>3, <1>10, <2>1
  <2>3. h \in Of("guardian")
    BY <1>9, <2>1, <2>2 DEF Of
  <2> QED
    BY <1>1, <1>2, <2>2, <2>3, CellFacts DEF Kept
<1>18. GuardiansRight(use2, own, shown)'
  <2> SUFFICES ASSUME NEW h \in Of("guardian")'
               PROVE  /\ h \in Held(use2, own)
                      /\ car'[h] # Nil => car'[h] \in use2 /\ own[car'[h]] = h /\ car'[h] \in shown
                      /\ cdr'[h] # Nil => cdr'[h] \in use2 /\ own[cdr'[h]] = h /\ cdr'[h] \notin shown
    BY DEF GuardiansRight, Held
  <2>1. h \in marked /\ h \in Of("guardian") /\ h \in Kept(own)
    BY <1>17
  <2>2. /\ own[h] = Nil /\ kind[h] = "guardian"
        /\ car[h] # Nil => own[car[h]] = h /\ car[h] \in shown
        /\ cdr[h] # Nil => own[cdr[h]] = h /\ cdr[h] \notin shown
    BY <1>1, <1>2, <2>1, CellFacts
  <2>3. (car[h] # Nil => car[h] \in marked \cup Static) /\ (cdr[h] # Nil => cdr[h] \in marked \cup Static)
    BY <1>6, <2>1, <2>2 DEF StrongFields, Fields
  <2>4. (car[h] # Nil => car[h] \in use2) /\ (cdr[h] # Nil => cdr[h] \in use2)
    BY <1>12, <2>1, <2>2, <2>3
  <2> QED
    BY <1>4, <1>9, <2>1, <2>2, <2>4 DEF Held
<1>19. \A x \in use2 : own[x] # Nil => /\ x \in Kept(own) /\ own[x] \in marked /\ kind[x] = "pair"
                                       /\ own[x] \in Of("guardian")
  <2> TAKE x \in use2
  <2> HAVE own[x] # Nil
  <2>1. x \in Kept(own) /\ own[x] \in marked
    BY <1>4, <1>7, <1>8
  <2> QED
    BY <1>1, <1>2, <1>7, <2>1, CellFacts
<1>20. ListsRight(use2, own, shown, rank)'
  <2> SUFFICES ASSUME NEW x \in use2, own[x] # Nil
               PROVE  /\ kind'[x] = "pair"
                      /\ own[x] \in Of("guardian")'
                      /\ car'[x] \in Plain(use2, own)'
                      /\ car'[x] \in Static => "static" \in LispOps
                      /\ cdr'[x] # Nil => /\ cdr'[x] \in use2
                                          /\ own[cdr'[x]] = own[x]
                                          /\ cdr'[x] \in shown <=> x \in shown
                                          /\ rank[cdr'[x]] < rank[x]
    BY DEF ListsRight
  <2>1. x \in Kept(own) /\ own[x] \in marked /\ kind[x] = "pair" /\ own[x] \in Of("guardian")
        /\ x \in marked /\ x \in use
    BY <1>7, <1>19
  <2>2. /\ car[x] \in Plain(use, own)
        /\ car[x] \in Static => "static" \in LispOps
        /\ cdr[x] # Nil => /\ cdr[x] \in use
                           /\ own[cdr[x]] = own[x]
                           /\ cdr[x] \in shown <=> x \in shown
                           /\ rank[cdr[x]] < rank[x]
    BY <1>2, <2>1 DEF Cells, ListsRight
  <2>3. car[x] # Nil /\ own[car[x]] = Nil /\ kind[car[x]] # "guardian"
    BY <1>5, <2>2 DEF Plain
  <2>4. car[x] \in marked \cup Static /\ (cdr[x] # Nil => cdr[x] \in marked \cup Static)
    BY <1>6, <2>1, <2>3 DEF StrongFields, Fields
  <2>5. car[x] \in Plain(use2, own)' /\ (cdr[x] # Nil => cdr[x] \in use2)
    BY <1>12, <1>13, <2>1, <2>2, <2>3, <2>4
  <2>6. own[x] \in Of("guardian")'
    BY <1>9, <2>1 DEF Of
  <2> QED
    BY <1>9, <2>1, <2>2, <2>5, <2>6
<1>21. Linked(use2, own, shown)'
  <2> SUFFICES ASSUME NEW x \in use2 \cap shown, own[x] # Nil, cdr'[x] # Nil
               PROVE  /\ cdr'[x] # car'[own[x]]
                      /\ \A y \in use2 : own[y] # Nil /\ cdr'[y] = cdr'[x] => y = x
    BY DEF Linked
  <2>1. \A y \in use2 : own[y] # Nil => y \in use /\ cdr'[y] = cdr[y] /\ car'[own[y]] = car[own[y]]
    BY <1>7, <1>9, <1>19
  <2> QED
    BY <1>2, <2>1 DEF Cells, Linked
<1>22. PlainRight(use2, own)'
  <2> SUFFICES ASSUME NEW x \in Plain(use2, own)'
               PROVE  car'[x] \in Plain(use2, own)' \cup {Nil} /\ cdr'[x] \in Plain(use2, own)' \cup {Nil}
    BY DEF PlainRight
  <2>1. x \in use2 /\ own[x] = Nil /\ kind'[x] # "guardian"
    BY DEF Plain
  <2>2. CASE x \in Static
    BY <1>10, <2>2
  <2>3. CASE x \in Kept(own)
    <3>1. /\ x \in marked /\ x \in use /\ x \in Obj /\ kind[x] # "guardian"
          /\ car'[x] = car[x] /\ cdr'[x] = cdr[x] /\ x \notin Static
      BY <1>7, <1>9, <2>1, <2>3
    <3>2. /\ car[x] # Nil => own[car[x]] = Nil /\ kind[car[x]] # "guardian"
          /\ cdr[x] # Nil => own[cdr[x]] = Nil /\ kind[cdr[x]] # "guardian"
      BY <1>1, <1>2, <2>1, <3>1, CellFacts
    <3>3. (car[x] # Nil => car[x] \in marked \cup Static) /\ (cdr[x] # Nil => cdr[x] \in marked \cup Static)
      <4>1. CASE kind[x] # "weak"
        BY <1>6, <2>3, <4>1 DEF StrongFields, Fields
      <4>2. CASE kind[x] = "weak"
        <5>1. x \in Of("weak") /\ cdr[x] = Nil
          BY <1>1, <1>2, <3>1, <4>2, CellFacts DEF Of
        <5> QED
          BY <1>5, <3>1, <5>1
      <4> QED
        BY <4>1, <4>2
    <3> QED
      BY <1>13, <3>1, <3>2, <3>3
  <2> QED
    BY <1>4, <2>1, <2>2, <2>3
<1>23. Cells(use2, own, shown, rank)'
  BY <1>15, <1>16, <1>18, <1>20, <1>21, <1>22 DEF Cells
<1>24. TablesRight(use2, own)'
  <2>1. Held(use, own) \cap (marked \cup Static) \subseteq Held(use2, own)
    BY <1>12 DEF Held
  <2>2. roots \subseteq Held(use2, own)
    BY <1>2, <1>5, <2>1 DEF TablesRight
  <2>3. weakRefs \subseteq Held(use2, own) \cap Of("weak")'
    BY <1>2, <1>5, <1>9, <2>1 DEF TablesRight, Of
  <2>4. \A w \in weakRefs : car'[w] \in Static => "static" \in LispOps
    BY <1>2, <1>5, <1>9 DEF TablesRight
  <2>5. \A e \in origins \cup history : e[1] \in Held(use2, own) /\ e[2] \in Held(use2, own)
    <3> TAKE e \in origins \cup history
    <3>1. e \in origins /\ e[1] \in Held(use, own) /\ e[2] \in Held(use, own) /\ e[1] \in marked
      BY <1>2, <1>5 DEF TablesRight
    <3>2. e[2] \in marked \cup Static
      BY <1>5, <3>1 DEF MarkOrigins
    <3> QED
      BY <2>1, <3>1, <3>2
  <2>6. use2 \cap Of("weak")' \subseteq weakRefs
    <3> SUFFICES ASSUME NEW x \in use2, kind'[x] = "weak" PROVE x \in weakRefs
      BY DEF Of
    <3>1. x \in Kept(own)
      BY <1>4, <1>10
    <3>2. x \in marked \cap Of("weak")
      BY <1>7, <1>9, <3>1 DEF Of
    <3> QED
      BY <1>5, <3>2
  <2> QED
    BY <1>3, <2>2, <2>3, <2>4, <2>5, <2>6 DEF TablesRight, Held, lispVars
<1>25. TypeOK'
  <2>1. kind' \in [Obj -> Kinds] /\ car' \in [Obj -> Ref] /\ cdr' \in [Obj -> Ref]
    <3>1. /\ kind' = [o \in Obj |-> IF o \in marked \cup Static THEN kind[o] ELSE "free"]
          /\ car' = [o \in Obj |-> IF o \in marked THEN car[o] ELSE Nil]
          /\ cdr' = [o \in Obj |-> IF o \in marked THEN cdr[o] ELSE Nil]
      BY DEF Sweep
    <3> QED
      BY <1>2, <3>1 DEF TypeOK, Kinds, Ref
  <2> QED
    BY <1>2, <1>3, <2>1 DEF TypeOK, Phases, lispVars
<1>26. Collecting(use2, own, shown)' /\ Rooted(use2)'
  BY <1>3, <1>5 DEF Collecting, Rooted
<1>27. Heap(use2, own, shown, rank)'
  BY <1>23, <1>24 DEF Heap
<1> QED
  BY <1>14, <1>25, <1>26, <1>27, CollectStep

LEMMA CollectionInv == ASSUME IndInv, Collection PROVE IndInv'
<1>1. CASE GarbageCollect
  BY <1>1, GarbageCollectInv
<1>2. ASSUME NEW o \in grey, MarkValue(o) PROVE IndInv'
  BY <1>2, MarkValueInv
<1>3. CASE MarkDone
  BY <1>3, MarkDoneInv
<1>4. ASSUME NEW g \in todo, NextGuardian(g) PROVE IndInv'
  BY <1>4, NextGuardianInv
<1>5. CASE GuardianDone \/ KeepAccessible \/ MoveInaccessible
  BY <1>5, GuardianDoneInv, KeepAccessibleInv, MoveInaccessibleInv
<1>6. CASE MarkChanged \/ RemarkDone
  BY <1>6, MarkChangedInv, RemarkDoneInv
<1>7. CASE ScanWeakRefs \/ ScanOrigins \/ Sweep
  BY <1>7, ScanWeakRefsInv, ScanOriginsInv, SweepInv
<1> QED
  BY <1>1, <1>2, <1>3, <1>4, <1>5, <1>6, <1>7 DEF Collection

\* A step that changes nothing keeps the invariant.
LEMMA StutterInv == ASSUME IndInv, UNCHANGED vars PROVE IndInv'
<1>1. PICK use, own, shown, rank : Shape(use, own, shown, rank) /\ Sound(use, own, shown, rank)
  BY DEF IndInv
<1>2. TypeOK /\ Heap(use, own, shown, rank) /\ Collecting(use, own, shown) /\ Rooted(use)
  BY <1>1 DEF IndInv, Sound
<1>3. UNCHANGED heapVars /\ UNCHANGED lispVars /\ UNCHANGED gcVars
  BY DEF vars
<1>4. TypeOK'
  BY <1>2, <1>3 DEF TypeOK, heapVars, lispVars, gcVars
<1>5. Heap(use, own, shown, rank)'
  BY <1>2, <1>3, SameHeap DEF lispVars, gcVars
<1>6. Collecting(use, own, shown)'
  BY <1>2, <1>3
  DEF Collecting, Scanning, Traced, Kept, StrongFields, Fields, MarkedFields, MarkOrigins, Plain, Of,
      heapVars, lispVars, gcVars
<1>7. Rooted(use)'
  BY <1>2, <1>3, SameClosed DEF Rooted, lispVars, gcVars
<1> QED
  BY <1>1, <1>4, <1>5, <1>6, <1>7, CollectStep

LEMMA Inductive == ASSUME NoNest PROVE Spec => []IndInv
<1>1. Init => IndInv
  BY InitInv
<1>2. IndInv /\ [Next]_vars => IndInv'
  BY ProgramInv, CollectionInv, StutterInv DEF Next
<1> QED
  BY <1>1, <1>2, PTL DEF Spec

(* The type invariant, at every point of every collection.  That the scan of   *)
(* a guardian's list meets only pairs rests on the whole invariant.             *)
THEOREM TypeCorrect == ASSUME NoNest PROVE Spec => []TypeOK
<1>1. IndInv => TypeOK
  BY DEF IndInv
<1> QED
  BY <1>1, Inductive, PTL

(* The collector frees nothing that can still be used, for a heap of any size  *)
(* and any number of collections: what is in use is closed under all fields,   *)
(* and after the sweep the kept and the static cells are such a set.            *)
THEOREM NothingDangles == ASSUME NoNest PROVE Spec => []NoDangling
<1>1. ASSUME IndInv PROVE NoDangling
  <2> SUFFICES ASSUME phase = "idle" PROVE Usable \subseteq Allocated
    BY DEF NoDangling
  <2>1. PICK use, own, shown, rank : Shape(use, own, shown, rank) /\ Sound(use, own, shown, rank)
    BY <1>1 DEF IndInv
  <2>2. TypeOK /\ TablesRight(use, own) /\ use \subseteq Allocated /\ use \subseteq Obj
    BY <1>1, <2>1 DEF IndInv, Sound, Heap, Cells, Shape
  <2> DEFINE B == roots \cup weakRefs \cup UNION {{e[1], e[2]} : e \in origins \cup history}
  <2>3. B \subseteq use /\ B \in SUBSET Obj
    BY <2>2 DEF TablesRight, Held
  <2>4. \A o \in use \cap Obj : Fields(o) \subseteq use
    BY <2>1, <2>2, UseClosed
  <2>5. Usable = Reach(B, Fields)
    BY DEF Usable
  <2> HIDE DEF B
  <2>6. Reach(B, Fields) \subseteq use
    BY <2>2, <2>3, <2>4, FieldsLeast DEF TypeOK
  <2> QED
    BY <2>2, <2>5, <2>6
<1> QED
  BY <1>1, Inductive, PTL

(* No garbage is kept: what is marked when the scans are done is referred to   *)
(* by the program, by the file of an origin or by some guardian, although      *)
(* rep_run_guardians() relinks the guardians' lists while it follows them.      *)
THEOREM GarbageGone == ASSUME NoNest PROVE Spec => []GarbageFreed
<1>1. ASSUME IndInv PROVE GarbageFreed
  <2> DEFINE B == roots \cup Of("guardian") \cup {e[2] : e \in origins}
             R == Reach(B, StrongFields)
  <2> SUFFICES ASSUME phase = "origins" PROVE marked \subseteq R
    BY DEF GarbageFreed
  <2>1. PICK use, own, shown, rank : Shape(use, own, shown, rank) /\ Sound(use, own, shown, rank)
    BY <1>1 DEF IndInv
  <2>2. TypeOK /\ TablesRight(use, own) /\ Rooted(use) /\ use \subseteq Obj /\ Of("guardian") \subseteq use
    BY <1>1, <2>1, CellFacts DEF IndInv, Sound, Heap, Shape
  <2>3. B = Sources /\ B \subseteq use /\ B \in SUBSET Obj
    BY <2>2 DEF Sources, MarkOrigins, TablesRight, Held
  <2> HIDE DEF B
  <2>4. B \subseteq R /\ R \subseteq Obj /\ \A o \in R : StrongFields(o) \subseteq R
    BY <2>2, <2>3, StrongClosed DEF TypeOK
  <2> HIDE DEF R
  <2>5. \A o \in use : StrongFields(o) \subseteq use
    BY <2>1, <2>2, UseClosed DEF StrongFields
  <2>6. PICK Y \in SUBSET use : Y = R \cap use
    OBVIOUS
  <2>7. ClosedSet(Y)
    BY <2>3, <2>4, <2>5, <2>6 DEF ClosedSet
  <2> QED
    BY <2>2, <2>6, <2>7 DEF Rooted
<1> QED
  BY <1>1, Inductive, PTL

\* What a guardian's scan finds unmarked is not accessible to the program.
LEMMA MovedGone ==
  ASSUME "static" \notin LispOps, IndInv, MoveInaccessible
  PROVE  car[Cell] \notin Accessible
<1>1. PICK use, own, shown, rank : Shape(use, own, shown, rank) /\ Sound(use, own, shown, rank)
  BY DEF IndInv
<1>2. TypeOK /\ TablesRight(use, own) /\ Collecting(use, own, shown) /\ Cells(use, own, shown, rank)
  BY <1>1 DEF IndInv, Sound, Heap
<1>3. phase = "scan" /\ guard # Nil /\ Cell # Nil /\ car[Cell] \notin marked
  BY DEF MoveInaccessible
<1>4. Scanning(use, own, shown) /\ grey = {} /\ roots \subseteq marked \cup Static /\ marked \subseteq use
  BY <1>2, <1>3 DEF Collecting
<1>5. Cell \in use /\ own[Cell] = guard
  BY <1>1, <1>2, <1>3, AtCell
<1>6. car[Cell] \notin Static
  BY <1>2, <1>3, <1>5 DEF Cells, ListsRight
<1>7. PICK Y : Y = {o \in marked : own[o] = Nil} \cup Static
  OBVIOUS
<1>8. roots \subseteq Y /\ roots \in SUBSET Obj
  BY <1>2, <1>4, <1>7 DEF TablesRight, Held, TypeOK
<1>9. \A o \in Y \cap Obj : PairFields(o) \subseteq Y
  <2> SUFFICES ASSUME NEW o \in Y, o \in Obj, kind[o] = "pair" PROVE Fields(o) \subseteq Y
    BY DEF PairFields
  <2>1. o \in marked /\ own[o] = Nil /\ o \in use
    BY <1>1, <1>2, <1>4, <1>7, CellFacts
  <2>2. o \in Plain(use, own)
    BY <2>1 DEF Plain
  <2>3. car[o] \in marked \cup Static \cup {Nil} /\ cdr[o] \in marked \cup Static \cup {Nil}
    BY <1>4, <2>1, <2>2 DEF Scanning
  <2>4. (car[o] # Nil => own[car[o]] = Nil) /\ (cdr[o] # Nil => own[cdr[o]] = Nil)
    BY <1>1, <1>2, <2>1, CellFacts
  <2> QED
    BY <1>7, <2>3, <2>4 DEF Fields
<1>10. Accessible \subseteq Y
  BY <1>2, <1>8, <1>9, PairLeast DEF Accessible, TypeOK
<1> QED
  BY <1>3, <1>6, <1>7, <1>10

\* What a weak reference is cleared of is not referred to by anything that stays.
LEMMA ClearedGone ==
  ASSUME "static" \notin LispOps, IndInv, [Next]_vars, phase # "idle", kind' = kind,
         NEW w \in weakRefs, car'[w] # car[w]
  PROVE  car[w] \notin Reach(roots \cup (Of("guardian") \cap marked), StrongFields)
<1>1. PICK use, own, shown, rank : Shape(use, own, shown, rank) /\ Sound(use, own, shown, rank)
  BY DEF IndInv
<1>2. TypeOK /\ TablesRight(use, own) /\ Collecting(use, own, shown) /\ Cells(use, own, shown, rank)
  BY <1>1 DEF IndInv, Sound, Heap
<1>3. w \in Obj /\ kind[w] = "weak" /\ car' # car
  BY <1>2 DEF TablesRight, Of, TypeOK
<1>4. ~Program
  BY DEF Program, Cons, Car, WeakRef, GuardianPop, DropRoot, SetCar, MakeWeak, WeakSet, MakeGuardian,
         GuardianPush, RecordOrigin, Macroexpand, Lisp
<1>5. ~MoveInaccessible
  <2> SUFFICES ASSUME MoveInaccessible PROVE FALSE
    OBVIOUS
  <2>1. guard \in Of("guardian")
    <3>1. phase = "scan" /\ guard # Nil /\ Cell # Nil
      BY DEF MoveInaccessible
    <3> QED
      BY <1>1, <1>2, <3>1, AtCell
  <2>2. w # guard
    BY <1>3, <2>1 DEF Of
  <2> QED
    BY <1>2, <1>3, <2>2 DEF MoveInaccessible, TypeOK
<1>6. ~Sweep
  <2> SUFFICES ASSUME Sweep PROVE FALSE
    OBVIOUS
  <2>1. w \in marked
    BY <1>2 DEF Sweep, Collecting
  <2> QED
    BY <1>3, <2>1 DEF Sweep
<1>7. ScanWeakRefs
  <2>1. ~UNCHANGED vars
    BY <1>3 DEF vars, heapVars
  <2>2. Collection
    BY <1>4, <2>1 DEF Next
  <2> QED
    BY <1>3, <1>5, <1>6, <2>2
    DEF Collection, GarbageCollect, MarkValue, MarkDone, NextGuardian, GuardianDone, KeepAccessible,
        MarkChanged, RemarkDone, ScanOrigins, heapVars
<1>8. w \in marked /\ car[w] \notin marked /\ phase = "weak"
  BY <1>3, <1>7 DEF ScanWeakRefs, ClearedWeak
<1>9. car[w] \notin Static
  BY <1>2 DEF TablesRight
<1>10. grey = {} /\ Traced(own) /\ roots \subseteq marked \cup Static /\ marked \subseteq use /\ marked \cap Static = {}
  BY <1>2, <1>8 DEF Collecting
<1>11. PICK Y : Y = Kept(own) \cup Static
  OBVIOUS
<1>12. PICK B \in SUBSET Obj : B = roots \cup (Of("guardian") \cap marked)
  BY <1>2 DEF TypeOK, Of
<1>13. B \subseteq Y
  <2>1. \A o \in Of("guardian") : own[o] = Nil
    BY <1>1, <1>2, CellFacts
  <2> QED
    BY <1>2, <1>10, <1>11, <1>12, <2>1 DEF Kept, TablesRight, Held
<1>14. \A o \in Y \cap Obj : StrongFields(o) \subseteq Y
  <2> SUFFICES ASSUME NEW o \in Y, o \in Obj, NEW f \in StrongFields(o) PROVE f \in Y
    OBVIOUS
  <2>1. f # Nil /\ (f = car[o] \/ f = cdr[o])
    BY DEF StrongFields, Fields
  <2>2. o \in Kept(own) /\ o \in marked /\ o \in use /\ o \in Obj
    <3>1. o \notin Static
      BY <1>1, <1>2, <2>1, CellFacts
    <3> QED
      BY <1>10, <1>11, <3>1 DEF Kept
  <2>3. f \in marked \cup Static
    BY <1>10, <2>2 DEF Traced
  <2>4. own[f] \in {Nil, o, own[o]}
    <3>1. CASE kind[o] = "guardian"
      <4>1. o \in Of("guardian")
        BY <2>2, <3>1 DEF Of
      <4> QED
        BY <1>1, <1>2, <2>1, <4>1, CellFacts
    <3>2. CASE own[o] # Nil
      BY <1>1, <1>2, <2>1, <2>2, <3>2, CellFacts
    <3>3. CASE own[o] = Nil /\ kind[o] # "guardian"
      BY <1>1, <1>2, <2>1, <2>2, <3>3, CellFacts
    <3> QED
      BY <3>1, <3>2, <3>3
  <2> QED
    BY <1>11, <2>2, <2>3, <2>4 DEF Kept
<1>15. Reach(B, StrongFields) \subseteq Y
  BY <1>2, <1>13, <1>14, StrongLeast DEF TypeOK
<1> QED
  BY <1>8, <1>9, <1>11, <1>12, <1>15 DEF Kept

(* What the collector reports as gone is gone.  A guardian returns only        *)
(* objects that were inaccessible when the collector ran, and a weak reference *)
(* is cleared only of an object that nothing which stays refers to, also when  *)
(* a guardian has just brought it back.  Static objects, which are never       *)
(* marked, are not guarded or referred to weakly.                               *)
THEOREM ReportsRight == ASSUME NoNest, "static" \notin LispOps PROVE Spec => ReportedGone
<1>1. ASSUME IndInv, [Next]_vars
      PROVE  [/\ MoveInaccessible => car[Cell] \notin Accessible
              /\ phase # "idle" /\ kind' = kind =>
                   \A w \in weakRefs : car'[w] # car[w] =>
                     car[w] \notin Reach(roots \cup (Of("guardian") \cap marked), StrongFields)]_vars
  BY <1>1, MovedGone, ClearedGone
<1> QED
  BY <1>1, Inductive, PTL DEF Spec, ReportedGone
=============================================================================
