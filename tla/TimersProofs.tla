---------------------------- MODULE TimersProofs ----------------------------
(***************************************************************************)
(* Machine-checked proofs about Timers, for any set of timers and any      *)
(* bounds: type correctness, the invariant that no wakeup is lost and that *)
(* timer_signal_handler() always finds a timer, and that inserting or      *)
(* deleting one timer leaves the time at which every other one is due.     *)
(***************************************************************************)
EXTENDS TimersProps, SequenceTheorems, WellFoundedInduction, TLAPS

(* The chain as a list: no timer is linked twice, fired timers come first   *)
(* and have no delay left, and the first timer that has not fired is due    *)
(* strictly later than now, so that its alarm can be set.                   *)
NoDuplicates ==
  \A i, j \in 1 .. Len(chain) : chain[i] = chain[j] => i = j

FiredHasNoDelay ==
  \A i \in 1 .. Len(chain) : chain[i] \in fired => rel[chain[i]] = 0

FrontHasDelay ==
  \A i \in 1 .. Len(chain) :
    chain[i] \notin fired /\ (i = 1 \/ chain[i - 1] \in fired) => rel[chain[i]] > 0

(* The loop invariant of insert_timer(). *)
Inserting ==
  /\ mode \in {"insert", "reinsert"} =>
       \A i \in 1 .. Len(chain) : chain[i] # ins
  /\ mode = "insert" =>
       /\ ptr \in 1 .. Len(chain) + 1
       /\ ins \notin fired
       /\ ptr = 1 \/ chain[ptr - 1] \in fired => rel[ins] > 0

(* Whatever C code or Lisp code can reach is allocated. *)
Reachable ==
  /\ held \subseteq allocated
  /\ \A i \in 1 .. Len(chain) : chain[i] \in allocated
  /\ \A k \in 1 .. Len(frames) : \A i \in 1 .. Len(frames[k].timers) :
       frames[k].timers[i] \in allocated
  /\ mode \in {"insert", "reinsert"} => ins \in allocated
  /\ mode \in {"collect", "dispatch"} => frames # <<>>
  /\ \A k \in 1 .. Len(frames) : frames[k].i >= 1

AlarmHasTimer ==
  sigalrm = "handler" /\ mode # "collect" => chain # <<>>

ListInv == NoDuplicates /\ FiredFirst /\ FiredHasNoDelay /\ FrontHasDelay

IndInv ==
  /\ TypeOK
  /\ ListInv
  /\ Inserting
  /\ Reachable
  /\ AlarmHasTimer
  /\ NoLostWakeup

-----------------------------------------------------------------------------
(* What InsertAt and RemoveAt do to the positions of a sequence. *)

LEMMA InsertAtPositions ==
  ASSUME NEW S, NEW s \in Seq(S), NEW e \in S, NEW i \in 1 .. Len(s) + 1
  PROVE  /\ InsertAt(s, i, e) \in Seq(S)
         /\ Len(InsertAt(s, i, e)) = Len(s) + 1
         /\ \A j \in 1 .. Len(s) + 1 :
              InsertAt(s, i, e)[j] = IF j < i THEN s[j]
                                     ELSE IF j = i THEN e ELSE s[j - 1]
<1> DEFINE l == SubSeq(s, 1, i - 1)
           r == SubSeq(s, i, Len(s))
<1>1. \A j \in 1 .. Len(s) : s[j] \in S
  OBVIOUS
<1>2. /\ l \in Seq(S) /\ Len(l) = i - 1
      /\ \A j \in 1 .. i - 1 : l[j] = s[j]
  <2>1. \A j \in 1 .. i - 1 : s[j] \in S
    BY <1>1
  <2> QED
    BY <2>1, SubSeqProperties
<1>3. /\ r \in Seq(S) /\ Len(r) = Len(s) - i + 1
      /\ \A j \in 1 .. Len(s) - i + 1 : r[j] = s[i + j - 1]
  <2>1. \A j \in i .. Len(s) : s[j] \in S
    BY <1>1
  <2>2. i \in Int /\ Len(s) \in Int
    OBVIOUS
  <2> HIDE DEF r
  <2>3. /\ r \in Seq(S)
        /\ Len(r) = IF i <= Len(s) THEN Len(s) - i + 1 ELSE 0
        /\ \A j \in 1 .. Len(s) - i + 1 : r[j] = s[i + j - 1]
    BY <2>1, <2>2, SubSeqProperties DEF r
  <2> QED
    BY <2>3
<1> HIDE DEF l, r
<1>4. /\ l \o <<e>> \in Seq(S) /\ Len(l \o <<e>>) = i
      /\ \A j \in 1 .. i : (l \o <<e>>)[j] = IF j < i THEN s[j] ELSE e
  BY <1>2
<1>5. /\ (l \o <<e>>) \o r \in Seq(S)
      /\ Len((l \o <<e>>) \o r) = Len(s) + 1
      /\ \A j \in 1 .. Len(s) + 1 :
           ((l \o <<e>>) \o r)[j] = IF j <= i THEN (l \o <<e>>)[j] ELSE r[j - i]
  <2> DEFINE p == l \o <<e>>
  <2>1. p \in Seq(S) /\ Len(p) = i
    BY <1>4
  <2> HIDE DEF p
  <2>2. /\ p \o r \in Seq(S)
        /\ Len(p \o r) = Len(p) + Len(r)
        /\ \A j \in 1 .. Len(p) + Len(r) :
             (p \o r)[j] = IF j <= Len(p) THEN p[j] ELSE r[j - Len(p)]
    BY <2>1, <1>3, ConcatProperties
  <2>3. /\ p \o r \in Seq(S)
        /\ Len(p \o r) = Len(s) + 1
        /\ \A j \in 1 .. Len(s) + 1 : (p \o r)[j] = IF j <= i THEN p[j] ELSE r[j - i]
    BY <2>1, <2>2, <1>3
  <2> QED
    BY <2>3 DEF p
<1> DEFINE w == (l \o <<e>>) \o r
<1>6. InsertAt(s, i, e) = w
  BY DEF InsertAt, l, r
<1>7. /\ w \in Seq(S) /\ Len(w) = Len(s) + 1
      /\ \A j \in 1 .. Len(s) + 1 :
           w[j] = IF j <= i THEN (l \o <<e>>)[j] ELSE r[j - i]
  BY <1>5
<1> HIDE DEF w
<1>8. ASSUME NEW j \in 1 .. Len(s) + 1
      PROVE  w[j] = IF j < i THEN s[j] ELSE IF j = i THEN e ELSE s[j - 1]
  <2>1. w[j] = IF j <= i THEN (l \o <<e>>)[j] ELSE r[j - i]
    BY <1>7
  <2>2. CASE j <= i
    BY <2>1, <2>2, <1>4
  <2>3. CASE j > i
    <3>1. w[j] = r[j - i] /\ j - i \in 1 .. Len(s) - i + 1
      BY <2>1, <2>3
    <3>2. r[j - i] = s[i + (j - i) - 1] /\ i + (j - i) - 1 = j - 1
      BY <3>1, <1>3
    <3> QED
      BY <3>1, <3>2, <2>3
  <2> QED
    BY <2>2, <2>3
<1> QED
  BY <1>6, <1>7, <1>8

LEMMA RemoveAtPositions ==
  ASSUME NEW S, NEW s \in Seq(S), NEW i \in 1 .. Len(s)
  PROVE  /\ RemoveAt(s, i) \in Seq(S)
         /\ Len(RemoveAt(s, i)) = Len(s) - 1
         /\ \A j \in 1 .. Len(s) - 1 :
              RemoveAt(s, i)[j] = IF j < i THEN s[j] ELSE s[j + 1]
<1> DEFINE l == SubSeq(s, 1, i - 1)
           r == SubSeq(s, i + 1, Len(s))
<1>1. \A j \in 1 .. Len(s) : s[j] \in S
  OBVIOUS
<1>2. /\ l \in Seq(S) /\ Len(l) = i - 1
      /\ \A j \in 1 .. i - 1 : l[j] = s[j]
  <2>1. \A j \in 1 .. i - 1 : s[j] \in S
    BY <1>1
  <2> QED
    BY <2>1, SubSeqProperties
<1>3. /\ r \in Seq(S) /\ Len(r) = Len(s) - i
      /\ \A j \in 1 .. Len(s) - i : r[j] = s[i + j]
  <2>1. \A j \in i + 1 .. Len(s) : s[j] \in S
    BY <1>1
  <2>2. i + 1 \in Int /\ Len(s) \in Int
    OBVIOUS
  <2> HIDE DEF r
  <2>3. /\ r \in Seq(S)
        /\ Len(r) = IF i + 1 <= Len(s) THEN Len(s) - (i + 1) + 1 ELSE 0
        /\ \A j \in 1 .. Len(s) - (i + 1) + 1 : r[j] = s[(i + 1) + j - 1]
    BY <2>1, <2>2, SubSeqProperties DEF r
  <2> QED
    BY <2>3
<1> HIDE DEF l, r
<1>4. /\ l \o r \in Seq(S)
      /\ Len(l \o r) = Len(s) - 1
      /\ \A j \in 1 .. Len(s) - 1 : (l \o r)[j] = IF j < i THEN l[j] ELSE r[j - (i - 1)]
  <2>1. /\ l \o r \in Seq(S)
        /\ Len(l \o r) = Len(l) + Len(r)
        /\ \A j \in 1 .. Len(l) + Len(r) :
             (l \o r)[j] = IF j <= Len(l) THEN l[j] ELSE r[j - Len(l)]
    BY <1>2, <1>3, ConcatProperties
  <2> QED
    BY <2>1, <1>2, <1>3
<1> DEFINE w == l \o r
<1>5. RemoveAt(s, i) = w
  BY DEF RemoveAt, l, r
<1>6. /\ w \in Seq(S) /\ Len(w) = Len(s) - 1
      /\ \A j \in 1 .. Len(s) - 1 : w[j] = IF j < i THEN l[j] ELSE r[j - (i - 1)]
  BY <1>4
<1> HIDE DEF w
<1>7. ASSUME NEW j \in 1 .. Len(s) - 1
      PROVE  w[j] = IF j < i THEN s[j] ELSE s[j + 1]
  <2>1. w[j] = IF j < i THEN l[j] ELSE r[j - (i - 1)]
    BY <1>6
  <2>2. CASE j < i
    BY <2>1, <2>2, <1>2
  <2>3. CASE j >= i
    <3>1. w[j] = r[j - (i - 1)] /\ j - (i - 1) \in 1 .. Len(s) - i
      BY <2>1, <2>3
    <3>2. r[j - (i - 1)] = s[i + (j - (i - 1))] /\ i + (j - (i - 1)) = j + 1
      BY <3>1, <1>3
    <3> QED
      BY <3>1, <3>2, <2>3
  <2> QED
    BY <2>2, <2>3
<1> QED
  BY <1>5, <1>6, <1>7

-----------------------------------------------------------------------------
(* Steps that leave the chain, its delays and its fired flags alone keep    *)
(* the list invariant.                                                      *)
LEMMA ListUnchanged ==
  ASSUME ListInv, UNCHANGED <<chain, rel, fired>>
  PROVE  ListInv'
  BY DEF ListInv, NoDuplicates, FiredFirst, FiredHasNoDelay, FrontHasDelay

LEMMA TickStep == IndInv /\ Tick => IndInv'
<1> SUFFICES ASSUME IndInv, Tick PROVE IndInv'
  OBVIOUS
<1>1. TypeOK'
  <2>1. pending' \in BOOLEAN
    BY DEF IndInv, TypeOK, Tick
  <2>2. itimer' \in Nat
    BY DEF IndInv, TypeOK, Tick
  <2> QED
    BY <2>1, <2>2 DEF IndInv, TypeOK, Tick, timerVars, lispVars, insVars
<1>2. ListInv'
  BY ListUnchanged DEF IndInv, Tick, timerVars
<1>3. Inserting' /\ Reachable' /\ AlarmHasTimer'
  BY DEF IndInv, Inserting, Reachable, AlarmHasTimer, Tick, timerVars, lispVars, insVars
<1>4. NoLostWakeup'
  BY DEF IndInv, TypeOK, NoLostWakeup, Tick, timerVars, Blocked
<1> QED
  BY <1>1, <1>2, <1>3, <1>4 DEF IndInv

LEMMA IgnoreSignalStep == IndInv /\ IgnoreSignal => IndInv'
<1> SUFFICES ASSUME IndInv, IgnoreSignal PROVE IndInv'
  OBVIOUS
<1>1. TypeOK'
  BY DEF IndInv, TypeOK, IgnoreSignal, timerVars, lispVars, insVars
<1>2. ListInv'
  BY ListUnchanged DEF IndInv, IgnoreSignal, timerVars
<1>3. Inserting' /\ Reachable' /\ AlarmHasTimer'
  BY DEF IndInv, Inserting, Reachable, AlarmHasTimer, IgnoreSignal, timerVars, lispVars, insVars
<1>4. NoLostWakeup'
  BY DEF IndInv, NoLostWakeup, IgnoreSignal, timerVars, Blocked
<1> QED
  BY <1>1, <1>2, <1>3, <1>4 DEF IndInv

(* Steps that leave the chain, its timers and the kernel alone: only what   *)
(* the interpreter thread is doing, its frames and its references change.   *)
LEMMA QuietStep ==
  ASSUME IndInv, TypeOK', Reachable', mode' # "insert", mode' # "reinsert",
         UNCHANGED <<chain, rel, fired, kernelVars>>,
         mode = "collect" => mode' = "collect",
         mode = "exited" => mode' = "exited",
         mode = "read" => mode' \in {"read", "collect"} \/ pipe' > 0,
         pipe > 0 => pipe' > 0 \/ mode' \in {"read", "collect"}
  PROVE  IndInv'
<1>1. ListInv'
  BY ListUnchanged DEF IndInv
<1>2. Inserting' /\ AlarmHasTimer'
  BY DEF IndInv, Inserting, AlarmHasTimer, kernelVars
<1>3. NoLostWakeup'
  BY DEF IndInv, NoLostWakeup, kernelVars
<1> QED
  BY <1>1, <1>2, <1>3 DEF IndInv

(* The innermost frame moves on to its next timer. *)
LEMMA FrameMoves ==
  ASSUME frames \in Seq(Frame), frames # <<>>,
         frames' = [frames EXCEPT ![Len(frames)].i = @ + 1]
  PROVE  /\ frames' \in Seq(Frame)
         /\ Len(frames') = Len(frames)
         /\ \A k \in 1 .. Len(frames) :
              frames'[k].timers = frames[k].timers /\ frames'[k].i >= frames[k].i
<1> DEFINE n == Len(frames)
           x == [frames[n] EXCEPT !.i = @ + 1]
<1>1. n \in 1 .. Len(frames) /\ frames[n] \in Frame
  OBVIOUS
<1>2. x \in Frame /\ x.timers = frames[n].timers /\ x.i >= frames[n].i
  <2>1. ASSUME NEW r \in [timers : Seq(Timer), i : Nat], NEW v \in Nat
        PROVE  LET y == [r EXCEPT !.i = v]
               IN  y \in [timers : Seq(Timer), i : Nat] /\ y.timers = r.timers /\ y.i = v
    OBVIOUS
  <2>2. frames[n].i \in Nat
    BY <1>1 DEF Frame
  <2> DEFINE v == frames[n].i + 1
  <2>3. v \in Nat /\ v >= frames[n].i
    BY <2>2
  <2>4. x = [frames[n] EXCEPT !.i = v]
    OBVIOUS
  <2> HIDE DEF v, x, n
  <2>5. x \in Frame /\ x.timers = frames[n].timers /\ x.i = v
    BY ONLY <1>1, <2>1, <2>3, <2>4 DEF Frame
  <2> QED
    BY ONLY <2>3, <2>5
<1>3. frames' = [frames EXCEPT ![n] = x]
  OBVIOUS
<1> HIDE DEF x, n
<1>4. /\ frames' \in Seq(Frame) /\ Len(frames') = Len(frames)
      /\ \A k \in 1 .. Len(frames) : frames'[k] = IF k = n THEN x ELSE frames[k]
  BY <1>1, <1>2, <1>3, ExceptSeq
<1>5. ASSUME NEW k \in 1 .. Len(frames)
      PROVE  frames'[k].timers = frames[k].timers /\ frames'[k].i >= frames[k].i
  <2>1. frames[k] \in Frame
    OBVIOUS
  <2>2. frames[k].i \in Nat
    BY <2>1 DEF Frame
  <2> QED
    BY ONLY <1>2, <1>4, <2>2, k \in 1 .. Len(frames)
<1> QED
  BY <1>4, <1>5

(* A new value for one timer. *)
LEMMA ExceptNat ==
  ASSUME NEW f \in [Timer -> Nat], NEW t \in Timer, NEW v \in Nat
  PROVE  /\ [f EXCEPT ![t] = v] \in [Timer -> Nat]
         /\ [f EXCEPT ![t] = v][t] = v
         /\ \A u \in Timer : u # t => [f EXCEPT ![t] = v][u] = f[u]
  OBVIOUS

LEMMA ThrowStep == IndInv /\ Throw => IndInv'
<1> SUFFICES ASSUME IndInv, Throw PROVE IndInv'
  OBVIOUS
<1> USE DEF IndInv, Throw, LispRuns
<1>1. TypeOK'
  BY DEF TypeOK, timerVars, lispVars, kernelVars, insVars, Modes, Frame
<1>2. Reachable'
  BY DEF TypeOK, Reachable, timerVars, lispVars, kernelVars, insVars, Frame
<1> QED
  BY <1>1, <1>2, QuietStep DEF TypeOK, timerVars, kernelVars

LEMMA HandleExceptionStep == IndInv /\ HandleException => IndInv'
<1> SUFFICES ASSUME IndInv, HandleException PROVE IndInv'
  OBVIOUS
<1> USE DEF IndInv, HandleException, LispRuns
<1>1. TypeOK'
  BY DEF TypeOK, timerVars, lispVars, kernelVars, insVars, Modes, Frame
<1>2. Reachable'
  BY DEF TypeOK, Reachable, timerVars, lispVars, kernelVars, insVars, Frame
<1> QED
  BY <1>1, <1>2, QuietStep DEF TypeOK, timerVars, kernelVars

LEMMA FdReadStep == IndInv /\ FdRead => IndInv'
<1> SUFFICES ASSUME IndInv, FdRead PROVE IndInv'
  OBVIOUS
<1> USE DEF IndInv, FdRead, LispRuns
<1>1. TypeOK'
  <2>1. pipe' \in 0 .. PipeMax
    BY TimersAssumption DEF TypeOK
  <2> QED
    BY <2>1 DEF TypeOK, timerVars, lispVars, kernelVars, insVars, Modes
<1>2. Reachable'
  BY DEF TypeOK, Reachable, timerVars, lispVars, kernelVars, insVars, Frame
<1> QED
  BY <1>1, <1>2, QuietStep DEF TypeOK, timerVars, kernelVars

LEMMA FdBlockStep == IndInv /\ FdBlock => IndInv'
<1> SUFFICES ASSUME IndInv, FdBlock PROVE IndInv'
  OBVIOUS
<1> USE DEF IndInv, FdBlock, LispRuns
<1>1. TypeOK'
  BY DEF TypeOK, timerVars, lispVars, kernelVars, insVars, Modes, Frame
<1>2. Reachable'
  <2> DEFINE f == [timers |-> <<>>, i |-> 1]
  <2>1. /\ Len(frames') = Len(frames) + 1
        /\ \A k \in 1 .. Len(frames) : frames'[k] = frames[k]
        /\ frames'[Len(frames) + 1] = f
    BY DEF TypeOK
  <2>2. f.timers = <<>> /\ f.i = 1
    OBVIOUS
  <2> HIDE DEF f
  <2>3. ASSUME NEW k \in 1 .. Len(frames')
        PROVE  /\ \A i \in 1 .. Len(frames'[k].timers) : frames'[k].timers[i] \in allocated
               /\ frames'[k].i >= 1
    <3>1. CASE k = Len(frames) + 1
      BY <2>1, <2>2, <3>1
    <3>2. CASE k # Len(frames) + 1
      <4>1. k \in 1 .. Len(frames)
        BY <2>1, <3>2 DEF TypeOK
      <4> QED
        BY <2>1, <4>1 DEF Reachable
    <3> QED
      BY <3>1, <3>2
  <2>4. frames' # <<>>
    <3>1. Len(frames) \in Nat
      BY DEF TypeOK
    <3> QED
      BY <2>1, <3>1
  <2> QED
    BY <2>3, <2>4 DEF Reachable, timerVars, lispVars, insVars
<1> QED
  BY <1>1, <1>2, QuietStep DEF TypeOK, timerVars, kernelVars

LEMMA FdCallStep == IndInv /\ FdCall => IndInv'
<1> SUFFICES ASSUME IndInv, FdCall PROVE IndInv'
  OBVIOUS
<1> USE DEF IndInv, FdCall, LispRuns
<1>1. TypeOK'
  <2>1. Len(frames) \in 1 .. Len(frames) /\ Current \in Frame
    BY DEF TypeOK, Current
  <2>2. Current.i \in 1 .. Len(Current.timers)
    BY <2>1 DEF Current, Reachable, Frame
  <2>3. CurrentTimer \in Timer
    BY <2>1, <2>2 DEF CurrentTimer, Frame
  <2>4. held' \in SUBSET Timer
    BY <2>3 DEF TypeOK
  <2> QED
    BY <2>4 DEF TypeOK, timerVars, kernelVars, insVars, Modes
<1>2. Reachable'
  <2>1. Len(frames) \in 1 .. Len(frames) /\ Current \in Frame
    BY DEF TypeOK, Current
  <2>2. Current.i \in 1 .. Len(Current.timers)
    BY <2>1 DEF Current, Reachable, Frame
  <2>3. CurrentTimer \in allocated
    BY <2>1, <2>2 DEF CurrentTimer, Current, Reachable
  <2> QED
    BY <2>3 DEF Reachable, timerVars, insVars
<1> QED
  BY <1>1, <1>2, QuietStep DEF TypeOK, timerVars, kernelVars

LEMMA FdSkipStep == IndInv /\ FdSkip => IndInv'
<1> SUFFICES ASSUME IndInv, FdSkip PROVE IndInv'
  OBVIOUS
<1>1. frames' = [frames EXCEPT ![Len(frames)].i = @ + 1]
  BY DEF FdSkip
<1> USE DEF IndInv, FdSkip, LispRuns
<1>2. TypeOK'
  <2>1. frames \in Seq(Frame) /\ frames # <<>>
    BY DEF TypeOK
  <2>2. /\ frames' \in Seq(Frame)
        /\ Len(frames') = Len(frames)
        /\ \A k \in 1 .. Len(frames) :
             frames'[k].timers = frames[k].timers /\ frames'[k].i >= frames[k].i
    BY ONLY <1>1, <2>1, FrameMoves
  <2>3. frames' # <<>>
    BY <2>1, <2>2
  <2> QED
    BY <2>2, <2>3 DEF TypeOK, timerVars, lispVars, kernelVars, insVars, Modes
<1>3. Reachable'
  <2>1. frames \in Seq(Frame) /\ frames # <<>>
    BY DEF TypeOK
  <2>2. /\ frames' \in Seq(Frame)
        /\ Len(frames') = Len(frames)
        /\ \A k \in 1 .. Len(frames) :
             frames'[k].timers = frames[k].timers /\ frames'[k].i >= frames[k].i
    BY ONLY <1>1, <2>1, FrameMoves
  <2>3. ASSUME NEW k \in 1 .. Len(frames')
        PROVE  /\ \A i \in 1 .. Len(frames'[k].timers) : frames'[k].timers[i] \in allocated
               /\ frames'[k].i >= 1
    <3>1. k \in 1 .. Len(frames) /\ frames[k] \in Frame /\ frames'[k] \in Frame
      BY <2>1, <2>2
    <3>2. frames[k].i \in Nat /\ frames'[k].i \in Nat
      BY <3>1 DEF Frame
    <3> QED
      BY <2>2, <3>1, <3>2 DEF Reachable
  <2>4. frames' # <<>>
    BY <2>1, <2>2
  <2> QED
    BY <2>3, <2>4 DEF Reachable, timerVars, lispVars, insVars
<1> QED
  BY <1>2, <1>3, QuietStep DEF TypeOK, timerVars, kernelVars

LEMMA CallbackReturnStep == IndInv /\ CallbackReturn => IndInv'
<1> SUFFICES ASSUME IndInv, CallbackReturn PROVE IndInv'
  OBVIOUS
<1>1. frames' = [frames EXCEPT ![Len(frames)].i = @ + 1]
  BY DEF CallbackReturn
<1> USE DEF IndInv, CallbackReturn, LispRuns
<1>2. TypeOK'
  <2>1. frames \in Seq(Frame) /\ frames # <<>>
    BY DEF TypeOK
  <2>2. /\ frames' \in Seq(Frame)
        /\ Len(frames') = Len(frames)
        /\ \A k \in 1 .. Len(frames) :
             frames'[k].timers = frames[k].timers /\ frames'[k].i >= frames[k].i
    BY ONLY <1>1, <2>1, FrameMoves
  <2>3. frames' # <<>>
    BY <2>1, <2>2
  <2> QED
    BY <2>2, <2>3 DEF TypeOK, timerVars, lispVars, kernelVars, insVars, Modes
<1>3. Reachable'
  <2>1. frames \in Seq(Frame) /\ frames # <<>>
    BY DEF TypeOK
  <2>2. /\ frames' \in Seq(Frame)
        /\ Len(frames') = Len(frames)
        /\ \A k \in 1 .. Len(frames) :
             frames'[k].timers = frames[k].timers /\ frames'[k].i >= frames[k].i
    BY ONLY <1>1, <2>1, FrameMoves
  <2>3. ASSUME NEW k \in 1 .. Len(frames')
        PROVE  /\ \A i \in 1 .. Len(frames'[k].timers) : frames'[k].timers[i] \in allocated
               /\ frames'[k].i >= 1
    <3>1. k \in 1 .. Len(frames) /\ frames[k] \in Frame /\ frames'[k] \in Frame
      BY <2>1, <2>2
    <3>2. frames[k].i \in Nat /\ frames'[k].i \in Nat
      BY <3>1 DEF Frame
    <3> QED
      BY <2>2, <3>1, <3>2 DEF Reachable
  <2>4. frames' # <<>>
    BY <2>1, <2>2
  <2> QED
    BY <2>3, <2>4 DEF Reachable, timerVars, lispVars, insVars
<1> QED
  BY <1>2, <1>3, QuietStep DEF TypeOK, timerVars, kernelVars

(* A stack of dispatches cut short. *)
LEMMA Shorter ==
  ASSUME NEW f \in Seq(Frame), NEW n \in Nat, \A k \in 1 .. n : f[k] \in Frame
  PROVE  /\ SubSeq(f, 1, n) \in Seq(Frame)
         /\ Len(SubSeq(f, 1, n)) = n
         /\ \A k \in 1 .. n : SubSeq(f, 1, n)[k] = f[k]
<1>1. 1 \in Int /\ n \in Int
  OBVIOUS
<1> DEFINE g == SubSeq(f, 1, n)
<1>2. /\ g \in Seq(Frame)
      /\ Len(g) = IF 1 <= n THEN n - 1 + 1 ELSE 0
      /\ \A k \in 1 .. n - 1 + 1 : g[k] = f[1 + k - 1]
  BY <1>1, SubSeqProperties
<1> HIDE DEF g
<1>3. /\ g \in Seq(Frame) /\ Len(g) = n /\ \A k \in 1 .. n : g[k] = f[k]
  BY <1>2
<1> QED
  BY <1>3 DEF g

LEMMA FdReturnStep == IndInv /\ FdReturn => IndInv'
<1> SUFFICES ASSUME IndInv, FdReturn PROVE IndInv'
  OBVIOUS
<1> USE DEF IndInv, FdReturn, LispRuns
<1>1. TypeOK'
  <2>1. frames \in Seq(Frame) /\ Len(frames) >= 1
    BY DEF TypeOK
  <2>2. /\ frames' \in Seq(Frame)
        /\ Len(frames') = Len(frames) - 1
        /\ \A k \in 1 .. Len(frames) - 1 : frames'[k] = frames[k]
    <3> DEFINE n == Len(frames) - 1
               g == SubSeq(frames, 1, n)
    <3>1. n \in Nat /\ \A k \in 1 .. n : frames[k] \in Frame
      BY <2>1
    <3> HIDE DEF n, g
    <3>2. g \in Seq(Frame) /\ Len(g) = n /\ \A k \in 1 .. n : g[k] = frames[k]
      BY ONLY <2>1, <3>1, Shorter DEF g
    <3> QED
      BY <3>2 DEF n, g
  <2> QED
    BY <2>2 DEF TypeOK, timerVars, lispVars, kernelVars, insVars, Modes
<1>2. Reachable'
  <2>1. frames \in Seq(Frame) /\ Len(frames) >= 1
    BY DEF TypeOK
  <2>2. /\ frames' \in Seq(Frame)
        /\ Len(frames') = Len(frames) - 1
        /\ \A k \in 1 .. Len(frames) - 1 : frames'[k] = frames[k]
    <3> DEFINE n == Len(frames) - 1
               g == SubSeq(frames, 1, n)
    <3>1. n \in Nat /\ \A k \in 1 .. n : frames[k] \in Frame
      BY <2>1
    <3> HIDE DEF n, g
    <3>2. g \in Seq(Frame) /\ Len(g) = n /\ \A k \in 1 .. n : g[k] = frames[k]
      BY <3>1, SubSeqProperties DEF g
    <3> QED
      BY <3>2 DEF n, g
  <2>3. ASSUME NEW k \in 1 .. Len(frames')
        PROVE  /\ \A i \in 1 .. Len(frames'[k].timers) : frames'[k].timers[i] \in allocated
               /\ frames'[k].i >= 1
    <3>1. k \in 1 .. Len(frames) /\ frames'[k] = frames[k]
      BY <2>1, <2>2
    <3> QED
      BY <3>1 DEF Reachable
  <2> QED
    BY <2>3 DEF Reachable, timerVars, lispVars, insVars
<1> QED
  BY <1>1, <1>2, QuietStep DEF TypeOK, timerVars, kernelVars

LEMMA DropReferenceStep ==
  ASSUME IndInv, NEW t \in Timer, DropReference(t)
  PROVE  IndInv'
<1> USE DEF IndInv, DropReference, LispRuns
<1>1. TypeOK'
  BY DEF TypeOK, timerVars, lispVars, kernelVars, insVars
<1>2. Reachable'
  BY DEF Reachable, timerVars, insVars
<1> QED
  BY <1>1, <1>2, QuietStep DEF TypeOK, timerVars, kernelVars

LEMMA KillStep == IndInv /\ Kill => IndInv'
<1> SUFFICES ASSUME IndInv, Kill PROVE IndInv'
  OBVIOUS
<1> USE DEF IndInv, Kill
<1>1. TypeOK'
  <2>1. pipe' \in 0 .. PipeMax
    BY TimersAssumption
  <2> QED
    BY <2>1 DEF TypeOK, timerVars, lispVars, insVars, Modes
<1>2. ListInv'
  BY ListUnchanged DEF timerVars
<1>3. Inserting' /\ Reachable' /\ AlarmHasTimer' /\ NoLostWakeup'
  BY DEF Inserting, Reachable, AlarmHasTimer, NoLostWakeup, timerVars, lispVars, insVars
<1> QED
  BY <1>1, <1>2, <1>3

LEMMA StutterStep == IndInv /\ UNCHANGED vars => IndInv'
<1> SUFFICES ASSUME IndInv, UNCHANGED vars PROVE IndInv'
  OBVIOUS
<1> USE DEF IndInv, vars
<1>1. TypeOK'
  BY DEF TypeOK, timerVars, lispVars, kernelVars, insVars
<1>2. ListInv'
  BY ListUnchanged DEF timerVars
<1>3. Inserting' /\ Reachable' /\ AlarmHasTimer' /\ NoLostWakeup'
  BY DEF Inserting, Reachable, AlarmHasTimer, NoLostWakeup, timerVars, lispVars, kernelVars, insVars
<1> QED
  BY <1>1, <1>2, <1>3

-----------------------------------------------------------------------------
(* Steps that leave the chain and the flags and delays of its members alone *)
(* keep the list invariant, whatever they do to other timers.               *)
LEMMA MembersUnchanged ==
  ASSUME ListInv, chain' = chain,
         \A i \in 1 .. Len(chain) : /\ chain[i] \in fired' <=> chain[i] \in fired
                                    /\ rel'[chain[i]] = rel[chain[i]]
  PROVE  ListInv'
<1>1. NoDuplicates'
  BY DEF ListInv, NoDuplicates
<1>2. FiredFirst'
  BY DEF ListInv, FiredFirst
<1>3. FiredHasNoDelay'
  BY DEF ListInv, FiredHasNoDelay
<1>4. FrontHasDelay'
  <2> SUFFICES ASSUME NEW i \in 1 .. Len(chain), chain[i] \notin fired',
                      i = 1 \/ chain[i - 1] \in fired'
               PROVE  rel'[chain[i]] > 0
    BY DEF FrontHasDelay
  <2>1. i # 1 => i - 1 \in 1 .. Len(chain)
    OBVIOUS
  <2> QED
    BY <2>1 DEF ListInv, FrontHasDelay
<1> QED
  BY <1>1, <1>2, <1>3, <1>4 DEF ListInv

LEMMA GarbageCollectStep == IndInv /\ GarbageCollect => IndInv'
<1> SUFFICES ASSUME IndInv, GarbageCollect PROVE IndInv'
  OBVIOUS
<1> USE DEF IndInv, GarbageCollect, LispRuns
<1>1. TypeOK'
  <2>1. rel' \in [Timer -> Nat] /\ period' \in [Timer -> Nat]
    BY DEF TypeOK
  <2>2. allocated' \in SUBSET Timer /\ fired' \in SUBSET Timer /\ deleted' \in SUBSET Timer
    BY DEF TypeOK
  <2> QED
    BY <2>1, <2>2 DEF TypeOK, kernelVars, insVars
<1>2. \A i \in 1 .. Len(chain) : chain[i] \in Timer /\ chain[i] \in allocated'
  BY DEF TypeOK, Reachable, Marked, ToSet
<1>3. ListInv'
  <2>1. \A i \in 1 .. Len(chain) : /\ chain[i] \in fired' <=> chain[i] \in fired
                                   /\ rel'[chain[i]] = rel[chain[i]]
    BY <1>2
  <2> QED
    BY <2>1, MembersUnchanged
<1>4. Reachable'
  <2>1. held \subseteq allocated'
    BY DEF Reachable, Marked
  <2>2. ASSUME NEW k \in 1 .. Len(frames), NEW i \in 1 .. Len(frames[k].timers)
        PROVE  frames[k].timers[i] \in allocated'
    <3>1. k \in DOMAIN frames /\ frames[k] \in Frame
      BY DEF TypeOK
    <3>2. frames[k].timers[i] \in ToSet(frames[k].timers)
      BY <3>1 DEF Frame, ToSet
    <3>3. frames[k].timers[i] \in RootsOfFrames
      BY <3>1, <3>2 DEF RootsOfFrames
    <3> QED
      BY <3>3 DEF Reachable, Marked
  <2> QED
    BY <2>1, <2>2, <1>2 DEF Reachable, insVars
<1>5. Inserting' /\ AlarmHasTimer'
  BY DEF Inserting, AlarmHasTimer, insVars, kernelVars
<1>6. NoLostWakeup'
  <2>1. chain # <<>> => chain[1] \in fired' <=> chain[1] \in fired
    <3>1. chain # <<>> => 1 \in 1 .. Len(chain)
      BY DEF TypeOK
    <3> QED
      BY <3>1, <1>2
  <2> QED
    BY <2>1 DEF NoLostWakeup, kernelVars
<1> QED
  BY <1>1, <1>3, <1>4, <1>5, <1>6

(* The top of insert_timer(), for a timer that is not linked. *)
LEMMA BeginInsertStep ==
  ASSUME IndInv, NEW t \in Timer, NEW p \in Nat, NEW fs, NEW ds,
         \A i \in 1 .. Len(chain) : chain[i] # t,
         \A f \in fs : f \in SUBSET Timer /\ f \ {t} = fired \ {t},
         \A d \in ds : d \in SUBSET Timer,
         BeginInsert(t, p, fs, ds),
         mode \in {"lisp", "reinsert"},
         t \in allocated', allocated \subseteq allocated', held' \subseteq allocated',
         allocated' \in SUBSET Timer, held' \in SUBSET Timer,
         period' \in [Timer -> Nat],
         UNCHANGED <<chain, kernelVars, pipe, frames, thrown>>
  PROVE  IndInv'
<1> USE DEF IndInv
<1>1. /\ mode' \in {"insert", "lisp"} /\ ptr' = 1
      /\ ins' \in Timer \cup {NoTimer}
      /\ mode' = "insert" => ins' = t
  BY DEF BeginInsert
<1>2. /\ fired' \in SUBSET Timer /\ fired' \ {t} = fired \ {t}
      /\ deleted' \in SUBSET Timer
  BY DEF BeginInsert, TypeOK
<1>3. rel' \in [Timer -> Nat] /\ \A u \in Timer : u # t => rel'[u] = rel[u]
  <2>1. rel' = rel \/ rel' = [rel EXCEPT ![t] = p]
    BY DEF BeginInsert
  <2>2. rel \in [Timer -> Nat]
    BY DEF TypeOK
  <2> QED
    BY ONLY <2>1, <2>2, t \in Timer, p \in Nat, ExceptNat
<1>4. TypeOK'
  <2>1. ptr' \in Nat /\ mode' \in Modes
    BY <1>1 DEF Modes
  <2> QED
    BY <1>1, <1>2, <1>3, <2>1 DEF TypeOK, kernelVars
<1>5. \A i \in 1 .. Len(chain) : /\ chain[i] \in fired' <=> chain[i] \in fired
                                 /\ rel'[chain[i]] = rel[chain[i]]
  <2> SUFFICES ASSUME NEW i \in 1 .. Len(chain)
               PROVE  /\ chain[i] \in fired' <=> chain[i] \in fired
                      /\ rel'[chain[i]] = rel[chain[i]]
    OBVIOUS
  <2>1. chain \in Seq(Timer)
    BY DEF TypeOK
  <2>2. chain[i] \in Timer
    BY <2>1
  <2> QED
    BY <2>2, <1>2, <1>3
<1>6. ListInv'
  BY <1>5, MembersUnchanged
<1>7. Inserting'
  <2>1. mode' = "insert" => ins' \notin fired' /\ rel'[ins'] > 0
    BY DEF BeginInsert, TypeOK
  <2>2. 1 \in 1 .. Len(chain) + 1
    BY DEF TypeOK
  <2> QED
    BY <1>1, <2>1, <2>2 DEF Inserting
<1>8. Reachable' /\ AlarmHasTimer'
  BY <1>1 DEF Reachable, AlarmHasTimer, kernelVars
<1>9. NoLostWakeup'
  <2>1. chain # <<>> => 1 \in 1 .. Len(chain)
    BY DEF TypeOK
  <2>2. chain # <<>> => chain[1] \in fired' <=> chain[1] \in fired
    BY <2>1, <1>5
  <2> QED
    BY <2>2 DEF NoLostWakeup, kernelVars
<1> QED
  BY <1>4, <1>6, <1>7, <1>8, <1>9

LEMMA MakeTimerStep ==
  ASSUME IndInv, NEW t \in Timer, NEW p \in 0 .. MaxPeriod, MakeTimer(t, p)
  PROVE  IndInv'
<1> USE DEF IndInv, MakeTimer, LispRuns
<1> DEFINE fs == {fired \ {t}, fired \cup {t}}
           ds == {deleted \ {t}, deleted \cup {t}}
<1>1. p \in Nat
  BY TimersAssumption
<1>2. \A i \in 1 .. Len(chain) : chain[i] # t
  BY DEF Reachable
<1>3. \A f \in fs : f \in SUBSET Timer /\ f \ {t} = fired \ {t}
  BY DEF TypeOK
<1>4. \A d \in ds : d \in SUBSET Timer
  BY DEF TypeOK
<1>5. /\ allocated' \in SUBSET Timer /\ held' \in SUBSET Timer
      /\ t \in allocated' /\ allocated \subseteq allocated' /\ held' \subseteq allocated'
  BY DEF TypeOK, Reachable
<1>6. period' \in [Timer -> Nat]
  BY <1>1 DEF TypeOK
<1>7. BeginInsert(t, p, fs, ds)
  OBVIOUS
<1> HIDE DEF fs, ds
<1> QED
  BY <1>1, <1>2, <1>3, <1>4, <1>5, <1>6, <1>7, BeginInsertStep

LEMMA SetTimerInsertStep == IndInv /\ SetTimerInsert => IndInv'
<1> SUFFICES ASSUME IndInv, SetTimerInsert PROVE IndInv'
  OBVIOUS
<1> USE DEF IndInv, SetTimerInsert
<1>1. ins \in Timer /\ period[ins] \in Nat
  BY DEF TypeOK
<1>2. \A i \in 1 .. Len(chain) : chain[i] # ins
  BY DEF Inserting
<1>3. \A f \in {fired} : f \in SUBSET Timer /\ f \ {ins} = fired \ {ins}
  BY DEF TypeOK
<1>4. \A d \in {deleted} : d \in SUBSET Timer
  BY DEF TypeOK
<1>5. /\ allocated' \in SUBSET Timer /\ held' \in SUBSET Timer
      /\ ins \in allocated' /\ allocated \subseteq allocated' /\ held' \subseteq allocated'
  BY DEF TypeOK, Reachable, lispVars
<1>6. period' \in [Timer -> Nat]
  BY DEF TypeOK
<1> QED
  BY <1>1, <1>2, <1>3, <1>4, <1>5, <1>6, BeginInsertStep

LEMMA InsertStepStep == IndInv /\ InsertStep => IndInv'
<1> SUFFICES ASSUME IndInv, InsertStep PROVE IndInv'
  OBVIOUS
<1> USE DEF IndInv, InsertStep
<1>1. /\ ptr \in 1 .. Len(chain) /\ chain[ptr] \in Timer
      /\ rel[chain[ptr]] <= rel[ins] /\ ins \in Timer
  BY DEF TypeOK, Inserting, DueNoLater
<1>2. /\ rel' \in [Timer -> Nat]
      /\ rel'[ins] = rel[ins] - rel[chain[ptr]]
      /\ \A u \in Timer : u # ins => rel'[u] = rel[u]
  <2> DEFINE v == rel[ins] - rel[chain[ptr]]
  <2>1. rel \in [Timer -> Nat]
    BY DEF TypeOK
  <2>2. v \in Nat
    BY ONLY <1>1, <2>1
  <2>3. rel' = [rel EXCEPT ![ins] = v]
    BY <2>1
  <2> HIDE DEF v
  <2>4. /\ rel' \in [Timer -> Nat] /\ rel'[ins] = v
        /\ \A u \in Timer : u # ins => rel'[u] = rel[u]
    BY ONLY <1>1, <2>1, <2>2, <2>3, ExceptNat
  <2> QED
    BY ONLY <2>4 DEF v
<1>3. TypeOK'
  <2>1. ptr' \in Nat
    BY DEF TypeOK
  <2> QED
    BY <1>2, <2>1 DEF TypeOK, lispVars, kernelVars
<1>4. ListInv'
  <2>1. \A i \in 1 .. Len(chain) : chain[i] \in Timer /\ chain[i] # ins
    <3>1. /\ chain \in Seq(Timer)
          /\ \A i \in 1 .. Len(chain) : chain[i] # ins
      BY DEF TypeOK, Inserting
    <3> QED
      BY ONLY <3>1
  <2>2. \A i \in 1 .. Len(chain) : /\ chain[i] \in fired' <=> chain[i] \in fired
                                   /\ rel'[chain[i]] = rel[chain[i]]
    BY <1>2, <2>1
  <2> QED
    BY <2>2, MembersUnchanged
<1>5. Inserting'
  <2>1. ptr + 1 \in 1 .. Len(chain) + 1 /\ (ptr + 1) - 1 = ptr /\ ptr + 1 # 1
    BY <1>1
  <2>2. ASSUME chain[ptr] \in fired PROVE rel'[ins] > 0
    <3>1. rel[chain[ptr]] = 0
      BY <1>1, <2>2 DEF ListInv, FiredHasNoDelay
    <3>2. ptr = 1 \/ chain[ptr - 1] \in fired
      <4>1. ptr # 1 => ptr - 1 \in 1 .. Len(chain) /\ ptr - 1 < ptr
        BY <1>1
      <4> QED
        BY <1>1, <2>2, <4>1 DEF ListInv, FiredFirst
    <3>3. rel[ins] > 0
      BY <3>2 DEF Inserting
    <3> QED
      BY <3>1, <3>3, <1>1, <1>2 DEF TypeOK
  <2> QED
    BY <2>1, <2>2 DEF Inserting
<1>6. Reachable' /\ AlarmHasTimer'
  BY DEF Reachable, AlarmHasTimer, lispVars, kernelVars
<1>7. NoLostWakeup'
  BY DEF NoLostWakeup, kernelVars
<1> QED
  BY <1>3, <1>4, <1>5, <1>6, <1>7

(* The end of insert_timer().  Everything from ptr on has yet to fire, and  *)
(* the timer at ptr is due strictly later than ins.                         *)
LEMMA LinkTimerStep == IndInv /\ LinkTimer => IndInv'
<1> SUFFICES ASSUME IndInv, LinkTimer PROVE IndInv'
  OBVIOUS
<1> USE DEF IndInv
<1> DEFINE n == Len(chain)
<1>1. /\ n \in Nat /\ chain \in Seq(Timer) /\ ins \in Timer /\ ins \notin fired
      /\ ptr \in 1 .. n + 1
      /\ \A i \in 1 .. n : chain[i] \in Timer /\ chain[i] # ins
      /\ ptr = 1 \/ chain[ptr - 1] \in fired => rel[ins] > 0
      /\ rel \in [Timer -> Nat]
  <2>1. chain \in Seq(Timer) /\ rel \in [Timer -> Nat] /\ mode = "insert" /\ ins \in Timer
    BY DEF LinkTimer, TypeOK
  <2>2. /\ ins \notin fired /\ ptr \in 1 .. Len(chain) + 1
        /\ \A i \in 1 .. Len(chain) : chain[i] # ins
        /\ ptr = 1 \/ chain[ptr - 1] \in fired => rel[ins] > 0
    BY <2>1 DEF Inserting
  <2>3. n \in Nat /\ \A i \in 1 .. n : chain[i] \in Timer
    BY <2>1
  <2> QED
    BY <2>1, <2>2, <2>3
<1>2. ptr <= n => rel[chain[ptr]] > rel[ins]
  BY <1>1 DEF LinkTimer, DueNoLater
<1>3. /\ chain' \in Seq(Timer) /\ Len(chain') = n + 1
      /\ \A j \in 1 .. n + 1 :
           chain'[j] = IF j < ptr THEN chain[j] ELSE IF j = ptr THEN ins ELSE chain[j - 1]
  <2>1. chain' = InsertAt(chain, ptr, ins)
    BY DEF LinkTimer
  <2>2. /\ InsertAt(chain, ptr, ins) \in Seq(Timer)
        /\ Len(InsertAt(chain, ptr, ins)) = Len(chain) + 1
        /\ \A j \in 1 .. Len(chain) + 1 :
             InsertAt(chain, ptr, ins)[j] =
               IF j < ptr THEN chain[j] ELSE IF j = ptr THEN ins ELSE chain[j - 1]
    BY <1>1, InsertAtPositions
  <2> QED
    BY <2>1, <2>2
<1>4. /\ rel' \in [Timer -> Nat]
      /\ rel'[ins] = rel[ins]
      /\ \A i \in 1 .. n : i # ptr => rel'[chain[i]] = rel[chain[i]]
  <2>1. CASE ptr <= n
    <3>1. ptr \in 1 .. n /\ chain[ptr] \in Timer /\ rel[chain[ptr]] - rel[ins] \in Nat
      BY <1>1, <1>2, <2>1
    <3>2. rel' = [rel EXCEPT ![chain[ptr]] = rel[chain[ptr]] - rel[ins]]
      BY <2>1 DEF LinkTimer
    <3>3. \A i \in 1 .. n : i # ptr => chain[i] # chain[ptr]
      BY <3>1 DEF ListInv, NoDuplicates
    <3> QED
      BY <1>1, <3>1, <3>2, <3>3
  <2>2. CASE ~(ptr <= n)
    BY <1>1, <2>2 DEF LinkTimer
  <2> QED
    BY <2>1, <2>2
<1>5. \A i \in 1 .. n : i >= ptr => chain[i] \notin fired
  <2> SUFFICES ASSUME NEW i \in 1 .. n, i >= ptr, chain[i] \in fired PROVE FALSE
    OBVIOUS
  <2>1. ptr \in 1 .. n
    BY <1>1
  <2>2. chain[ptr] \in fired
    BY <2>1 DEF ListInv, FiredFirst
  <2>3. rel[chain[ptr]] = 0 /\ rel[ins] \in Nat
    BY <1>1, <2>1, <2>2 DEF ListInv, FiredHasNoDelay
  <2> QED
    BY <1>2, <2>1, <2>3
<1>6. /\ fired' = fired
      /\ \A j \in 1 .. n + 1 : chain'[j] \in fired <=> j < ptr /\ chain[j] \in fired
  <2>1. ASSUME NEW j \in 1 .. n + 1, j > ptr PROVE chain'[j] \notin fired
    <3>1. j - 1 \in 1 .. n /\ j - 1 >= ptr /\ chain'[j] = chain[j - 1]
      BY <1>1, <1>3, <2>1
    <3> QED
      BY <3>1, <1>5
  <2>2. \A j \in 1 .. n + 1 : j < ptr => chain'[j] = chain[j]
    BY <1>3
  <2>3. chain'[ptr] = ins
    BY <1>1, <1>3
  <2>4. \A j \in 1 .. n + 1 : j < ptr \/ j = ptr \/ j > ptr
    BY <1>1
  <2>5. \A j \in 1 .. n + 1 : j < ptr => j # ptr /\ ~(j > ptr)
    BY <1>1
  <2> QED
    BY <1>1, <2>1, <2>2, <2>3, <2>4, <2>5 DEF LinkTimer
<1>7. ListInv'
  <2>1. NoDuplicates'
    <3> SUFFICES ASSUME NEW i \in 1 .. n + 1, NEW j \in 1 .. n + 1, i < j
                 PROVE  chain'[i] # chain'[j]
      BY <1>1, <1>3 DEF NoDuplicates
    <3> DEFINE old(k) == IF k < ptr THEN k ELSE k - 1
    <3>1. ASSUME NEW k \in 1 .. n + 1, k # ptr
          PROVE  old(k) \in 1 .. n /\ chain'[k] = chain[old(k)]
      <4>1. chain'[k] = IF k < ptr THEN chain[k] ELSE IF k = ptr THEN ins ELSE chain[k - 1]
        BY <1>3
      <4>2. CASE k < ptr
        BY <4>1, <4>2, <1>1
      <4>3. CASE k > ptr
        BY <4>1, <4>3, <1>1
      <4> QED
        BY <3>1, <4>2, <4>3, <1>1
    <3>2. CASE i = ptr
      <4>1. chain'[i] = ins /\ j # ptr
        BY <3>2, <1>1, <1>3
      <4> QED
        BY <4>1, <3>1, <1>1
    <3>3. CASE j = ptr
      <4>1. chain'[j] = ins /\ i # ptr
        BY <3>3, <1>1, <1>3
      <4> QED
        BY <4>1, <3>1, <1>1
    <3>4. CASE i # ptr /\ j # ptr
      <4>1. old(i) # old(j)
        BY <3>4, <1>1
      <4> QED
        BY <4>1, <3>1, <3>4 DEF ListInv, NoDuplicates
    <3> QED
      BY <3>2, <3>3, <3>4
  <2>2. FiredFirst'
    <3> SUFFICES ASSUME NEW i \in 1 .. n + 1, NEW j \in 1 .. n + 1, i < j,
                        chain'[j] \in fired
                 PROVE  chain'[i] \in fired
      BY <1>3, <1>6 DEF FiredFirst
    <3>1. j < ptr /\ chain[j] \in fired
      BY <1>6
    <3>2. i < ptr /\ i \in 1 .. n /\ j \in 1 .. n
      BY <3>1, <1>1
    <3> QED
      BY <3>1, <3>2, <1>6 DEF ListInv, FiredFirst
  <2>3. FiredHasNoDelay'
    <3> SUFFICES ASSUME NEW i \in 1 .. n + 1, chain'[i] \in fired
                 PROVE  rel'[chain'[i]] = 0
      BY <1>3, <1>6 DEF FiredHasNoDelay
    <3>1. i < ptr /\ chain[i] \in fired
      BY <1>6
    <3>2. i \in 1 .. n /\ i # ptr /\ chain'[i] = chain[i]
      BY <3>1, <1>1, <1>3
    <3> QED
      BY <3>1, <3>2, <1>4 DEF ListInv, FiredHasNoDelay
  <2>4. FrontHasDelay'
    <3> SUFFICES ASSUME NEW i \in 1 .. n + 1, chain'[i] \notin fired,
                        i = 1 \/ chain'[i - 1] \in fired
                 PROVE  rel'[chain'[i]] > 0
      BY <1>3, <1>6 DEF FrontHasDelay
    <3>1. i # 1 => i - 1 \in 1 .. n + 1 /\ i - 1 < ptr /\ chain[i - 1] \in fired
      BY <1>6
    <3>2. i = ptr \/ i < ptr
      BY <3>1, <1>1
    <3>3. CASE i = ptr
      BY <3>1, <3>3, <1>1, <1>3, <1>4
    <3>4. CASE i < ptr
      <4>1. i \in 1 .. n /\ i # ptr /\ chain'[i] = chain[i]
        BY <3>4, <1>1, <1>3
      <4> QED
        BY <3>1, <4>1, <1>4 DEF ListInv, FrontHasDelay
    <3> QED
      BY <3>2, <3>3, <3>4
  <2> QED
    BY <2>1, <2>2, <2>3, <2>4 DEF ListInv
<1>8. chain' # <<>>
  BY <1>1, <1>3
<1>9. /\ itimer' \in Nat /\ pending' \in BOOLEAN
      /\ sigalrm' \in {"default", "ignore", "handler"}
      /\ ptr = 1 => sigalrm' = "handler" /\ itimer' > 0
      /\ ptr # 1 => UNCHANGED kernelVars
  <2>1. CASE ptr = 1
    <3>1. chain'[1] = ins /\ rel'[ins] > 0 /\ rel'[ins] \in Nat
      BY <2>1, <1>1, <1>3, <1>4
    <3>2. sigalrm' = "handler" /\ itimer' = rel'[ins] /\ pending' = pending
      BY <2>1, <3>1, <1>8 DEF LinkTimer, SetupNextTimer
    <3> QED
      BY <2>1, <3>1, <3>2 DEF TypeOK
  <2>2. CASE ptr # 1
    BY <2>2 DEF LinkTimer, TypeOK, kernelVars
  <2> QED
    BY <2>1, <2>2
<1>10. TypeOK'
  <2>1. ptr' \in Nat /\ mode' \in Modes /\ ins' \in Timer \cup {NoTimer}
    BY DEF LinkTimer, Modes
  <2> QED
    BY <1>3, <1>4, <1>9, <2>1 DEF LinkTimer, TypeOK, lispVars
<1>11. Inserting' /\ AlarmHasTimer'
  BY <1>8 DEF LinkTimer, Inserting, AlarmHasTimer
<1>12. Reachable'
  <2>1. ASSUME NEW j \in 1 .. n + 1 PROVE chain'[j] \in allocated
    <3>1. ins \in allocated /\ \A i \in 1 .. n : chain[i] \in allocated
      BY DEF LinkTimer, Reachable
    <3>2. j < ptr => j \in 1 .. n
      BY <1>1
    <3>3. j > ptr => j - 1 \in 1 .. n
      BY <1>1
    <3>4. chain'[j] = IF j < ptr THEN chain[j] ELSE IF j = ptr THEN ins ELSE chain[j - 1]
      BY <1>3
    <3>5. j < ptr \/ j = ptr \/ j > ptr
      BY <1>1
    <3> QED
      BY <3>1, <3>2, <3>3, <3>4, <3>5
  <2> QED
    BY <1>3, <2>1 DEF LinkTimer, Reachable, lispVars
<1>13. NoLostWakeup'
  <2>1. CASE ptr = 1
    <3>1. chain'[1] = ins
      BY <2>1, <1>1, <1>3
    <3> QED
      BY <2>1, <3>1, <1>1, <1>6, <1>9 DEF NoLostWakeup
  <2>2. CASE ptr # 1
    <3>1. chain'[1] = chain[1] /\ chain # <<>>
      BY <2>2, <1>1, <1>3
    <3>2. UNCHANGED <<kernelVars, pipe, fired>> /\ mode = "insert"
      BY <2>2 DEF LinkTimer
    <3> QED
      BY <3>1, <3>2, <1>6, <1>9 DEF NoLostWakeup, kernelVars
  <2> QED
    BY <2>1, <2>2
<1> QED
  BY <1>7, <1>10, <1>11, <1>12, <1>13

(* delete_timer().  The delay of the timer goes to its successor; when it   *)
(* was the first that had not fired, its positive delay makes the           *)
(* successor's positive too.                                                *)
LEMMA UnlinkStep ==
  ASSUME IndInv, NEW t \in Timer, UnlinkTimer(t), mode = "lisp",
         UNCHANGED <<fired, pipe>>, mode' \notin {"collect", "exited"}
  PROVE  /\ chain' \in Seq(Timer) /\ rel' \in [Timer -> Nat]
         /\ itimer' \in Nat /\ pending' \in BOOLEAN
         /\ sigalrm' \in {"default", "ignore", "handler"}
         /\ ListInv' /\ AlarmHasTimer' /\ NoLostWakeup'
         /\ \A i \in 1 .. Len(chain') : chain'[i] \in allocated /\ chain'[i] # t
<1> USE DEF IndInv
<1>1. /\ chain \in Seq(Timer) /\ rel \in [Timer -> Nat]
      /\ itimer \in Nat /\ pending \in BOOLEAN
      /\ sigalrm \in {"default", "ignore", "handler"}
  BY DEF TypeOK
<1>2. CASE ~ \E i \in 1 .. Len(chain) : chain[i] = t
  <2>1. UNCHANGED <<chain, rel, kernelVars>>
    BY <1>2 DEF UnlinkTimer
  <2>2. ListInv'
    BY <2>1, ListUnchanged
  <2>3. AlarmHasTimer' /\ NoLostWakeup'
    BY <2>1 DEF AlarmHasTimer, NoLostWakeup, kernelVars
  <2>4. \A i \in 1 .. Len(chain') : chain'[i] \in allocated /\ chain'[i] # t
    BY <1>2, <2>1 DEF Reachable
  <2> QED
    BY <1>1, <2>1, <2>2, <2>3, <2>4 DEF kernelVars
<1>3. CASE \E i \in 1 .. Len(chain) : chain[i] = t
  <2>1. PICK k \in 1 .. Len(chain) :
          /\ chain[k] = t
          /\ rel' = [u \in Timer |->
                       IF u = t THEN 0
                       ELSE IF k < Len(chain) /\ u = chain[k + 1]
                            THEN rel[u] + rel[t]
                            ELSE rel[u]]
          /\ chain' = RemoveAt(chain, k)
          /\ IF k = 1 THEN SetupNextTimer(chain', rel')
                      ELSE UNCHANGED kernelVars
    BY <1>3 DEF UnlinkTimer
  <2> DEFINE n == Len(chain)
             old(j) == IF j < k THEN j ELSE j + 1
  <2>2. n \in Nat /\ k \in 1 .. n /\ \A i \in 1 .. n : chain[i] \in Timer
    BY <1>1
  <2>3. /\ chain' \in Seq(Timer) /\ Len(chain') = n - 1
        /\ \A j \in 1 .. n - 1 : chain'[j] = IF j < k THEN chain[j] ELSE chain[j + 1]
    <3>1. /\ RemoveAt(chain, k) \in Seq(Timer)
          /\ Len(RemoveAt(chain, k)) = Len(chain) - 1
          /\ \A j \in 1 .. Len(chain) - 1 :
               RemoveAt(chain, k)[j] = IF j < k THEN chain[j] ELSE chain[j + 1]
      BY <1>1, RemoveAtPositions
    <3> QED
      BY <2>1, <3>1
  <2>4. ASSUME NEW j \in 1 .. n - 1
        PROVE  old(j) \in 1 .. n /\ old(j) # k /\ chain'[j] = chain[old(j)]
    BY <2>2, <2>3
  <2>5. rel' \in [Timer -> Nat]
    BY <1>1, <2>1
  <2>6. \A i, j \in 1 .. n : chain[i] = chain[j] => i = j
    BY DEF ListInv, NoDuplicates
  <2>7. ASSUME NEW i \in 1 .. n, i # k
        PROVE  rel'[chain[i]] = IF i = k + 1 THEN rel[chain[i]] + rel[t] ELSE rel[chain[i]]
    <3>1. chain[i] # t /\ chain[i] \in Timer
      BY <2>1, <2>2, <2>6, <2>7
    <3>2. k < n /\ chain[i] = chain[k + 1] <=> i = k + 1
      BY <2>2, <2>6
    <3> QED
      BY <2>1, <3>1, <3>2
  <2> HIDE DEF old
  <2>8. ListInv'
    <3>1. NoDuplicates'
      <4> SUFFICES ASSUME NEW i \in 1 .. n - 1, NEW j \in 1 .. n - 1, chain'[i] = chain'[j]
                   PROVE  i = j
        BY <2>3 DEF NoDuplicates
      <4>1. old(i) = old(j)
        BY <2>4, <2>6
      <4> QED
        BY <4>1, <2>2 DEF old
    <3>2. FiredFirst'
      <4> SUFFICES ASSUME NEW i \in 1 .. n - 1, NEW j \in 1 .. n - 1, i < j,
                          chain'[j] \in fired
                   PROVE  chain'[i] \in fired
        BY <2>3 DEF FiredFirst
      <4>1. old(i) < old(j)
        BY <2>2 DEF old
      <4> QED
        BY <4>1, <2>4 DEF ListInv, FiredFirst
    <3>3. FiredHasNoDelay'
      <4> SUFFICES ASSUME NEW i \in 1 .. n - 1, chain'[i] \in fired
                   PROVE  rel'[chain'[i]] = 0
        BY <2>3 DEF FiredHasNoDelay
      <4>1. old(i) \in 1 .. n /\ old(i) # k /\ chain[old(i)] \in fired
        BY <2>4
      <4>2. rel[chain[old(i)]] = 0
        BY <4>1 DEF ListInv, FiredHasNoDelay
      <4>3. old(i) = k + 1 => rel[t] = 0
        <5>1. old(i) = k + 1 => k < old(i)
          BY <2>2
        <5> QED
          BY <5>1, <4>1, <2>1 DEF ListInv, FiredFirst, FiredHasNoDelay
      <4> QED
        BY <4>1, <4>2, <4>3, <2>4, <2>7
    <3>4. FrontHasDelay'
      <4> SUFFICES ASSUME NEW i \in 1 .. n - 1, chain'[i] \notin fired,
                          i = 1 \/ chain'[i - 1] \in fired
                   PROVE  rel'[chain'[i]] > 0
        BY <2>3 DEF FrontHasDelay
      <4> DEFINE m == old(i)
      <4>1. m \in 1 .. n /\ m # k /\ chain[m] \notin fired /\ chain'[i] = chain[m]
        BY <2>4
      <4>2. i # 1 => i - 1 \in 1 .. n - 1 /\ chain[old(i - 1)] \in fired
        <5>1. i # 1 => i - 1 \in 1 .. n - 1
          BY <2>2
        <5> QED
          BY <5>1, <2>4
      <4>3. rel[t] \in Nat /\ rel[chain[m]] \in Nat
        BY <1>1, <2>2, <4>1
      <4>4. CASE m = k + 1
        <5>1. i = k /\ (i # 1 => old(i - 1) = k - 1)
          BY <4>4, <2>2 DEF old
        <5>2. CASE t \in fired
          <6>1. chain[m - 1] \in fired
            BY <4>4, <5>2, <2>1, <2>2
          <6>2. rel[chain[m]] > 0
            BY <4>1, <6>1 DEF ListInv, FrontHasDelay
          <6> QED
            BY <4>1, <4>3, <4>4, <6>2, <2>7
        <5>3. CASE t \notin fired
          <6>1. rel[t] > 0
            BY <5>1, <5>3, <4>2, <2>1 DEF ListInv, FrontHasDelay
          <6> QED
            BY <4>1, <4>3, <4>4, <6>1, <2>7
        <5> QED
          BY <5>2, <5>3
      <4>5. CASE m # k + 1
        <5>1. m = 1 \/ (i # 1 /\ old(i - 1) = m - 1)
          BY <4>5, <2>2 DEF old
        <5>2. rel[chain[m]] > 0
          BY <4>1, <4>2, <5>1 DEF ListInv, FrontHasDelay
        <5> QED
          BY <4>1, <4>5, <5>2, <2>7
      <4> QED
        BY <4>4, <4>5
    <3> QED
      BY <3>1, <3>2, <3>3, <3>4 DEF ListInv
  <2>9. /\ itimer' \in Nat /\ pending' \in BOOLEAN
        /\ sigalrm' \in {"default", "ignore", "handler"}
    <3>1. CASE k = 1 /\ chain' # <<>> /\ rel'[chain'[1]] > 0
      <4>1. chain'[1] \in Timer
        BY <2>3, <3>1
      <4>2. itimer' = rel'[chain'[1]] /\ sigalrm' = "handler" /\ pending' = pending
        BY <2>1, <3>1 DEF SetupNextTimer
      <4>3. itimer' \in Nat
        BY <4>1, <4>2, <2>5
      <4> QED
        BY <1>1, <4>2, <4>3
    <3>2. CASE k = 1 /\ ~(chain' # <<>> /\ rel'[chain'[1]] > 0)
      <4>1. itimer' = itimer /\ sigalrm' = "ignore" /\ pending' = FALSE
        BY <2>1, <3>2 DEF SetupNextTimer
      <4> QED
        BY <1>1, <4>1
    <3>3. CASE k # 1
      BY <1>1, <2>1, <3>3 DEF kernelVars
    <3> QED
      BY <3>1, <3>2, <3>3
  <2>10. AlarmHasTimer' /\ NoLostWakeup'
    <3>1. CASE k = 1
      <4>1. CASE chain' = <<>>
        BY <2>1, <3>1, <4>1 DEF SetupNextTimer, AlarmHasTimer, NoLostWakeup
      <4>2. CASE chain' # <<>>
        <5>1. 1 \in 1 .. n - 1 /\ chain'[1] = chain[2] /\ 2 \in 1 .. n
          BY <2>2, <2>3, <3>1, <4>2
        <5>2. CASE chain'[1] \in fired
          <6>1. chain[1] \in fired /\ chain # <<>>
            BY <5>1, <5>2 DEF ListInv, FiredFirst
          <6>2. pipe > 0
            BY <6>1 DEF NoLostWakeup
          <6> QED
            BY <4>2, <5>2, <6>2 DEF AlarmHasTimer, NoLostWakeup
        <5>3. CASE chain'[1] \notin fired
          <6>1. rel'[chain'[1]] > 0
            BY <2>8, <2>3, <5>1, <5>3 DEF ListInv, FrontHasDelay
          <6>2. sigalrm' = "handler" /\ itimer' > 0
            BY <2>1, <3>1, <4>2, <6>1 DEF SetupNextTimer
          <6> QED
            BY <4>2, <5>3, <6>2 DEF AlarmHasTimer, NoLostWakeup
        <5> QED
          BY <5>2, <5>3
      <4> QED
        BY <4>1, <4>2
    <3>2. CASE k # 1
      <4>1. 1 \in 1 .. n - 1 /\ chain'[1] = chain[1] /\ chain' # <<>> /\ chain # <<>>
        BY <2>2, <2>3, <3>2
      <4>2. UNCHANGED kernelVars
        BY <2>1, <3>2
      <4> QED
        BY <4>1, <4>2 DEF AlarmHasTimer, NoLostWakeup, kernelVars
    <3> QED
      BY <3>1, <3>2
  <2>11. \A i \in 1 .. Len(chain') : chain'[i] \in allocated /\ chain'[i] # t
    <3> SUFFICES ASSUME NEW i \in 1 .. n - 1
                 PROVE  chain'[i] \in allocated /\ chain'[i] # t
      BY <2>3
    <3> QED
      BY <2>1, <2>4, <2>6 DEF Reachable
  <2> QED
    BY <2>3, <2>5, <2>8, <2>9, <2>10, <2>11
<1> QED
  BY <1>2, <1>3

LEMMA DeleteTimerStep ==
  ASSUME IndInv, NEW t \in Timer, DeleteTimer(t)
  PROVE  IndInv'
<1> USE DEF IndInv, DeleteTimer, LispRuns
<1>1. /\ chain' \in Seq(Timer) /\ rel' \in [Timer -> Nat]
      /\ itimer' \in Nat /\ pending' \in BOOLEAN
      /\ sigalrm' \in {"default", "ignore", "handler"}
      /\ ListInv' /\ AlarmHasTimer' /\ NoLostWakeup'
      /\ \A i \in 1 .. Len(chain') : chain'[i] \in allocated /\ chain'[i] # t
  BY UnlinkStep
<1>2. deleted' \in SUBSET Timer
  BY DEF UnlinkTimer, TypeOK
<1>3. TypeOK'
  BY <1>1, <1>2 DEF TypeOK, lispVars, insVars
<1>4. Inserting' /\ Reachable'
  BY <1>1 DEF Inserting, Reachable, lispVars
<1> QED
  BY <1>1, <1>3, <1>4

LEMMA SetTimerStep ==
  ASSUME IndInv, NEW t \in Timer, NEW p \in 0 .. MaxPeriod, SetTimer(t, p)
  PROVE  IndInv'
<1> USE DEF IndInv, SetTimer, LispRuns
<1>1. /\ chain' \in Seq(Timer) /\ rel' \in [Timer -> Nat]
      /\ itimer' \in Nat /\ pending' \in BOOLEAN
      /\ sigalrm' \in {"default", "ignore", "handler"}
      /\ ListInv' /\ AlarmHasTimer' /\ NoLostWakeup'
      /\ \A i \in 1 .. Len(chain') : chain'[i] \in allocated /\ chain'[i] # t
  BY UnlinkStep
<1>2. deleted' \in SUBSET Timer
  BY DEF UnlinkTimer, TypeOK
<1>3. period' \in [Timer -> Nat]
  <2>1. p \in Nat
    BY TimersAssumption
  <2> QED
    BY <2>1 DEF TypeOK
<1>4. TypeOK'
  BY <1>1, <1>2, <1>3 DEF TypeOK, lispVars, Modes
<1>5. Inserting' /\ Reachable'
  BY <1>1 DEF Inserting, Reachable, lispVars
<1> QED
  BY <1>1, <1>4, <1>5

(* timer_signal_handler().  Whatever had fired has no delay left, so the    *)
(* timers it marks are exactly the prefix of the chain without delays.      *)
LEMMA TimerSignalHandlerStep == IndInv /\ TimerSignalHandler => IndInv'
<1> SUFFICES ASSUME IndInv, TimerSignalHandler PROVE IndInv'
  OBVIOUS
<1> USE DEF IndInv
<1> DEFINE n == Len(chain)
           D(k) == \A j \in 2 .. k : rel[chain[j]] = 0
<1>1. /\ chain \in Seq(Timer) /\ n \in Nat /\ 1 \in 1 .. n
      /\ \A i \in 1 .. n : chain[i] \in Timer
      /\ rel \in [Timer -> Nat]
  <2>1. chain \in Seq(Timer) /\ chain # <<>> /\ rel \in [Timer -> Nat]
    BY DEF TypeOK, TimerSignalHandler
  <2> QED
    BY <2>1
<1>2. \A i, j \in 1 .. n : chain[i] = chain[j] => i = j
  BY DEF ListInv, NoDuplicates
<1>3. /\ rel' \in [Timer -> Nat] /\ rel'[chain[1]] = 0
      /\ \A i \in 2 .. n : rel'[chain[i]] = rel[chain[i]]
  <2>1. rel' = [rel EXCEPT ![chain[1]] = 0]
    BY DEF TimerSignalHandler
  <2>2. \A i \in 2 .. n : chain[i] \in Timer /\ chain[i] # chain[1]
    BY <1>1, <1>2
  <2> QED
    BY <1>1, <2>1, <2>2
<1>4. ASSUME NEW k \in 1 .. n PROVE chain[k] \in fired' <=> D(k)
  <2>1. fired' = fired \cup {chain[i] : i \in {m \in 1 .. n : D(m)}}
    BY DEF TimerSignalHandler
  <2>2. chain[k] \in fired => D(k)
    <3> SUFFICES ASSUME chain[k] \in fired, NEW j \in 2 .. k PROVE rel[chain[j]] = 0
      OBVIOUS
    <3>1. j \in 1 .. n /\ (j < k \/ j = k)
      BY <1>1
    <3>2. chain[j] \in fired
      BY <3>1 DEF ListInv, FiredFirst
    <3> QED
      BY <3>1, <3>2 DEF ListInv, FiredHasNoDelay
  <2> HIDE DEF D
  <2> QED
    BY <1>2, <2>1, <2>2
<1>5. TypeOK'
  <2>1. fired' \in SUBSET Timer
    BY <1>1 DEF TimerSignalHandler, TypeOK
  <2>2. pipe' \in 0 .. PipeMax
    BY TimersAssumption DEF TimerSignalHandler, TypeOK
  <2> QED
    BY <1>3, <2>1, <2>2 DEF TimerSignalHandler, TypeOK, lispVars, insVars
<1>6. ListInv'
  <2>1. chain' = chain
    BY DEF TimerSignalHandler
  <2>2. NoDuplicates'
    BY <1>2, <2>1 DEF NoDuplicates
  <2>3. FiredFirst'
    <3> SUFFICES ASSUME NEW i \in 1 .. n, NEW j \in 1 .. n, i < j, chain[j] \in fired'
                 PROVE  chain[i] \in fired'
      BY <2>1 DEF FiredFirst
    <3>1. D(i)
      BY <1>4
    <3> QED
      BY <3>1, <1>4
  <2>4. FiredHasNoDelay'
    <3> SUFFICES ASSUME NEW i \in 1 .. n, chain[i] \in fired'
                 PROVE  rel'[chain[i]] = 0
      BY <2>1 DEF FiredHasNoDelay
    <3>1. CASE i = 1
      BY <3>1, <1>3
    <3>2. CASE i # 1
      <4>1. i \in 2 .. n /\ i \in 2 .. i
        BY <3>2
      <4>2. rel[chain[i]] = 0
        BY <4>1, <1>4
      <4> QED
        BY <4>1, <4>2, <1>3
    <3> QED
      BY <3>1, <3>2
  <2>5. FrontHasDelay'
    <3> SUFFICES ASSUME NEW i \in 1 .. n, chain[i] \notin fired',
                        i = 1 \/ chain[i - 1] \in fired'
                 PROVE  rel'[chain[i]] > 0
      BY <2>1 DEF FrontHasDelay
    <3>1. D(1)
      OBVIOUS
    <3>2. i # 1
      BY <3>1, <1>1, <1>4
    <3>3. i \in 2 .. n /\ i - 1 \in 1 .. n
      BY <3>2, <1>1
    <3>4. D(i - 1) /\ ~D(i)
      BY <3>2, <3>3, <1>4
    <3>5. rel[chain[i]] # 0
      BY <3>3, <3>4
    <3> QED
      BY <3>3, <3>5, <1>1, <1>3
  <2> QED
    BY <2>2, <2>3, <2>4, <2>5 DEF ListInv
<1>7. Inserting' /\ Reachable' /\ AlarmHasTimer'
  BY DEF TimerSignalHandler, Inserting, Reachable, AlarmHasTimer, lispVars, insVars, Blocked
<1>8. NoLostWakeup'
  <2>1. D(1)
    OBVIOUS
  <2>2. chain'[1] \in fired' /\ pipe' > 0
    BY <2>1, <1>1, <1>4 DEF TimerSignalHandler, TypeOK
  <2> QED
    BY <2>2 DEF NoLostWakeup
<1> QED
  BY <1>5, <1>6, <1>7, <1>8

(* One iteration of timer_fd_handler()'s first loop. *)
LEMMA FdCollectStep == IndInv /\ FdCollect => IndInv'
<1> SUFFICES ASSUME IndInv, FdCollect PROVE IndInv'
  OBVIOUS
<1> USE DEF IndInv
<1> DEFINE n == Len(chain)
           f == Len(frames)
<1>1. /\ chain \in Seq(Timer) /\ chain # <<>> /\ n \in Nat /\ 1 \in 1 .. n
      /\ chain[1] \in fired /\ chain[1] \in Timer /\ chain[1] \in allocated
      /\ mode = "collect"
  <2>1. chain \in Seq(Timer) /\ chain # <<>> /\ chain[1] \in fired /\ mode = "collect"
    BY DEF TypeOK, FdCollect, HeadFired
  <2>2. n \in Nat /\ 1 \in 1 .. n /\ chain[1] \in Timer
    BY <2>1
  <2> QED
    BY <2>1, <2>2 DEF Reachable
<1>2. /\ chain' \in Seq(Timer) /\ Len(chain') = n - 1
      /\ \A i \in 1 .. n - 1 : chain'[i] = chain[i + 1] /\ i + 1 \in 1 .. n
  BY <1>1, HeadTailProperties DEF FdCollect
<1>3. frames \in Seq(Frame) /\ f \in 1 .. f /\ f \in Nat /\ frames[f] \in Frame
  <2>1. frames \in Seq(Frame) /\ frames # <<>>
    BY <1>1 DEF TypeOK, Reachable
  <2> QED
    BY <2>1
<1>4. /\ frames' \in Seq(Frame) /\ Len(frames') = f
      /\ \A k \in 1 .. f : k # f => frames'[k] = frames[k]
      /\ frames'[f] = [timers |-> Append(frames[f].timers, chain[1]), i |-> frames[f].i]
  <2> DEFINE x == [timers |-> Append(frames[f].timers, chain[1]), i |-> frames[f].i]
  <2>1. frames[f].timers \in Seq(Timer) /\ frames[f].i \in Nat
    BY <1>3 DEF Frame
  <2>2. x \in Frame
    BY <1>1, <2>1 DEF Frame
  <2>3. [frames[f] EXCEPT !.timers = Append(@, chain[1])] = x
    <3>1. \A r \in [timers : Seq(Timer), i : Nat] : \A v :
            [r EXCEPT !.timers = v] = [timers |-> v, i |-> r.i]
      OBVIOUS
    <3> QED
      BY <3>1, <1>3 DEF Frame
  <2>4. frames' = [frames EXCEPT ![f] = x]
    BY <2>3 DEF FdCollect
  <2> HIDE DEF x
  <2>5. /\ [frames EXCEPT ![f] = x] \in Seq(Frame)
        /\ Len([frames EXCEPT ![f] = x]) = Len(frames)
        /\ \A j \in 1 .. Len(frames) :
             [frames EXCEPT ![f] = x][j] = IF j = f THEN x ELSE frames[j]
    BY <1>3, <2>2, ExceptSeq
  <2>6. /\ frames' \in Seq(Frame) /\ Len(frames') = f
        /\ \A k \in 1 .. f : k # f => frames'[k] = frames[k]
        /\ frames'[f] = x
    BY <1>3, <2>4, <2>5
  <2> QED
    BY <2>6 DEF x
<1>5. TypeOK'
  <2>1. mode' = "collect"
    BY <1>1 DEF FdCollect
  <2> QED
    BY <1>2, <1>4, <2>1 DEF FdCollect, TypeOK, lispVars, kernelVars, insVars
<1>6. ListInv'
  <2>1. rel' = rel /\ fired' = fired
    BY DEF FdCollect
  <2>2. NoDuplicates'
    <3> SUFFICES ASSUME NEW i \in 1 .. n - 1, NEW j \in 1 .. n - 1, chain'[i] = chain'[j]
                 PROVE  i = j
      BY <1>2 DEF NoDuplicates
    <3>1. i + 1 = j + 1
      BY <1>2 DEF ListInv, NoDuplicates
    <3> QED
      BY <3>1
  <2>3. FiredFirst'
    <3> SUFFICES ASSUME NEW i \in 1 .. n - 1, NEW j \in 1 .. n - 1, i < j,
                        chain'[j] \in fired
                 PROVE  chain'[i] \in fired
      BY <1>2, <2>1 DEF FiredFirst
    <3>1. i + 1 < j + 1
      OBVIOUS
    <3> QED
      BY <1>2, <3>1 DEF ListInv, FiredFirst
  <2>4. FiredHasNoDelay'
    BY <1>2, <2>1 DEF ListInv, FiredHasNoDelay
  <2>5. FrontHasDelay'
    <3> SUFFICES ASSUME NEW i \in 1 .. n - 1, chain'[i] \notin fired,
                        i = 1 \/ chain'[i - 1] \in fired
                 PROVE  rel[chain'[i]] > 0
      BY <1>2, <2>1 DEF FrontHasDelay
    <3>1. i # 1 => i - 1 \in 1 .. n - 1
      BY <1>1
    <3>2. (i + 1) - 1 = i /\ (i - 1) + 1 = i
      OBVIOUS
    <3>3. chain[i] \in fired
      BY <1>1, <1>2, <3>1, <3>2
    <3> QED
      BY <1>2, <3>2, <3>3 DEF ListInv, FrontHasDelay
  <2> QED
    BY <2>2, <2>3, <2>4, <2>5 DEF ListInv
<1>7. Reachable'
  <2>1. \A i \in 1 .. Len(chain') : chain'[i] \in allocated
    BY <1>2 DEF Reachable
  <2>2. ASSUME NEW k \in 1 .. f
        PROVE  /\ \A i \in 1 .. Len(frames'[k].timers) : frames'[k].timers[i] \in allocated
               /\ frames'[k].i >= 1
    <3>1. CASE k # f
      BY <3>1, <1>4 DEF Reachable
    <3>2. CASE k = f
      <4> DEFINE s == frames[f].timers
      <4>1. s \in Seq(Timer) /\ \A i \in 1 .. Len(s) : s[i] \in allocated
        BY <1>3 DEF Frame, Reachable
      <4>2. frames[f].i >= 1
        BY <1>3 DEF Reachable
      <4>3. frames'[f].timers = Append(s, chain[1]) /\ frames'[f].i = frames[f].i
        BY <1>4
      <4> HIDE DEF s
      <4>4. \A i \in 1 .. Len(Append(s, chain[1])) : Append(s, chain[1])[i] \in allocated
        BY <4>1, <1>1
      <4> QED
        BY <3>2, <4>2, <4>3, <4>4
    <3> QED
      BY <3>1, <3>2
  <2>3. frames' # <<>>
    BY <1>3, <1>4
  <2> QED
    BY <2>1, <2>2, <2>3, <1>1, <1>4 DEF FdCollect, Reachable, lispVars, insVars
<1>8. Inserting' /\ AlarmHasTimer' /\ NoLostWakeup'
  BY <1>1 DEF FdCollect, Inserting, AlarmHasTimer, NoLostWakeup
<1> QED
  BY <1>5, <1>6, <1>7, <1>8

LEMMA FdArmStep == IndInv /\ FdArm => IndInv'
<1> SUFFICES ASSUME IndInv, FdArm PROVE IndInv'
  OBVIOUS
<1> USE DEF IndInv
<1>1. chain \in Seq(Timer) /\ rel \in [Timer -> Nat] /\ itimer \in Nat /\ pending \in BOOLEAN
  BY DEF TypeOK
<1>2. /\ itimer' \in Nat /\ pending' \in BOOLEAN
      /\ sigalrm' \in {"default", "ignore", "handler"}
      /\ chain # <<>> => sigalrm' = "handler" /\ itimer' > 0
      /\ chain = <<>> => sigalrm' = "ignore"
  <2>1. CASE chain # <<>>
    <3>1. 1 \in 1 .. Len(chain) /\ chain[1] \in Timer
      BY <1>1, <2>1
    <3>2. rel[chain[1]] > 0
      BY <2>1, <3>1 DEF FdArm, HeadFired, ListInv, FrontHasDelay
    <3>3. itimer' = rel[chain[1]] /\ sigalrm' = "handler" /\ pending' = pending
      BY <2>1, <3>2 DEF FdArm, SetupNextTimer
    <3>4. itimer' \in Nat /\ itimer' > 0
      BY <1>1, <3>1, <3>2, <3>3
    <3> QED
      BY <1>1, <2>1, <3>3, <3>4
  <2>2. CASE chain = <<>>
    <3>1. itimer' = itimer /\ sigalrm' = "ignore" /\ pending' = FALSE
      BY <2>2 DEF FdArm, SetupNextTimer
    <3> QED
      BY <1>1, <2>2, <3>1
  <2> QED
    BY <2>1, <2>2
<1>3. TypeOK'
  <2>1. frames # <<>> /\ mode' \in Modes
    BY DEF FdArm, Reachable, Modes
  <2> QED
    BY <1>2, <2>1 DEF FdArm, TypeOK, timerVars, lispVars, insVars
<1>4. ListInv'
  BY ListUnchanged DEF FdArm, timerVars
<1>5. Inserting' /\ Reachable' /\ AlarmHasTimer'
  BY <1>2 DEF FdArm, Inserting, Reachable, AlarmHasTimer, timerVars, lispVars, insVars
<1>6. NoLostWakeup'
  BY <1>2 DEF FdArm, HeadFired, NoLostWakeup, timerVars
<1> QED
  BY <1>3, <1>4, <1>5, <1>6

-----------------------------------------------------------------------------
LEMMA InitEstablishes == Init => IndInv
<1> SUFFICES ASSUME Init PROVE IndInv
  OBVIOUS
<1> USE DEF Init
<1>1. TypeOK
  <2>1. chain \in Seq(Timer) /\ frames \in Seq(Frame)
    OBVIOUS
  <2>2. rel \in [Timer -> Nat] /\ period \in [Timer -> Nat]
    OBVIOUS
  <2>3. pipe \in 0 .. PipeMax /\ ptr \in Nat /\ itimer \in Nat
    BY TimersAssumption
  <2>4. pending \in BOOLEAN /\ thrown \in BOOLEAN
    OBVIOUS
  <2> QED
    BY <2>1, <2>2, <2>3, <2>4 DEF TypeOK, Modes
<1>2. ListInv
  BY DEF ListInv, NoDuplicates, FiredFirst, FiredHasNoDelay, FrontHasDelay
<1>3. Inserting /\ Reachable /\ AlarmHasTimer /\ NoLostWakeup
  BY DEF Inserting, Reachable, AlarmHasTimer, NoLostWakeup
<1> QED
  BY <1>1, <1>2, <1>3 DEF IndInv

LEMMA NextPreserves == IndInv /\ [Next]_vars => IndInv'
<1> SUFFICES ASSUME IndInv, [Next]_vars PROVE IndInv'
  OBVIOUS
<1>1. CASE Alarm
  BY <1>1, TickStep, TimerSignalHandlerStep, IgnoreSignalStep DEF Alarm
<1>2. CASE LispCall
  BY <1>2, MakeTimerStep, SetTimerStep, DeleteTimerStep, DropReferenceStep DEF LispCall
<1>3. CASE InsertTimer
  BY <1>3, InsertStepStep, LinkTimerStep, SetTimerInsertStep DEF InsertTimer
<1>4. CASE TimerFdHandler
  BY <1>4, FdReadStep, FdBlockStep, FdCollectStep, FdArmStep, FdCallStep, FdSkipStep,
     FdReturnStep DEF TimerFdHandler
<1>5. CASE GarbageCollect \/ Throw \/ HandleException \/ CallbackReturn \/ Kill
  BY <1>5, GarbageCollectStep, ThrowStep, HandleExceptionStep, CallbackReturnStep, KillStep
<1>6. CASE Exited \/ UNCHANGED vars
  BY <1>6, StutterStep DEF Exited
<1> QED
  BY <1>1, <1>2, <1>3, <1>4, <1>5, <1>6 DEF Next

(* The inductive invariant holds in every reachable state. *)
THEOREM Inductive == Spec => []IndInv
  BY InitEstablishes, NextPreserves, PTL DEF Spec

(* Every field of the timers, the kernel's state and the interpreter's      *)
(* position keep their types, whatever Lisp code and SIGALRM do.            *)
THEOREM TypeCorrect == Spec => []TypeOK
<1>1. IndInv => TypeOK
  BY DEF IndInv
<1> QED
  BY <1>1, Inductive, PTL

(* A queued timer always has its wakeup: timer_signal_handler(),            *)
(* insert_timer(), delete_timer() and timer_fd_handler() never leave the    *)
(* chain without a running alarm, a pending signal or a word in the pipe.   *)
THEOREM WakeupsKept == Spec => []NoLostWakeup
<1>1. IndInv => NoLostWakeup
  BY DEF IndInv
<1> QED
  BY <1>1, Inductive, PTL

(* The assertion at the top of timer_signal_handler() never fails. *)
THEOREM HandlerAssertion == Spec => []HandlerHasTimer
<1>1. IndInv => HandlerHasTimer
  BY DEF IndInv, AlarmHasTimer, HandlerHasTimer, Blocked
<1> QED
  BY <1>1, Inductive, PTL

(* Fired timers are a prefix of the chain, so that timer_fd_handler(),      *)
(* which stops at the first timer that has not fired, misses none.          *)
THEOREM FiredArePrefix == Spec => []FiredFirst
<1>1. IndInv => FiredFirst
  BY DEF IndInv, ListInv
<1> QED
  BY <1>1, Inductive, PTL

(* timer_sweep() never frees a timer that the chain, an insertion in        *)
(* progress or an active timer_fd_handler() still refers to.                *)
THEOREM NothingDangles == Spec => []NoDanglingTimer
<1>1. ASSUME IndInv PROVE NoDanglingTimer
  <2>1. ToSet(chain) \subseteq allocated
    BY <1>1 DEF IndInv, TypeOK, Reachable, ToSet
  <2>2. RootsOfFrames \subseteq allocated
    <3> SUFFICES ASSUME NEW k \in DOMAIN frames, NEW t \in ToSet(frames[k].timers)
                 PROVE  t \in allocated
      BY DEF RootsOfFrames
    <3>1. k \in 1 .. Len(frames) /\ frames[k] \in Frame
      BY <1>1 DEF IndInv, TypeOK
    <3>2. PICK i \in 1 .. Len(frames[k].timers) : t = frames[k].timers[i]
      BY <3>1 DEF ToSet, Frame
    <3> QED
      BY <1>1, <3>1, <3>2 DEF IndInv, Reachable
  <2> QED
    BY <1>1, <2>1, <2>2 DEF IndInv, Reachable, NoDanglingTimer
<1> QED
  BY <1>1, Inductive, PTL
-----------------------------------------------------------------------------
(* The delta list as a list of due times *)

(* A set that holds 0, and n + 1 whenever it holds n, up to a bound, holds  *)
(* all numbers up to the bound.                                             *)
LEMMA Climb ==
  ASSUME NEW b \in Nat, NEW S, 0 \in S, \A n \in 0 .. b : n \in S /\ n < b => n + 1 \in S
  PROVE  0 .. b \subseteq S
<1> SUFFICES ASSUME 0 .. b \ S # {} PROVE FALSE
  OBVIOUS
<1> DEFINE T == 0 .. b \ S
<1>1. T \subseteq Nat /\ T # {}
  OBVIOUS
<1>2. PICK x \in T : \A y \in T : ~(<<y, x>> \in OpToRel(<, Nat))
  BY <1>1, NatLessThanWellFounded, WFMin
<1>3. ASSUME NEW y \in T PROVE ~(y < x)
  <2>1. y \in Nat /\ x \in Nat /\ ~(<<y, x>> \in OpToRel(<, Nat))
    BY <1>1, <1>2
  <2> QED
    BY <2>1 DEF OpToRel
<1>4. x \in 0 .. b /\ x \notin S /\ x # 0
  BY <1>2
<1>5. x - 1 \in 0 .. b /\ x - 1 < b /\ x - 1 < x /\ x - 1 + 1 = x
  BY <1>4
<1>6. x - 1 \notin T
  BY <1>3, <1>5
<1> QED
  BY <1>4, <1>5, <1>6

(* The running sums of a list of delays. *)
Sums(W, d, n) == W = [k \in 0 .. n |-> IF k = 0 THEN 0 ELSE W[k - 1] + d[k]]

LEMMA SumsExist ==
  ASSUME NEW b \in Nat, NEW d \in [1 .. b -> Nat]
  PROVE  \E W \in [0 .. b -> Nat] : Sums(W, d, b)
<1> DEFINE N == {n \in 0 .. b : \E W \in [0 .. n -> Nat] : Sums(W, d, n)}
<1>1. 0 \in N
  <2> DEFINE W == [k \in 0 .. 0 |-> 0]
  <2>1. W \in [0 .. 0 -> Nat]
    OBVIOUS
  <2>2. Sums(W, d, 0)
    BY DEF Sums
  <2> QED
    BY <2>1, <2>2
<1>2. ASSUME NEW n \in 0 .. b, n \in N, n < b PROVE n + 1 \in N
  <2>1. n \in Nat /\ n + 1 \in 1 .. b /\ n + 1 \in 0 .. b
    BY <1>2
  <2>2. PICK W \in [0 .. n -> Nat] : Sums(W, d, n)
    BY <1>2
  <2> DEFINE last == W[n] + d[n + 1]
             V == [k \in 0 .. n + 1 |-> IF k = n + 1 THEN last ELSE W[k]]
  <2>3. last \in Nat
    BY <2>1
  <2> HIDE DEF last
  <2>4. V \in [0 .. n + 1 -> Nat]
    BY <2>1, <2>3
  <2>5. ASSUME NEW k \in 0 .. n + 1
        PROVE  V[k] = IF k = 0 THEN 0 ELSE V[k - 1] + d[k]
    <3>1. CASE k = n + 1
      <4>1. k # 0 /\ V[k] = last /\ k - 1 = n
        BY <2>1, <3>1
      <4>2. V[k - 1] = W[n]
        <5>1. n \in 0 .. n + 1 /\ n # n + 1
          BY <2>1
        <5> QED
          BY <4>1, <5>1
      <4> HIDE DEF V
      <4> QED
        BY <4>1, <4>2, <3>1 DEF last
    <3>2. CASE k \in 0 .. n
      <4>1. V[k] = W[k] /\ (k # 0 => V[k - 1] = W[k - 1])
        BY <2>1, <3>2
      <4>2. W[k] = IF k = 0 THEN 0 ELSE W[k - 1] + d[k]
        BY <2>2, <3>2 DEF Sums
      <4> HIDE DEF V
      <4> QED
        BY <4>1, <4>2
    <3> QED
      BY <2>1, <3>1, <3>2
  <2> HIDE DEF V
  <2>6. Sums(V, d, n + 1)
    BY <2>4, <2>5 DEF Sums
  <2> QED
    BY <2>1, <2>4, <2>6
<1> HIDE DEF N
<1>3. \A n \in 0 .. b : n \in N /\ n < b => n + 1 \in N
  BY <1>2
<1>4. 0 .. b \subseteq N
  BY <1>1, <1>3, Climb
<1>5. b \in N
  BY <1>4
<1> QED
  BY <1>5 DEF N

(* DueAt adds up the delays of the list. *)
LEMMA DueEquations ==
  ASSUME NEW c \in Seq(Timer), NEW r \in [Timer -> Nat]
  PROVE  /\ DueAt(c, r)[0] = 0
         /\ \A n \in 1 .. Len(c) : DueAt(c, r)[n] = DueAt(c, r)[n - 1] + r[c[n]]
         /\ \A n \in 0 .. Len(c) : DueAt(c, r)[n] \in Nat
<1> DEFINE d == [k \in 1 .. Len(c) |-> r[c[k]]]
           P(U) == U = [k \in 0 .. Len(c) |-> IF k = 0 THEN 0 ELSE U[k - 1] + r[c[k]]]
           D == DueAt(c, r)
<1>1. Len(c) \in Nat /\ \A k \in 1 .. Len(c) : c[k] \in Timer
  OBVIOUS
<1>2. d \in [1 .. Len(c) -> Nat]
  BY <1>1
<1>3. PICK W \in [0 .. Len(c) -> Nat] : Sums(W, d, Len(c))
  <2> HIDE DEF d
  <2> QED
    BY <1>1, <1>2, SumsExist
<1>4. P(W)
  <2>1. W = [k \in 0 .. Len(c) |-> IF k = 0 THEN 0 ELSE W[k - 1] + d[k]]
    BY <1>3 DEF Sums
  <2>2. \A k \in 0 .. Len(c) : k # 0 => k \in 1 .. Len(c)
    BY <1>1
  <2>3. \A k \in 0 .. Len(c) : k # 0 => d[k] = r[c[k]]
    BY <2>2
  <2> HIDE DEF d
  <2> QED
    BY <2>1, <2>3
<1>5. D = CHOOSE U : P(U)
  BY DEF DueAt
<1> HIDE DEF P, D
<1>6. P(D)
  BY <1>4, <1>5
<1>7. D = [k \in 0 .. Len(c) |-> IF k = 0 THEN 0 ELSE D[k - 1] + r[c[k]]]
  BY <1>6 DEF P
<1>8. D[0] = 0
  BY <1>1, <1>7
<1>9. ASSUME NEW n \in 1 .. Len(c) PROVE D[n] = D[n - 1] + r[c[n]]
  <2>1. n \in 0 .. Len(c) /\ n # 0
    BY <1>1
  <2> QED
    BY <1>7, <2>1
<1>10. \A n \in 0 .. Len(c) : D[n] \in Nat
  <2> DEFINE S == {n \in Nat : D[n] \in Nat}
  <2>1. 0 \in S
    BY <1>8
  <2>2. ASSUME NEW n \in 0 .. Len(c), n \in S, n < Len(c) PROVE n + 1 \in S
    <3>1. n + 1 \in 1 .. Len(c) /\ n + 1 - 1 = n /\ n + 1 \in Nat
      BY <1>1, <2>2
    <3>2. D[n + 1] = D[n] + r[c[n + 1]] /\ r[c[n + 1]] \in Nat
      BY <1>1, <1>9, <3>1
    <3> QED
      BY <2>2, <3>1, <3>2
  <2> HIDE DEF S
  <2>3. 0 .. Len(c) \subseteq S
    BY <1>1, <2>1, <2>2, Climb
  <2> QED
    BY <2>3 DEF S
<1> QED
  BY <1>8, <1>9, <1>10 DEF D

(* From the places after a and b on, as far as m, the delays are the same,  *)
(* and so are the due times.                                                *)
SameDelaysAfter(c, r, d, s, a, b, m) ==
  \A i \in 1 .. Len(c), j \in 1 .. Len(d) :
    a < i /\ i <= m /\ i - a = j - b => r[c[i]] = s[d[j]]

SameDueAfter(c, r, d, s, a, b, m) ==
  \A i \in 0 .. Len(c), j \in 0 .. Len(d) :
    a <= i /\ i <= m /\ i - a = j - b => DueAt(c, r)[i] = DueAt(d, s)[j]

(* Two lists that agree at a place and have the same delays after it agree  *)
(* for as long as the delays do.                                            *)
LEMMA DueShift ==
  ASSUME NEW c \in Seq(Timer), NEW r \in [Timer -> Nat],
         NEW d \in Seq(Timer), NEW s \in [Timer -> Nat],
         NEW a \in 0 .. Len(c), NEW b \in 0 .. Len(d), NEW m \in Nat,
         DueAt(c, r)[a] = DueAt(d, s)[b],
         SameDelaysAfter(c, r, d, s, a, b, m)
  PROVE  SameDueAfter(c, r, d, s, a, b, m)
<1> DEFINE C == DueAt(c, r)
           D == DueAt(d, s)
           Agree(k) == \A i \in 0 .. Len(c), j \in 0 .. Len(d) :
                         i <= m /\ i - a = k /\ j - b = k => C[i] = D[j]
           S == {k \in Nat : Agree(k)}
<1> HIDE DEF C, D
<1>1. Len(c) \in Nat /\ Len(d) \in Nat /\ a \in Nat /\ b \in Nat
  OBVIOUS
<1>2. \A n \in 1 .. Len(c) : C[n] = C[n - 1] + r[c[n]]
  BY DueEquations DEF C
<1>3. \A n \in 1 .. Len(d) : D[n] = D[n - 1] + s[d[n]]
  BY DueEquations DEF D
<1>4. 0 \in S
  <2>1. \A i \in 0 .. Len(c), j \in 0 .. Len(d) : i - a = 0 /\ j - b = 0 => i = a /\ j = b
    BY <1>1
  <2>2. C[a] = D[b]
    BY DEF C, D
  <2> QED
    BY <2>1, <2>2
<1>5. ASSUME NEW k \in Nat, k \in S PROVE k + 1 \in S
  <2> SUFFICES ASSUME NEW i \in 0 .. Len(c), NEW j \in 0 .. Len(d),
                      i <= m, i - a = k + 1, j - b = k + 1
               PROVE  C[i] = D[j]
    OBVIOUS
  <2>1. /\ i \in 1 .. Len(c) /\ i - 1 \in 0 .. Len(c) /\ i - 1 <= m /\ (i - 1) - a = k /\ a < i
        /\ i - a = j - b
    BY <1>1
  <2>2. j \in 1 .. Len(d) /\ j - 1 \in 0 .. Len(d) /\ (j - 1) - b = k
    BY <1>1
  <2>3. C[i - 1] = D[j - 1]
    BY <1>5, <2>1, <2>2
  <2>4. C[i] = C[i - 1] + r[c[i]] /\ D[j] = D[j - 1] + s[d[j]]
    BY <1>2, <1>3, <2>1, <2>2
  <2>5. r[c[i]] = s[d[j]]
    BY <2>1, <2>2 DEF SameDelaysAfter
  <2> QED
    BY <2>3, <2>4, <2>5
<1> HIDE DEF S
<1>6. 0 .. Len(c) \subseteq S
  <2>1. \A k \in 0 .. Len(c) : k \in S /\ k < Len(c) => k + 1 \in S
    BY <1>1, <1>5
  <2> QED
    BY <1>1, <1>4, <2>1, Climb
<1>7. ASSUME NEW i \in 0 .. Len(c), NEW j \in 0 .. Len(d), a <= i, i <= m, i - a = j - b
      PROVE  C[i] = D[j]
  <2>1. i - a \in 0 .. Len(c) /\ j - b = i - a
    BY <1>1, <1>7
  <2>2. Agree(i - a)
    BY <1>6, <2>1 DEF S
  <2> QED
    BY <1>7, <2>1, <2>2
<1> QED
  BY <1>7 DEF C, D, SameDueAfter

(* The first m timers of one chain wait as long as those of the other.      *)
SameWaits(c, r, d, s, m) == \A k \in 1 .. m : r[c[k]] = s[d[k]]

LEMMA DuePrefix ==
  ASSUME NEW c \in Seq(Timer), NEW r \in [Timer -> Nat],
         NEW d \in Seq(Timer), NEW s \in [Timer -> Nat],
         NEW m \in Nat, m <= Len(c), m <= Len(d),
         SameWaits(c, r, d, s, m)
  PROVE  \A k \in 0 .. m : DueAt(c, r)[k] = DueAt(d, s)[k]
<1>1. Len(c) \in Nat /\ Len(d) \in Nat
  OBVIOUS
<1>2. DueAt(c, r)[0] = DueAt(d, s)[0]
  BY DueEquations
<1>3. SameDelaysAfter(c, r, d, s, 0, 0, m)
  <2> SUFFICES ASSUME NEW i \in 1 .. Len(c), NEW j \in 1 .. Len(d), i <= m, i - 0 = j - 0
               PROVE  r[c[i]] = s[d[j]]
    BY DEF SameDelaysAfter
  <2>1. i = j /\ i \in 1 .. m
    BY <1>1
  <2> QED
    BY <2>1 DEF SameWaits
<1>4. 0 \in 0 .. Len(c) /\ 0 \in 0 .. Len(d)
  BY <1>1
<1>5. SameDueAfter(c, r, d, s, 0, 0, m)
  BY ONLY <1>2, <1>3, <1>4, DueShift, m \in Nat, c \in Seq(Timer), d \in Seq(Timer),
     r \in [Timer -> Nat], s \in [Timer -> Nat]
<1>6. \A k \in 0 .. m : k \in 0 .. Len(c) /\ k \in 0 .. Len(d) /\ 0 <= k /\ k <= m /\ k - 0 = k - 0
  BY <1>1
<1> QED
  BY <1>5, <1>6 DEF SameDueAfter

(* The part of insert_timer()'s loop invariant that the delays rest on: the *)
(* time left in ins and the due time of the timer before ptr add up to the  *)
(* period asked for.                                                        *)
PeriodLeft ==
  mode = "insert" => rel[ins] + DueAt(chain, rel)[ptr - 1] = period[ins]

(* Every timer of d was in c and is due when it was. *)
Stays(c, r, d, s) ==
  \A i \in 1 .. Len(d) : \E j \in 1 .. Len(c) :
    c[j] = d[i] /\ DueAt(d, s)[i] = DueAt(c, r)[j]

(* What a step may do to the list. *)
Moves ==
  \A i \in 1 .. Len(chain') :
    IF \E j \in 1 .. Len(chain) : chain[j] = chain'[i]
    THEN \E j \in 1 .. Len(chain) :
           /\ chain[j] = chain'[i]
           /\ DueAt(chain', rel')[i] = DueAt(chain, rel)[j]
    ELSE DueAt(chain', rel')[i] = period[chain'[i]]

LEMMA StaysMoves == Stays(chain, rel, chain', rel') => Moves
  BY DEF Stays, Moves

(* The same list with the same delays. *)
LEMMA SameDelays ==
  ASSUME NEW c \in Seq(Timer), NEW r \in [Timer -> Nat], NEW s \in [Timer -> Nat],
         \A i \in 1 .. Len(c) : r[c[i]] = s[c[i]]
  PROVE  /\ \A k \in 0 .. Len(c) : DueAt(c, s)[k] = DueAt(c, r)[k]
         /\ Stays(c, r, c, s)
<1>1. Len(c) \in Nat
  OBVIOUS
<1>2. \A k \in 0 .. Len(c) : DueAt(c, s)[k] = DueAt(c, r)[k]
  <2> DEFINE m == Len(c)
  <2>1. m \in Nat /\ m <= Len(c) /\ SameWaits(c, s, c, r, m)
    BY <1>1 DEF SameWaits
  <2> HIDE DEF m
  <2>2. \A k \in 0 .. m : DueAt(c, s)[k] = DueAt(c, r)[k]
    BY ONLY <2>1, DuePrefix, c \in Seq(Timer), r \in [Timer -> Nat], s \in [Timer -> Nat]
  <2> QED
    BY <2>2 DEF m
<1>3. \A k \in 1 .. Len(c) : k \in 0 .. Len(c)
  BY <1>1
<1> QED
  BY <1>2, <1>3 DEF Stays

(* Only the timer that is being inserted, which is not in the list, has its *)
(* delay changed.                                                           *)
LEMMA OutsideDelay ==
  ASSUME IndInv, NEW t \in Timer, \A i \in 1 .. Len(chain) : chain[i] # t,
         NEW p \in Nat, rel' = [rel EXCEPT ![t] = p], chain' = chain
  PROVE  /\ \A k \in 0 .. Len(chain) : DueAt(chain, rel')[k] = DueAt(chain, rel)[k]
         /\ Moves
<1>1. chain \in Seq(Timer) /\ rel \in [Timer -> Nat]
  BY DEF IndInv, TypeOK
<1>2. rel' \in [Timer -> Nat] /\ \A u \in Timer : u # t => rel'[u] = rel[u]
  BY <1>1
<1>3. \A i \in 1 .. Len(chain) : rel[chain[i]] = rel'[chain[i]]
  BY <1>1, <1>2
<1>4. /\ \A k \in 0 .. Len(chain) : DueAt(chain, rel')[k] = DueAt(chain, rel)[k]
      /\ Stays(chain, rel, chain, rel')
  <2> DEFINE s == rel'
  <2>1. s \in [Timer -> Nat] /\ \A i \in 1 .. Len(chain) : rel[chain[i]] = s[chain[i]]
    BY <1>2, <1>3
  <2> HIDE DEF s
  <2>2. /\ \A k \in 0 .. Len(chain) : DueAt(chain, s)[k] = DueAt(chain, rel)[k]
        /\ Stays(chain, rel, chain, s)
    BY ONLY <1>1, <2>1, SameDelays
  <2> QED
    BY <2>2 DEF s
<1> QED
  BY <1>4, StaysMoves
(* timer_fd_handler() takes a fired timer, which has no delay left. *)
LEMMA CollectMoves == IndInv /\ FdCollect => Moves
<1> SUFFICES ASSUME IndInv, FdCollect PROVE Moves
  OBVIOUS
<1> DEFINE n == Len(chain)
           d == Tail(chain)
<1>1. chain \in Seq(Timer) /\ rel \in [Timer -> Nat] /\ rel' = rel /\ chain' = d
      /\ chain # <<>> /\ chain[1] \in fired
  BY DEF IndInv, TypeOK, FdCollect, HeadFired
<1>2. /\ d \in Seq(Timer) /\ n \in Nat \ {0} /\ Len(d) = n - 1
      /\ \A k \in 1 .. n - 1 : d[k] = chain[k + 1]
  BY <1>1
<1> HIDE DEF d
<1>3. rel[chain[1]] = 0
  BY <1>1, <1>2 DEF IndInv, ListInv, FiredHasNoDelay
<1>4. DueAt(chain, rel)[1] = DueAt(d, rel)[0]
  <2>1. DueAt(chain, rel)[0] = 0 /\ DueAt(d, rel)[0] = 0
    BY <1>1, <1>2, DueEquations
  <2>2. 1 \in 1 .. Len(chain) /\ 1 - 1 = 0
    BY <1>2
  <2>3. DueAt(chain, rel)[1] = DueAt(chain, rel)[1 - 1] + rel[chain[1]]
    BY <1>1, <2>2, DueEquations
  <2> QED
    BY <1>3, <2>1, <2>2, <2>3
<1>5. SameDueAfter(d, rel, chain, rel, 0, 1, n)
  <2>1. 0 \in 0 .. Len(d) /\ 1 \in 0 .. Len(chain) /\ n \in Nat
    BY <1>2
  <2>2. SameDelaysAfter(d, rel, chain, rel, 0, 1, n)
    <3> SUFFICES ASSUME NEW i \in 1 .. Len(d), NEW j \in 1 .. Len(chain), i - 0 = j - 1
                 PROVE  rel[d[i]] = rel[chain[j]]
      BY DEF SameDelaysAfter
    <3>1. i \in 1 .. n - 1 /\ j = i + 1
      BY <1>2
    <3> QED
      BY <1>2, <3>1
  <2>3. chain \in Seq(Timer) /\ rel \in [Timer -> Nat] /\ d \in Seq(Timer)
    BY <1>1, <1>2
  <2> HIDE DEF n
  <2> QED
    BY ONLY <2>3, <1>4, <2>1, <2>2, DueShift
<1>6. ASSUME NEW i \in 1 .. n - 1
      PROVE  /\ i + 1 \in 1 .. n /\ chain[i + 1] = d[i]
             /\ DueAt(d, rel)[i] = DueAt(chain, rel)[i + 1]
  <2>1. i \in 0 .. Len(d) /\ i + 1 \in 0 .. Len(chain) /\ i + 1 \in 1 .. n
        /\ 0 <= i /\ i <= n /\ i - 0 = (i + 1) - 1
    BY <1>2
  <2>2. DueAt(d, rel)[i] = DueAt(chain, rel)[i + 1]
    BY <1>5, <2>1 DEF SameDueAfter
  <2> QED
    BY <1>2, <2>1, <2>2
<1>7. Stays(chain, rel, d, rel)
  BY <1>2, <1>6 DEF Stays
<1> QED
  BY <1>1, <1>7, StaysMoves

(* timer_sweep() frees nothing that is linked. *)
LEMMA SweepMoves == IndInv /\ GarbageCollect => Moves
<1> SUFFICES ASSUME IndInv, GarbageCollect PROVE Moves
  OBVIOUS
<1>1. chain \in Seq(Timer) /\ rel \in [Timer -> Nat] /\ chain' = chain
  BY DEF IndInv, TypeOK, GarbageCollect
<1>2. \A i \in 1 .. Len(chain) : chain[i] \in allocated'
  <2> TAKE i \in 1 .. Len(chain)
  <2>1. chain[i] \in ToSet(chain) /\ chain[i] \in allocated
    BY <1>1 DEF ToSet, IndInv, Reachable
  <2> QED
    BY <2>1 DEF GarbageCollect, Marked
<1> DEFINE s == [t \in Timer |-> IF t \in allocated' THEN rel[t] ELSE 0]
<1>3. rel' = s
  BY DEF GarbageCollect
<1>4. s \in [Timer -> Nat] /\ \A i \in 1 .. Len(chain) : rel[chain[i]] = s[chain[i]]
  BY <1>1, <1>2
<1> HIDE DEF s
<1>5. Stays(chain, rel, chain, s)
  BY ONLY <1>1, <1>4, SameDelays
<1> QED
  BY <1>1, <1>3, <1>5, StaysMoves

(* The end of insert_timer(): the timer linked in is due after its period,  *)
(* and what its successor is given less makes up for it.                    *)
LEMMA LinkMoves == IndInv /\ PeriodLeft /\ LinkTimer => Moves
<1> SUFFICES ASSUME IndInv, PeriodLeft, LinkTimer PROVE Moves
  OBVIOUS
<1> DEFINE n == Len(chain)
           d == InsertAt(chain, ptr, ins)
           s == IF ptr <= n THEN [rel EXCEPT ![chain[ptr]] = @ - rel[ins]] ELSE rel
           C == DueAt(chain, rel)
           D == DueAt(d, s)
<1>1. /\ n \in Nat /\ chain \in Seq(Timer) /\ ins \in Timer /\ rel \in [Timer -> Nat]
      /\ ptr \in 1 .. n + 1
      /\ \A i \in 1 .. n : chain[i] \in Timer /\ chain[i] # ins
      /\ rel[ins] + C[ptr - 1] = period[ins]
      /\ chain' = d /\ rel' = s
  <2>1. chain \in Seq(Timer) /\ rel \in [Timer -> Nat] /\ mode = "insert" /\ ins \in Timer
        /\ chain' = d /\ rel' = s
    BY DEF LinkTimer, IndInv, TypeOK
  <2>2. ptr \in 1 .. n + 1 /\ \A i \in 1 .. n : chain[i] # ins
    BY <2>1 DEF IndInv, Inserting
  <2> HIDE DEF d, s
  <2> QED
    BY <2>1, <2>2 DEF PeriodLeft
<1>2. ptr <= n => rel[chain[ptr]] > rel[ins]
  BY <1>1 DEF LinkTimer, DueNoLater
<1>3. /\ d \in Seq(Timer) /\ Len(d) = n + 1
      /\ \A j \in 1 .. n + 1 :
           d[j] = IF j < ptr THEN chain[j] ELSE IF j = ptr THEN ins ELSE chain[j - 1]
  <2>1. chain \in Seq(Timer) /\ ins \in Timer /\ ptr \in 1 .. Len(chain) + 1
    BY <1>1
  <2>2. /\ d \in Seq(Timer) /\ Len(d) = Len(chain) + 1
        /\ \A j \in 1 .. Len(chain) + 1 :
             d[j] = IF j < ptr THEN chain[j] ELSE IF j = ptr THEN ins ELSE chain[j - 1]
    BY ONLY <2>1, InsertAtPositions
  <2> QED
    BY ONLY <2>2 DEF n
<1> HIDE DEF d
<1>4. /\ s \in [Timer -> Nat] /\ s[ins] = rel[ins]
      /\ \A i \in 1 .. n : i # ptr => s[chain[i]] = rel[chain[i]]
      /\ ptr <= n => s[chain[ptr]] = rel[chain[ptr]] - rel[ins]
  <2>1. CASE ptr <= n
    <3>1. ptr \in 1 .. n /\ chain[ptr] \in Timer /\ rel[chain[ptr]] - rel[ins] \in Nat
      BY <1>1, <1>2, <2>1
    <3>2. s = [rel EXCEPT ![chain[ptr]] = rel[chain[ptr]] - rel[ins]]
      BY <2>1
    <3>3. \A i \in 1 .. n : i # ptr => chain[i] # chain[ptr]
      BY <3>1 DEF IndInv, ListInv, NoDuplicates
    <3> HIDE DEF s
    <3> QED
      BY <1>1, <3>1, <3>2, <3>3
  <2>2. CASE ~(ptr <= n)
    <3>1. s = rel
      BY <2>2
    <3>2. ptr = n + 1
      BY <1>1, <2>2
    <3> HIDE DEF s
    <3> QED
      BY <1>1, <2>2, <3>1
  <2> QED
    BY <2>1, <2>2
<1> HIDE DEF s
<1>5. chain \in Seq(Timer) /\ rel \in [Timer -> Nat] /\ d \in Seq(Timer) /\ s \in [Timer -> Nat]
  BY <1>1, <1>3, <1>4
<1>6. ASSUME NEW k \in 0 .. ptr - 1 PROVE D[k] = C[k]
  <2> DEFINE m == ptr - 1
  <2>1. m \in Nat /\ m <= Len(d) /\ m <= Len(chain)
    BY <1>1, <1>3
  <2>2. SameWaits(d, s, chain, rel, m)
    <3> SUFFICES ASSUME NEW i \in 1 .. m PROVE s[d[i]] = rel[chain[i]]
      BY DEF SameWaits
    <3>1. i < ptr /\ i \in 1 .. n + 1 /\ i \in 1 .. n /\ i # ptr
      BY <1>1
    <3>2. d[i] = chain[i] /\ s[chain[i]] = rel[chain[i]]
      BY <1>3, <1>4, <3>1
    <3> QED
      BY <3>2
  <2> HIDE DEF m
  <2>3. \A i \in 0 .. m : DueAt(d, s)[i] = DueAt(chain, rel)[i]
    BY ONLY <1>5, <2>1, <2>2, DuePrefix
  <2> QED
    BY <2>3 DEF m
<1>7. D[ptr] = period[ins]
  <2>1. ptr \in 1 .. Len(d) /\ ptr - 1 \in 0 .. ptr - 1 /\ d[ptr] = ins
    BY <1>1, <1>3
  <2>2. D[ptr] = D[ptr - 1] + s[d[ptr]]
    BY <1>3, <1>4, <2>1, DueEquations
  <2>3. D[ptr - 1] = C[ptr - 1]
    BY <1>6, <2>1
  <2>4. C[ptr - 1] \in Nat /\ rel[ins] \in Nat
    <3>1. ptr - 1 \in 0 .. Len(chain)
      BY <1>1
    <3> QED
      BY <1>1, <3>1, DueEquations
  <2> HIDE DEF C, D
  <2> QED
    BY <1>1, <1>4, <2>1, <2>2, <2>3, <2>4
<1>8. ASSUME NEW k \in ptr + 1 .. n + 1 PROVE D[k] = C[k - 1]
  <2>1. ptr \in 1 .. n /\ ptr <= n /\ ptr \in 1 .. Len(chain) /\ ptr + 1 \in 1 .. Len(d)
        /\ ptr + 1 \in 1 .. n + 1 /\ ptr + 1 - 1 = ptr /\ ~(ptr + 1 < ptr) /\ ptr + 1 # ptr
    BY <1>1, <1>3
  <2>2. D[ptr + 1] = C[ptr]
    <3>1. D[ptr + 1] = D[ptr] + s[d[ptr + 1]]
      <4> DEFINE x == ptr + 1
      <4>1. x \in 1 .. Len(d) /\ x - 1 = ptr
        BY <2>1
      <4> HIDE DEF x, D
      <4>2. D[x] = D[x - 1] + s[d[x]]
        BY <1>5, <4>1, DueEquations DEF D
      <4> QED
        BY <4>1, <4>2 DEF x
    <3>2. d[ptr + 1] = chain[ptr]
      BY <1>3, <2>1
    <3>3. D[ptr + 1] = period[ins] + (rel[chain[ptr]] - rel[ins])
      BY <1>4, <1>7, <2>1, <3>1, <3>2
    <3>4. C[ptr] = C[ptr - 1] + rel[chain[ptr]]
      BY <1>1, <2>1, DueEquations
    <3>5. C[ptr - 1] \in Nat /\ rel[ins] \in Nat /\ rel[chain[ptr]] \in Nat
      <4>1. ptr - 1 \in 0 .. Len(chain)
        BY <1>1
      <4> QED
        BY <1>1, <2>1, <4>1, DueEquations
    <3> HIDE DEF C, D
    <3> QED
      BY <1>1, <3>3, <3>4, <3>5
  <2> DEFINE a == ptr + 1
             m == n + 1
  <2>3. a \in 0 .. Len(d) /\ ptr \in 0 .. Len(chain) /\ m \in Nat
    BY <1>1, <1>3, <2>1
  <2>4. SameDelaysAfter(d, s, chain, rel, a, ptr, m)
    <3> SUFFICES ASSUME NEW i \in 1 .. Len(d), NEW j \in 1 .. Len(chain),
                        a < i, i - a = j - ptr
                 PROVE  s[d[i]] = rel[chain[j]]
      BY DEF SameDelaysAfter
    <3>1. i \in 1 .. n + 1 /\ ~(i < ptr) /\ i # ptr /\ i - 1 = j /\ j \in 1 .. n /\ j # ptr
      BY <1>1, <1>3
    <3>2. d[i] = chain[j]
      BY <1>3, <3>1
    <3> QED
      BY <1>4, <3>1, <3>2
  <2>5. DueAt(d, s)[a] = DueAt(chain, rel)[ptr]
    BY <2>2
  <2>6. k \in 0 .. Len(d) /\ k - 1 \in 0 .. Len(chain) /\ a <= k /\ k <= m
        /\ k - a = (k - 1) - ptr
    BY <1>1, <1>3
  <2> HIDE DEF a, m
  <2>7. SameDueAfter(d, s, chain, rel, a, ptr, m)
    BY ONLY <1>5, <2>3, <2>4, <2>5, DueShift
  <2> QED
    BY <2>6, <2>7 DEF SameDueAfter
<1> HIDE DEF C, D
<1>9. ASSUME NEW i \in 1 .. Len(d)
      PROVE  IF \E j \in 1 .. n : chain[j] = d[i]
             THEN \E j \in 1 .. n : chain[j] = d[i] /\ D[i] = C[j]
             ELSE D[i] = period[d[i]]
  <2>1. CASE i < ptr
    <3>1. i \in 1 .. n + 1 /\ i \in 1 .. n /\ i \in 0 .. ptr - 1
      BY <1>1, <1>3, <2>1
    <3> QED
      BY <1>3, <1>6, <2>1, <3>1
  <2>2. CASE i = ptr
    <3>1. d[i] = ins
      BY <1>1, <1>3, <2>2
    <3> QED
      BY <1>1, <1>7, <2>2, <3>1
  <2>3. CASE i > ptr
    <3>1. i \in ptr + 1 .. n + 1 /\ i - 1 \in 1 .. n /\ i \in 1 .. n + 1
          /\ ~(i < ptr) /\ i # ptr
      BY <1>1, <1>3, <2>3
    <3>2. d[i] = chain[i - 1] /\ D[i] = C[i - 1]
      BY <1>3, <1>8, <3>1
    <3> QED
      BY <3>1, <3>2
  <2> QED
    BY <1>1, <1>3, <2>1, <2>2, <2>3
<1> QED
  BY <1>1, <1>9 DEF Moves, C, D
(* delete_timer(): what the timer waited goes to its successor. *)
LEMMA UnlinkMoves ==
  ASSUME IndInv, NEW t \in Timer, UnlinkTimer(t)
  PROVE  Moves
<1>1. chain \in Seq(Timer) /\ rel \in [Timer -> Nat]
  BY DEF IndInv, TypeOK
<1>2. CASE ~ \E i \in 1 .. Len(chain) : chain[i] = t
  <2>1. chain' = chain /\ rel' = rel
    BY <1>2 DEF UnlinkTimer
  <2>2. Stays(chain, rel, chain, rel)
    BY <1>1, SameDelays
  <2> QED
    BY <2>1, <2>2, StaysMoves
<1>3. CASE \E i \in 1 .. Len(chain) : chain[i] = t
  <2>1. PICK k \in 1 .. Len(chain) :
          /\ chain[k] = t
          /\ rel' = [u \in Timer |->
                       IF u = t THEN 0
                       ELSE IF k < Len(chain) /\ u = chain[k + 1]
                            THEN rel[u] + rel[t]
                            ELSE rel[u]]
          /\ chain' = RemoveAt(chain, k)
    BY <1>3 DEF UnlinkTimer
  <2> DEFINE n == Len(chain)
             d == RemoveAt(chain, k)
             s == [u \in Timer |->
                       IF u = t THEN 0
                       ELSE IF k < Len(chain) /\ u = chain[k + 1]
                            THEN rel[u] + rel[t]
                            ELSE rel[u]]
             C == DueAt(chain, rel)
             D == DueAt(d, s)
  <2>2. n \in Nat /\ k \in 1 .. n /\ \A i \in 1 .. n : chain[i] \in Timer
    BY <1>1
  <2>3. /\ d \in Seq(Timer) /\ Len(d) = n - 1
        /\ \A j \in 1 .. n - 1 : d[j] = IF j < k THEN chain[j] ELSE chain[j + 1]
    BY <1>1, RemoveAtPositions
  <2> HIDE DEF d
  <2>4. s \in [Timer -> Nat]
    BY <1>1
  <2>5. \A i, j \in 1 .. n : chain[i] = chain[j] => i = j
    BY DEF IndInv, ListInv, NoDuplicates
  <2>6. ASSUME NEW i \in 1 .. n, i # k
        PROVE  s[chain[i]] = IF i = k + 1 THEN rel[chain[i]] + rel[t] ELSE rel[chain[i]]
    <3>1. chain[i] # t /\ chain[i] \in Timer
      BY <2>1, <2>2, <2>5, <2>6
    <3>2. k < n /\ chain[i] = chain[k + 1] <=> i = k + 1
      BY <2>2, <2>5
    <3> QED
      BY <3>1, <3>2
  <2> HIDE DEF s
  <2>7. chain \in Seq(Timer) /\ rel \in [Timer -> Nat] /\ d \in Seq(Timer) /\ s \in [Timer -> Nat]
    BY <1>1, <2>3, <2>4
  <2>8. ASSUME NEW i \in 0 .. k - 1 PROVE D[i] = C[i]
    <3> DEFINE m == k - 1
    <3>1. m \in Nat /\ m <= Len(d) /\ m <= Len(chain)
      BY <2>2, <2>3
    <3>2. SameWaits(d, s, chain, rel, m)
      <4> SUFFICES ASSUME NEW j \in 1 .. m PROVE s[d[j]] = rel[chain[j]]
        BY DEF SameWaits
      <4>1. j < k /\ j \in 1 .. n - 1 /\ j \in 1 .. n /\ j # k /\ j # k + 1
        BY <2>2
      <4>2. d[j] = chain[j] /\ s[chain[j]] = rel[chain[j]]
        BY <2>3, <2>6, <4>1
      <4> QED
        BY <4>2
    <3>3. chain \in Seq(Timer) /\ rel \in [Timer -> Nat] /\ d \in Seq(Timer) /\ s \in [Timer -> Nat]
      BY <2>7
    <3> HIDE DEF m
    <3>4. \A j \in 0 .. m : DueAt(d, s)[j] = DueAt(chain, rel)[j]
      BY ONLY <3>1, <3>2, <3>3, DuePrefix
    <3> QED
      BY <3>4 DEF m
  <2>9. ASSUME NEW i \in k .. n - 1 PROVE D[i] = C[i + 1]
    <3> DEFINE x == k + 1
    <3>1. /\ x \in 1 .. n /\ x \in 0 .. Len(chain) /\ x - 1 = k /\ x # k
          /\ k \in 1 .. n - 1 /\ k \in 0 .. Len(d) /\ ~(k < k)
          /\ k \in 1 .. Len(d) /\ k \in 1 .. Len(chain) /\ k - 1 \in 0 .. k - 1
          /\ k - 1 \in 0 .. Len(chain)
      BY <2>2, <2>3
    <3>2. D[k] = C[x]
      <4>1. D[k] = D[k - 1] + s[d[k]]
        BY <2>7, <3>1, DueEquations
      <4>2. d[k] = chain[x] /\ s[chain[x]] = rel[chain[x]] + rel[t]
        BY <2>3, <2>6, <3>1
      <4>3. C[k] = C[k - 1] + rel[t]
        BY <2>1, <2>7, <3>1, DueEquations
      <4>4. D[k - 1] = C[k - 1]
        BY <2>8, <3>1
      <4>5. C[k - 1] \in Nat /\ rel[t] \in Nat /\ rel[chain[x]] \in Nat
        BY <2>2, <2>7, <3>1, DueEquations
      <4> HIDE DEF x
      <4>6. C[x] = C[x - 1] + rel[chain[x]]
        BY <2>7, <3>1, DueEquations
      <4> HIDE DEF C, D
      <4> QED
        BY <3>1, <4>1, <4>2, <4>3, <4>4, <4>5, <4>6
    <3>3. SameDelaysAfter(d, s, chain, rel, k, x, n)
      <4> SUFFICES ASSUME NEW p \in 1 .. Len(d), NEW q \in 1 .. Len(chain),
                          k < p, p - k = q - x
                   PROVE  s[d[p]] = rel[chain[q]]
        BY DEF SameDelaysAfter
      <4>1. p \in 1 .. n - 1 /\ ~(p < k) /\ q = p + 1 /\ q \in 1 .. n /\ q # k /\ q # k + 1
        BY <2>2, <2>3
      <4>2. d[p] = chain[q]
        BY <2>3, <4>1
      <4> QED
        BY <2>6, <4>1, <4>2
    <3>4. /\ i \in 0 .. Len(d) /\ i + 1 \in 0 .. Len(chain) /\ k <= i /\ i <= n
          /\ i - k = (i + 1) - x /\ n \in Nat
      BY <2>2, <2>3
    <3>5. DueAt(d, s)[k] = DueAt(chain, rel)[x]
      BY <3>2
    <3> HIDE DEF x, n
    <3>6. SameDueAfter(d, s, chain, rel, k, x, n)
      BY ONLY <2>7, <3>1, <3>3, <3>4, <3>5, DueShift
    <3> QED
      BY <3>4, <3>6 DEF SameDueAfter
  <2> HIDE DEF C, D
  <2>10. ASSUME NEW i \in 1 .. Len(d)
         PROVE  \E j \in 1 .. n : chain[j] = d[i] /\ D[i] = C[j]
    <3>1. CASE i < k
      <4>1. i \in 1 .. n /\ i \in 1 .. n - 1 /\ i \in 0 .. k - 1
        BY <2>2, <2>3, <3>1
      <4> QED
        BY <2>3, <2>8, <3>1, <4>1
    <3>2. CASE ~(i < k)
      <4>1. i + 1 \in 1 .. n /\ i \in 1 .. n - 1 /\ i \in k .. n - 1
        BY <2>2, <2>3, <3>2
      <4>2. d[i] = chain[i + 1] /\ D[i] = C[i + 1]
        BY <2>3, <2>9, <3>2, <4>1
      <4> QED
        BY <4>1, <4>2
    <3> QED
      BY <3>1, <3>2
  <2>11. Stays(chain, rel, d, s)
    BY <2>10 DEF Stays, C, D
  <2> QED
    BY <2>1, <2>11, StaysMoves DEF d, s
<1> QED
  BY <1>2, <1>3

LEMMA QuietMoves == IndInv /\ UNCHANGED <<chain, rel>> => Moves
<1> SUFFICES ASSUME IndInv, UNCHANGED <<chain, rel>> PROVE Moves
  OBVIOUS
<1>1. chain \in Seq(Timer) /\ rel \in [Timer -> Nat]
  BY DEF IndInv, TypeOK
<1>2. Stays(chain, rel, chain, rel)
  BY <1>1, SameDelays
<1> QED
  BY <1>2, StaysMoves

(* The top of insert_timer() gives ins its whole period. *)
LEMMA BeginInsertPeriod ==
  ASSUME IndInv, NEW t \in Timer, NEW p \in Nat, NEW fs, NEW ds, BeginInsert(t, p, fs, ds),
         chain' = chain, period'[t] = p, \A i \in 1 .. Len(chain) : chain[i] # t
  PROVE  Moves /\ PeriodLeft'
<1>1. chain \in Seq(Timer) /\ rel \in [Timer -> Nat]
  BY DEF IndInv, TypeOK
<1>2. CASE p > 0
  <2>1. rel' = [rel EXCEPT ![t] = p] /\ ins' = t /\ ptr' = 1
    BY <1>2 DEF BeginInsert
  <2>2. Moves
    BY <2>1, OutsideDelay
  <2> DEFINE s == [rel EXCEPT ![t] = p]
  <2>3. s \in [Timer -> Nat] /\ s[t] = p
    BY <1>1
  <2> HIDE DEF s
  <2>4. DueAt(chain, s)[0] = 0
    BY <1>1, <2>3, DueEquations
  <2>5. 1 - 1 = 0 /\ p + 0 = p
    OBVIOUS
  <2>6. rel' = s
    BY <2>1 DEF s
  <2>7. rel'[ins'] + DueAt(chain', rel')[ptr' - 1] = period'[ins']
    BY <2>1, <2>3, <2>4, <2>5, <2>6
  <2> QED
    BY <2>2, <2>7 DEF PeriodLeft
<1>3. CASE ~(p > 0)
  <2>1. rel' = rel /\ mode' = "lisp"
    BY <1>3 DEF BeginInsert
  <2> QED
    BY <2>1, QuietMoves DEF PeriodLeft
<1> QED
  BY <1>2, <1>3

(* Each iteration of insert_timer()'s loop moves a delay from ins to the    *)
(* timers before ptr.                                                       *)
LEMMA InsertStepPeriod == IndInv /\ PeriodLeft /\ InsertStep => Moves /\ PeriodLeft'
<1> SUFFICES ASSUME IndInv, PeriodLeft, InsertStep PROVE Moves /\ PeriodLeft'
  OBVIOUS
<1> DEFINE C == DueAt(chain, rel)
           q == rel[ins] - rel[chain[ptr]]
<1>1. /\ chain \in Seq(Timer) /\ rel \in [Timer -> Nat] /\ mode = "insert" /\ ins \in Timer
      /\ ptr \in 1 .. Len(chain) /\ \A i \in 1 .. Len(chain) : chain[i] # ins
      /\ rel[chain[ptr]] <= rel[ins]
  BY DEF InsertStep, DueNoLater, IndInv, TypeOK, Inserting
<1>2. /\ rel' = [rel EXCEPT ![ins] = q] /\ chain' = chain /\ ptr' = ptr + 1
      /\ ins' = ins /\ period' = period
  BY DEF InsertStep
<1>3. rel[ins] \in Nat /\ chain[ptr] \in Timer /\ rel[chain[ptr]] \in Nat /\ q \in Nat
  BY <1>1
<1> HIDE DEF q
<1>4. /\ \A k \in 0 .. Len(chain) : DueAt(chain, rel')[k] = C[k]
      /\ Moves
  BY <1>1, <1>2, <1>3, OutsideDelay
<1>5. rel'[ins] = q
  BY <1>1, <1>2
<1>6. C[ptr] = C[ptr - 1] + rel[chain[ptr]] /\ C[ptr - 1] \in Nat
  <2>1. ptr - 1 \in 0 .. Len(chain)
    BY <1>1
  <2> QED
    BY <1>1, <2>1, DueEquations
<1>7. rel[ins] + C[ptr - 1] = period[ins]
  BY <1>1 DEF PeriodLeft
<1>8. ptr \in 0 .. Len(chain) /\ (ptr + 1) - 1 = ptr
  BY <1>1
<1>9. DueAt(chain, rel')[ptr] = C[ptr]
  BY <1>4, <1>8
<1> HIDE DEF C
<1>10. q + C[ptr] = period[ins]
  BY <1>3, <1>6, <1>7 DEF q
<1>11. rel'[ins'] + DueAt(chain', rel')[ptr' - 1] = period'[ins']
  BY <1>2, <1>5, <1>8, <1>9, <1>10
<1> QED
  BY <1>4, <1>11 DEF PeriodLeft

LEMMA PeriodInit == Init => PeriodLeft
  BY DEF Init, PeriodLeft

LEMMA PeriodStutter ==
  PeriodLeft /\ UNCHANGED <<mode, rel, ins, chain, ptr, period>> => PeriodLeft'
  BY DEF PeriodLeft

(* Every step moves the timers only as DeltasPreserved says. *)
LEMMA NextMoves ==
  IndInv /\ PeriodLeft /\ [Next]_vars =>
    /\ PeriodLeft'
    /\ UNCHANGED vars \/ pipe' = pipe + 1 \/ Moves
<1> SUFFICES ASSUME IndInv, PeriodLeft, [Next]_vars
             PROVE  PeriodLeft' /\ (UNCHANGED vars \/ pipe' = pipe + 1 \/ Moves)
  OBVIOUS
<1>1. CASE Tick
  BY <1>1, QuietMoves, PeriodStutter DEF Tick, timerVars, insVars
<1>2. CASE TimerSignalHandler
  <2>1. mode' # "insert" /\ pipe' = pipe + 1
    BY <1>2 DEF TimerSignalHandler, Blocked
  <2> QED
    BY <2>1 DEF PeriodLeft
<1>3. CASE IgnoreSignal
  BY <1>3, QuietMoves, PeriodStutter DEF IgnoreSignal, timerVars, insVars
<1>4. ASSUME NEW t \in Timer, NEW p \in 0 .. MaxPeriod, MakeTimer(t, p)
      PROVE  PeriodLeft' /\ Moves
  <2>1. p \in Nat
    BY TimersAssumption
  <2>2. \A i \in 1 .. Len(chain) : chain[i] # t
    BY <1>4 DEF MakeTimer, IndInv, Reachable
  <2>3. period'[t] = p
    BY <1>4 DEF MakeTimer, IndInv, TypeOK
  <2>4. /\ chain' = chain
        /\ BeginInsert(t, p, {fired \ {t}, fired \cup {t}}, {deleted \ {t}, deleted \cup {t}})
    BY <1>4 DEF MakeTimer
  <2> QED
    BY <2>1, <2>2, <2>3, <2>4, BeginInsertPeriod
<1>5. ASSUME NEW t \in Timer, NEW p \in 0 .. MaxPeriod, SetTimer(t, p)
      PROVE  PeriodLeft' /\ Moves
  <2>1. UnlinkTimer(t) /\ mode' = "reinsert"
    BY <1>5 DEF SetTimer
  <2> QED
    BY <2>1, UnlinkMoves DEF PeriodLeft
<1>6. ASSUME NEW t \in Timer, DeleteTimer(t) PROVE PeriodLeft' /\ Moves
  <2>1. UnlinkTimer(t) /\ mode' # "insert"
    BY <1>6 DEF DeleteTimer, LispRuns
  <2> QED
    BY <2>1, UnlinkMoves DEF PeriodLeft
<1>7. ASSUME NEW t \in Timer, DropReference(t) PROVE PeriodLeft' /\ Moves
  BY <1>7, QuietMoves, PeriodStutter DEF DropReference, timerVars, insVars
<1>8. CASE SetTimerInsert
  <2>1. /\ ins \in Timer /\ period[ins] \in Nat
        /\ \A i \in 1 .. Len(chain) : chain[i] # ins
    BY <1>8 DEF SetTimerInsert, IndInv, TypeOK, Inserting
  <2>2. chain' = chain /\ period'[ins] = period[ins]
        /\ BeginInsert(ins, period[ins], {fired}, {deleted})
    BY <1>8 DEF SetTimerInsert
  <2> QED
    BY <2>1, <2>2, BeginInsertPeriod
<1>9. CASE InsertStep
  BY <1>9, InsertStepPeriod
<1>10. CASE LinkTimer
  <2>1. mode' # "insert"
    BY <1>10 DEF LinkTimer
  <2> QED
    BY <1>10, <2>1, LinkMoves DEF PeriodLeft
<1>11. CASE GarbageCollect
  <2>1. mode' # "insert"
    BY <1>11 DEF GarbageCollect, LispRuns
  <2> QED
    BY <1>11, <2>1, SweepMoves DEF PeriodLeft
<1>12. CASE Throw \/ HandleException
  BY <1>12, QuietMoves, PeriodStutter DEF Throw, HandleException, timerVars, insVars
<1>13. CASE FdCollect
  <2>1. mode' # "insert"
    BY <1>13 DEF FdCollect
  <2> QED
    BY <1>13, <2>1, CollectMoves DEF PeriodLeft
<1>14. CASE FdRead \/ FdBlock \/ FdArm \/ FdCall \/ FdSkip \/ FdReturn \/ CallbackReturn \/ Kill
  <2>1. UNCHANGED <<chain, rel>>
    BY <1>14 DEF FdRead, FdBlock, FdArm, FdCall, FdSkip, FdReturn, CallbackReturn, Kill, timerVars
  <2>2. mode' # "insert"
    BY <1>14 DEF FdRead, FdBlock, FdArm, FdCall, FdSkip, FdReturn, CallbackReturn, Kill
  <2> QED
    BY <2>1, <2>2, QuietMoves DEF PeriodLeft
<1>15. CASE Exited \/ UNCHANGED vars
  BY <1>15, PeriodStutter DEF Exited, vars, timerVars, insVars
<1> QED
  BY <1>1, <1>2, <1>3, <1>4, <1>5, <1>6, <1>7, <1>8, <1>9, <1>10, <1>11, <1>12, <1>13, <1>14,
     <1>15 DEF Next, Alarm, LispCall, InsertTimer, TimerFdHandler

(* Linking a timer in, unlinking one, collecting the fired ones and         *)
(* sweeping the freed ones never shift when another timer is due, and a     *)
(* timer enters the list due exactly one period from now, however long the  *)
(* list is.                                                                 *)
THEOREM DueTimesKept == Spec => DeltasPreserved
<1>1. Spec => []PeriodLeft
  BY Inductive, PeriodInit, NextMoves, PTL DEF Spec
<1>2. IndInv /\ PeriodLeft /\ [Next]_vars =>
        [\/ pipe' = pipe + 1
         \/ \A i \in 1 .. Len(chain') :
              IF \E j \in 1 .. Len(chain) : chain[j] = chain'[i]
              THEN \E j \in 1 .. Len(chain) :
                     /\ chain[j] = chain'[i]
                     /\ DueAt(chain', rel')[i] = DueAt(chain, rel)[j]
              ELSE DueAt(chain', rel')[i] = period[chain'[i]]]_vars
  BY NextMoves DEF Moves
<1> QED
  BY <1>1, <1>2, Inductive, PTL DEF Spec, DeltasPreserved

=============================================================================
