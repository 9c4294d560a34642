--------------------------- MODULE ControlProofs ---------------------------
(***************************************************************************)
(* Proofs about Control, for any closures, any nesting, any number of      *)
(* signals and any limit on the depth.                                     *)
(***************************************************************************)
EXTENDS ControlProps, TLAPS

----------------------------------------------------------------------------
(* Lists *)

\* Removing no binding changes nothing.
LEMMA TailZero == ASSUME NEW S, NEW s \in Seq(S) PROVE ListTail(s, 0) = s
  BY DEF ListTail

\* Removing bindings leaves a list.
LEMMA TailType ==
  ASSUME NEW S, NEW s \in Seq(S), NEW n \in Nat PROVE ListTail(s, n) \in Seq(S)
  BY DEF ListTail

\* Removing what a call has just bound gives back what was there.
LEMMA TailConcat ==
  ASSUME NEW S, NEW p \in Seq(S), NEW s \in Seq(S)
  PROVE  ListTail(p \o s, Len(p)) = s
  BY DEF ListTail

\* A new binding is the first to be removed.
LEMMA TailCons ==
  ASSUME NEW S, NEW x \in S, NEW s \in Seq(S), NEW n \in Nat
  PROVE  /\ <<x>> \o s \in Seq(S)
         /\ ListTail(<<x>> \o s, n + 1) = ListTail(s, n)
  BY DEF ListTail

\* One element of a sequence is replaced.
LEMMA ExceptSeq ==
  ASSUME NEW S, NEW s \in Seq(S), NEW n \in 1..Len(s), NEW x \in S
  PROVE  /\ [s EXCEPT ![n] = x] \in Seq(S)
         /\ Len([s EXCEPT ![n] = x]) = Len(s)
         /\ [s EXCEPT ![n] = x][n] = x
         /\ \A i \in 1..Len(s) : i # n => [s EXCEPT ![n] = x][i] = s[i]
  OBVIOUS

----------------------------------------------------------------------------
(* The inductive invariant *)

\* What bytecode_vm() has to remember of an item of its binding stack.
Own(s) == s.spec + (IF s.kind = "err" THEN 1 ELSE 0)

\* Scope i, if it belongs to an activation of bytecode_vm(), lies on the other
\* scopes of the activation; impurity counts at least the special bindings and
\* the handlers of each; and what the activation has bound so far is known.
InVM(ss, ee, i, c) ==
  LET b == ss[i].base
  IN ss[i].kind \in VM =>
       /\ b \in 1..i
       /\ ss[b].kind = "vm"
       /\ ss[i].kind = "vm" => b = i
       /\ ss[i].kind # "vm" =>
            /\ b <= i - 1
            /\ ss[i - 1].kind \in VM
            /\ ss[i - 1].base = b
            /\ ss[i].impurity >= ss[i - 1].impurity + Own(ss[i])
       /\ ss[i].kind \in {"err", "handling"} => ss[i].spec = 0
       /\ \A j \in b..i : ss[j].kind \in VM /\ Own(ss[j]) <= ss[i].impurity
       /\ \E n \in 0..ss[i].impurity : ListTail(c.special, n) = ee[b].special
       /\ c.depth = ee[b].depth + ss[b].cost

\* A form in tail position lies on the lambda, or on a form in tail position.
InTail(ss, i) ==
  ss[i].tail =>
    /\ i > 1
    /\ ss[i].kind \in {"lambda", "eval"}
    /\ ss[i - 1].kind \in {"lambda", "eval"}
    /\ ss[i - 1].kind = "eval" => ss[i - 1].tail
    /\ ss[i - 1].kind = "lambda" => ss[i - 1].phase = "body"

\* What a scope keeps in data.
Holds(s) ==
  /\ s.kind = "handling" => s.data \in Thrown \ Funs
  /\ s.phase = "tail" => s.kind = "lambda" /\ s.data \in Funs

\* Scope i is as it should be if the registers are at c.
Good(ss, ee, i, c) ==
  /\ Undo(ss[i], c) = ee[i]
  /\ InVM(ss, ee, i, c)
  /\ InTail(ss, i)
  /\ Holds(ss[i])

At(ss, ee, c, i) == IF i = Len(ss) THEN c ELSE ee[i + 1]

\* The scopes ss with their histories ee, when the registers are at c.
Stack(ss, ee, c) ==
  /\ ss \in Seq(Scopes)
  /\ ee \in Seq(Contexts)
  /\ c \in Contexts
  /\ Len(ss) >= 1
  /\ Len(ee) = Len(ss)
  /\ ss[1].kind = "loop"
  /\ \A i \in 1..Len(ss) : ee[i].depth <= MaxLispDepth
  /\ \A i \in 1..Len(ss) : Good(ss, ee, i, At(ss, ee, c, i))

\* What is thrown, and who is looking at it.
Throws ==
  /\ throw \in Thrown \cup {None}
  /\ reg \in Thrown \cup {None}
  /\ mode \in Modes
  /\ signals \in 0..MaxSignals
  /\ mode = "unwind" => throw # None
  /\ throw \in Funs =>
       /\ mode = "unwind"
       /\ Top.kind \in {"lambda", "eval"}
       /\ Top.kind = "eval" => Top.tail
       /\ Top.kind = "lambda" => Top.phase = "body"
  /\ reg \notin Funs
  /\ mode \in {"taking", "unbinding", "raising"} => reg # None
  /\ mode = "taking" => Top.kind = "catch" /\ Top.phase = "called"
  /\ mode = "unbinding" => Top.kind \in {"vm", "frame"}
  /\ mode \in {"return", "pop-frames", "reset-frames"} => Top.kind \in VM

IndInv == Stack(scopes, entry, ctx) /\ ctx.depth <= MaxLispDepth /\ Throws

----------------------------------------------------------------------------
(* Leaving one scope *)

\* The registers after each kind of scope, field by field.
LEMMA UndoFields ==
  ASSUME NEW s \in Scopes, NEW c \in Contexts
  PROVE  /\ s.kind \in {"lambda", "vm"} =>
              Undo(s, c) = [env |-> s.env, special |-> ListTail(c.special, s.spec),
                            structure |-> s.structure, depth |-> c.depth - s.cost]
         /\ s.kind = "fluids" =>
              Undo(s, c) = [env |-> s.env, special |-> s.old,
                            structure |-> s.structure, depth |-> c.depth - s.cost]
         /\ s.kind \in {"subr", "catch", "loop"} =>
              Undo(s, c) = [env |-> s.env, special |-> c.special,
                            structure |-> s.structure, depth |-> c.depth - s.cost]
         /\ s.kind = "eval" =>
              Undo(s, c) = [env |-> c.env, special |-> c.special,
                            structure |-> c.structure, depth |-> c.depth - 1]
         /\ s.kind = "frame" =>
              Undo(s, c) = [env |-> ListTail(c.env, s.lex),
                            special |-> ListTail(c.special, s.spec),
                            structure |-> c.structure, depth |-> c.depth]
         /\ s.kind \in {"err", "handling"} => Undo(s, c) = c
  BY DEF Undo, PopCall, Unbind, Scopes, Contexts

\* Registers that agree in every field are the same.
LEMMA ContextEq ==
  ASSUME NEW c \in Contexts, NEW d \in Contexts, c.env = d.env,
         c.special = d.special, c.structure = d.structure, c.depth = d.depth
  PROVE  c = d
  BY DEF Contexts

\* The numbers a scope keeps.
LEMMA ScopeType ==
  ASSUME NEW s \in Scopes
  PROVE  /\ s.spec \in Nat /\ s.lex \in Nat /\ s.cost \in Nat
         /\ s.impurity \in Int
         /\ Own(s) \in Nat /\ Own(s) >= s.spec
  <1>1. s.spec \in Nat /\ s.lex \in Nat /\ s.cost \in 0..2 /\ s.impurity \in Int
    BY DEF Scopes
  <1> QED BY <1>1 DEF Own

\* What Stack says of the innermost scope.
LEMMA TopGood ==
  ASSUME NEW ss, NEW ee, NEW c, Stack(ss, ee, c)
  PROVE  /\ Len(ss) \in Nat \ {0}
         /\ ss[Len(ss)] \in Scopes
         /\ c \in Contexts
         /\ ee[Len(ss)] \in Contexts
         /\ Good(ss, ee, Len(ss), c)
  <1>1. Len(ss) \in 1..Len(ss) /\ Len(ss) \in Nat
    BY DEF Stack
  <1>2. Good(ss, ee, Len(ss), At(ss, ee, c, Len(ss)))
    BY <1>1 DEF Stack
  <1> QED BY <1>1, <1>2 DEF Stack, At

\* The scopes below one do not depend on it.
LEMMA GoodPrefix ==
  ASSUME NEW ss, NEW ee, NEW tt, NEW ff, NEW i \in Nat \ {0}, NEW e,
         \A j \in 1..i : tt[j] = ss[j] /\ ff[j] = ee[j],
         Good(ss, ee, i, e)
  PROVE  Good(tt, ff, i, e)
  <1>1. tt[i] = ss[i] /\ ff[i] = ee[i]
    OBVIOUS
  <1>2. InTail(tt, i)
    BY <1>1 DEF Good, InTail
  <1>3. InVM(ss, ee, i, e)
    BY DEF Good
  <1>4. ASSUME ss[i].kind \in VM
        PROVE  /\ ss[i].base \in 1..i /\ tt[ss[i].base] = ss[ss[i].base]
               /\ ff[ss[i].base] = ee[ss[i].base]
               /\ \A j \in ss[i].base..i : j \in 1..i /\ tt[j] = ss[j]
    BY <1>3, <1>4 DEF InVM
  <1>5. ASSUME ss[i].kind \in VM, ss[i].kind # "vm"
        PROVE  i - 1 \in 1..i /\ tt[i - 1] = ss[i - 1]
    BY <1>3, <1>5 DEF InVM
  <1>6. InVM(tt, ff, i, e)
    BY <1>1, <1>3, <1>4, <1>5 DEF InVM
  <1> QED BY <1>1, <1>2, <1>6 DEF Good

\* The scopes tt agree with ss up to their innermost, which was entered with
\* the registers that ss has there.
LEMMA Restack ==
  ASSUME NEW ss, NEW ee, NEW c, Stack(ss, ee, c),
         NEW tt \in Seq(Scopes), NEW ff \in Seq(Contexts), NEW d \in Contexts,
         NEW n \in 1..Len(ss) + 1, Len(tt) = n, Len(ff) = n,
         \A i \in 1..n - 1 : tt[i] = ss[i] /\ ff[i] = ee[i],
         ff[n] = IF n = Len(ss) + 1 THEN c ELSE ee[n],
         ff[n].depth <= MaxLispDepth,
         n = 1 => tt[1].kind = "loop",
         Good(tt, ff, n, d)
  PROVE  Stack(tt, ff, d)
  <1>1. Len(ss) \in Nat /\ Len(ss) >= 1 /\ n \in Nat
    BY DEF Stack
  <1>2. ASSUME NEW i \in 1..n PROVE Good(tt, ff, i, At(tt, ff, d, i))
    <2>1. CASE i = n
      BY <2>1 DEF At
    <2>2. CASE i # n
      <3>1. i \in 1..n - 1 /\ i \in 1..Len(ss)
        BY <1>1, <2>2
      <3>2. At(tt, ff, d, i) = At(ss, ee, c, i)
        BY <1>1, <3>1 DEF At
      <3>3. Good(ss, ee, i, At(ss, ee, c, i))
        BY <3>1 DEF Stack
      <3>4. \A j \in 1..i : tt[j] = ss[j] /\ ff[j] = ee[j]
        BY <1>1, <3>1
      <3>5. i \in Nat \ {0}
        OBVIOUS
      <3>6. Good(tt, ff, i, At(ss, ee, c, i))
        BY <3>3, <3>4, <3>5, GoodPrefix
      <3> QED BY <3>2, <3>6
    <2> QED BY <2>1, <2>2
  <1>3. ASSUME NEW i \in 1..n PROVE ff[i].depth <= MaxLispDepth
    <2>1. CASE i = n
      BY <2>1
    <2>2. CASE i # n
      <3>1. i \in 1..n - 1 /\ i \in 1..Len(ss)
        BY <1>1, <2>2
      <3>2. ff[i] = ee[i] /\ ee[i].depth <= MaxLispDepth
        BY <3>1 DEF Stack
      <3> QED BY <3>2
    <2> QED BY <2>1, <2>2
  <1>4. tt[1].kind = "loop"
    BY <1>1 DEF Stack
  <1> QED BY <1>1, <1>2, <1>3, <1>4 DEF Stack

\* A scope is entered.
LEMMA PushStack ==
  ASSUME NEW ss, NEW ee, NEW c, Stack(ss, ee, c), c.depth <= MaxLispDepth,
         NEW s \in Scopes, NEW d \in Contexts,
         Good(Append(ss, s), Append(ee, c), Len(ss) + 1, d)
  PROVE  Stack(Append(ss, s), Append(ee, c), d)
  <1>1. /\ ss \in Seq(Scopes) /\ ee \in Seq(Contexts) /\ c \in Contexts
        /\ Len(ss) \in Nat \ {0} /\ Len(ee) = Len(ss)
    BY DEF Stack
  <1>2. PICK n : n = Len(ss) + 1
    OBVIOUS
  <1>3. PICK tt, ff : tt = Append(ss, s) /\ ff = Append(ee, c)
    OBVIOUS
  <1>4. /\ tt \in Seq(Scopes) /\ ff \in Seq(Contexts)
        /\ Len(tt) = n /\ Len(ff) = n /\ n \in 1..Len(ss) + 1 /\ n # 1
        /\ \A i \in 1..n - 1 : tt[i] = ss[i] /\ ff[i] = ee[i]
        /\ ff[n] = c
    BY <1>1, <1>2, <1>3
  <1>5. Good(tt, ff, n, d)
    BY <1>2, <1>3
  <1>6. Stack(tt, ff, d)
    <2>1. ff[n] = IF n = Len(ss) + 1 THEN c ELSE ee[n]
      BY <1>2, <1>4
    <2>2. ff[n].depth <= MaxLispDepth /\ (n = 1 => tt[1].kind = "loop")
      BY <1>4
    <2> QED BY ONLY Stack(ss, ee, c), d \in Contexts, <1>4, <1>5, <2>1, <2>2, Restack
  <1> QED BY <1>3, <1>6

\* The innermost scope changes, or another takes its place.
LEMMA TopStack ==
  ASSUME NEW ss, NEW ee, NEW c, Stack(ss, ee, c),
         NEW s \in Scopes, NEW d \in Contexts,
         Len(ss) = 1 => s.kind = "loop",
         Good([ss EXCEPT ![Len(ss)] = s], ee, Len(ss), d)
  PROVE  Stack([ss EXCEPT ![Len(ss)] = s], ee, d)
  <1>1. /\ ss \in Seq(Scopes) /\ ee \in Seq(Contexts)
        /\ Len(ss) \in Nat \ {0} /\ Len(ee) = Len(ss)
    BY DEF Stack
  <1>2. PICK n : n = Len(ss)
    OBVIOUS
  <1>3. PICK tt : tt = [ss EXCEPT ![Len(ss)] = s]
    OBVIOUS
  <1>4. /\ tt \in Seq(Scopes) /\ Len(tt) = n /\ n \in 1..Len(ss) + 1 /\ tt[n] = s
        /\ \A i \in 1..n - 1 : tt[i] = ss[i] /\ ee[i] = ee[i]
    BY <1>1, <1>2, <1>3
  <1>5. ee[n].depth <= MaxLispDepth /\ (n = 1 => tt[1].kind = "loop")
    BY <1>1, <1>2, <1>4 DEF Stack
  <1>6. Good(tt, ee, n, d)
    BY <1>2, <1>3
  <1>7. Len(ee) = n /\ ee[n] = IF n = Len(ss) + 1 THEN c ELSE ee[n]
    BY <1>1, <1>2
  <1>8. Stack(tt, ee, d)
    BY <1>1, <1>4, <1>5, <1>6, <1>7, Restack
  <1> QED BY <1>3, <1>8

\* Scopes are left until scope n is the innermost, which is s from now on.
LEMMA CutStack ==
  ASSUME NEW ss, NEW ee, NEW c, Stack(ss, ee, c), NEW n \in 1..Len(ss),
         NEW s \in Scopes, NEW d \in Contexts, n = 1 => s.kind = "loop",
         Good([SubSeq(ss, 1, n) EXCEPT ![n] = s], SubSeq(ee, 1, n), n, d)
  PROVE  Stack([SubSeq(ss, 1, n) EXCEPT ![n] = s], SubSeq(ee, 1, n), d)
  <1>1. /\ ss \in Seq(Scopes) /\ ee \in Seq(Contexts)
        /\ Len(ss) \in Nat \ {0} /\ Len(ee) = Len(ss) /\ n \in Nat
    BY DEF Stack
  <1>2. PICK uu : uu = SubSeq(ss, 1, n)
    OBVIOUS
  <1>3. PICK ff : ff = SubSeq(ee, 1, n)
    OBVIOUS
  <1>4. PICK tt : tt = [uu EXCEPT ![n] = s]
    OBVIOUS
  <1>5. /\ uu \in Seq(Scopes) /\ Len(uu) = n /\ n \in 1..Len(uu)
        /\ \A i \in 1..n : uu[i] = ss[i]
    BY <1>1, <1>2
  <1>6. /\ ff \in Seq(Contexts) /\ Len(ff) = n
        /\ \A i \in 1..n : ff[i] = ee[i]
    BY <1>1, <1>3
  <1>7. /\ tt \in Seq(Scopes) /\ Len(tt) = Len(uu) /\ tt[n] = s
        /\ \A i \in 1..Len(uu) : i # n => tt[i] = uu[i]
    BY <1>4, <1>5, ExceptSeq
  <1>8. /\ n \in 1..Len(ss) + 1 /\ n # Len(ss) + 1 /\ Len(tt) = n
        /\ \A i \in 1..n - 1 : tt[i] = ss[i] /\ ff[i] = ee[i]
        /\ ff[n] = ee[n]
    BY <1>1, <1>5, <1>6, <1>7
  <1>9. ff[n].depth <= MaxLispDepth /\ (n = 1 => tt[1].kind = "loop")
    BY <1>1, <1>7, <1>8 DEF Stack
  <1>10. Good(tt, ff, n, d)
    BY <1>2, <1>3, <1>4
  <1>11. Stack(tt, ff, d)
    BY <1>6, <1>7, <1>8, <1>9, <1>10, Restack
  <1> QED BY <1>2, <1>3, <1>4, <1>11

\* A scope is left.
LEMMA PopStack ==
  ASSUME NEW ss, NEW ee, NEW c, Stack(ss, ee, c), Len(ss) > 1
  PROVE  /\ Undo(ss[Len(ss)], c) = ee[Len(ss)]
         /\ ee[Len(ss)].depth <= MaxLispDepth
         /\ Stack(SubSeq(ss, 1, Len(ss) - 1), SubSeq(ee, 1, Len(ss) - 1),
                  ee[Len(ss)])
  <1>1. /\ ss \in Seq(Scopes) /\ ee \in Seq(Contexts)
        /\ Len(ss) \in Nat \ {0, 1} /\ Len(ee) = Len(ss)
    BY DEF Stack
  <1>2. PICK n : n = Len(ss) - 1
    OBVIOUS
  <1>3. PICK tt, ff : tt = SubSeq(ss, 1, n) /\ ff = SubSeq(ee, 1, n)
    OBVIOUS
  <1>4. /\ tt \in Seq(Scopes) /\ ff \in Seq(Contexts) /\ ee[n + 1] \in Contexts
        /\ Len(tt) = n /\ Len(ff) = n /\ n \in 1..Len(ss) + 1
        /\ n # Len(ss) + 1 /\ n \in 1..Len(ss) /\ n # Len(ss)
        /\ \A i \in 1..n : tt[i] = ss[i] /\ ff[i] = ee[i]
    BY <1>1, <1>2, <1>3
  <1>5. ff[n].depth <= MaxLispDepth /\ tt[1].kind = "loop"
    BY <1>1, <1>4 DEF Stack
  <1>6. Good(ss, ee, n, ee[n + 1])
    BY <1>4 DEF Stack, At
  <1>7. n \in Nat \ {0}
    BY <1>4
  <1>8. Good(tt, ff, n, ee[n + 1])
    BY <1>4, <1>6, <1>7, GoodPrefix
  <1>9. \A i \in 1..n - 1 : tt[i] = ss[i] /\ ff[i] = ee[i]
    BY <1>4
  <1>10. Stack(tt, ff, ee[n + 1])
    BY <1>4, <1>5, <1>8, <1>9, Restack
  <1>11. Undo(ss[Len(ss)], c) = ee[Len(ss)]
    BY TopGood DEF Good
  <1>12. ee[Len(ss)].depth <= MaxLispDepth /\ n + 1 = Len(ss)
    BY <1>1, <1>2 DEF Stack
  <1> QED BY <1>2, <1>3, <1>10, <1>11, <1>12

\* What the invariant says of the innermost scope.
LEMMA Facts ==
  ASSUME IndInv
  PROVE  /\ Depth \in Nat \ {0}
         /\ Len(entry) = Depth
         /\ scopes \in Seq(Scopes)
         /\ entry \in Seq(Contexts)
         /\ Top \in Scopes
         /\ ctx \in Contexts
         /\ entry[Depth] \in Contexts
         /\ Good(scopes, entry, Depth, ctx)
         /\ Top.kind # "loop" => Depth > 1
  <1>1. Stack(scopes, entry, ctx)
    BY DEF IndInv
  <1>2. Len(scopes) = 1 => scopes[Len(scopes)].kind = "loop"
    BY <1>1 DEF Stack
  <1>3. Len(scopes) \in Nat \ {0}
    BY <1>1, TopGood
  <1> QED BY <1>1, <1>2, <1>3, TopGood DEF Stack, Depth, Top

\* Pop undoes what the innermost scope has done.
LEMMA PopInv ==
  ASSUME IndInv, Pop, Top.kind # "loop" \/ Nested
  PROVE  /\ Stack(scopes', entry', ctx')
         /\ ctx'.depth <= MaxLispDepth
         /\ Len(scopes') = Depth - 1
         /\ Len(scopes') \in Nat \ {0}
         /\ scopes'[Len(scopes')] = scopes[Depth - 1]
  <1>1. Depth > 1 /\ Depth \in Nat
    BY Facts DEF Nested
  <1>2. Stack(scopes, entry, ctx) /\ Len(scopes) > 1
    BY <1>1 DEF IndInv, Depth
  <1>3. /\ Undo(Top, ctx) = entry[Depth] /\ entry[Depth].depth <= MaxLispDepth
        /\ Stack(Below, SubSeq(entry, 1, Depth - 1), entry[Depth])
    BY <1>2, PopStack DEF Depth, Top, Below
  <1>4. /\ Len(Below) = Depth - 1 /\ Below[Depth - 1] = scopes[Depth - 1]
    BY <1>1, Facts DEF Below
  <1> QED BY <1>1, <1>3, <1>4 DEF Pop

\* The invariant of the next state, in parts.
LEMMA NextInv ==
  ASSUME Stack(scopes', entry', ctx'), ctx'.depth <= MaxLispDepth, Throws'
  PROVE  IndInv'
  BY DEF IndInv

\* A higher impurity does no harm.
LEMMA RaiseImpurity ==
  ASSUME NEW ss, NEW ee, NEW c, Stack(ss, ee, c), NEW k \in Int,
         NEW n, n = Len(ss), ss[n].kind \in VM, k >= ss[n].impurity
  PROVE  Stack([ss EXCEPT ![n].impurity = k], ee, c)
  <1>1. /\ ss \in Seq(Scopes) /\ ee \in Seq(Contexts) /\ c \in Contexts
        /\ n \in Nat \ {0} /\ ss[n] \in Scopes /\ Good(ss, ee, n, c)
    BY TopGood DEF Stack
  <1>2. PICK s : s = [ss[n] EXCEPT !.impurity = k]
    OBVIOUS
  <1>3. PICK tt : tt = [ss EXCEPT ![Len(ss)] = s]
    OBVIOUS
  <1>4. /\ s \in Scopes /\ s.kind = ss[n].kind /\ s.base = ss[n].base
        /\ s.spec = ss[n].spec /\ s.impurity = k /\ s.tail = ss[n].tail
        /\ s.phase = ss[n].phase /\ s.data = ss[n].data /\ s.cost = ss[n].cost
        /\ s.env = ss[n].env /\ s.structure = ss[n].structure
        /\ s.old = ss[n].old /\ s.lex = ss[n].lex
    BY <1>1, <1>2 DEF Scopes
  <1>5. /\ tt \in Seq(Scopes) /\ Len(tt) = n /\ tt[n] = s
        /\ \A i \in 1..n - 1 : tt[i] = ss[i]
    BY <1>1, <1>3, <1>4
  <1>6. Undo(s, c) = ee[n]
    BY <1>1, <1>4 DEF Good, Undo, PopCall, Unbind
  <1>7. Holds(s)
    BY <1>1, <1>4 DEF Good, Holds
  <1>8. InTail(tt, n)
    <2>1. InTail(ss, n)
      BY <1>1 DEF Good
    <2>2. ~s.tail
      BY <1>4, <2>1 DEF InTail, VM
    <2> QED BY <1>5, <2>2 DEF InTail
  <1>9. InVM(tt, ee, n, c)
    <2>1. InVM(ss, ee, n, c)
      BY <1>1 DEF Good
    <2>2. PICK b : b = s.base
      OBVIOUS
    <2>3. b \in 1..n /\ ss[b].kind = "vm" /\ tt[b].kind = "vm" /\ tt[b].cost = ss[b].cost
      <3>1. b \in 1..n /\ ss[b].kind = "vm"
        BY <1>4, <2>1, <2>2 DEF InVM
      <3>2. CASE b = n
        BY ONLY <1>4, <1>5, <3>1, <3>2
      <3>3. CASE b # n
        <4>1. b \in 1..n - 1
          BY ONLY <1>1, <3>1, <3>3
        <4> QED BY ONLY <1>5, <3>1, <4>1
      <3> QED BY ONLY <3>1, <3>2, <3>3
    <2>4. \A j \in b..n : tt[j].kind \in VM /\ Own(tt[j]) <= k
      <3>1. TAKE j \in b..n
      <3>2. /\ j \in 1..n /\ tt[j].kind = ss[j].kind
            /\ tt[j].spec = ss[j].spec /\ Own(tt[j]) = Own(ss[j])
        <4>1. j \in 1..n
          BY <1>1, <2>3
        <4>2. tt[j].kind = ss[j].kind /\ tt[j].spec = ss[j].spec
          <5>1. CASE j = n
            BY ONLY <1>4, <1>5, <5>1
          <5>2. CASE j # n
            <6>1. j \in 1..n - 1
              BY ONLY <1>1, <4>1, <5>2
            <6> QED BY ONLY <1>5, <6>1
          <5> QED BY ONLY <5>1, <5>2
        <4> QED BY <4>1, <4>2 DEF Own
      <3>3. ss[j].kind \in VM /\ Own(ss[j]) <= ss[n].impurity
        BY <1>1, <1>4, <2>1, <2>2 DEF InVM
      <3>4. ss[j] \in Scopes
        BY <1>1, <3>2
      <3>5. Own(ss[j]) \in Int /\ ss[n].impurity \in Int
        BY <1>1, <3>4, ScopeType
      <3> QED BY <3>2, <3>3, <3>5
    <2>5. \E m \in 0..k : ListTail(c.special, m) = ee[b].special
      <3>1. PICK m \in 0..ss[n].impurity : ListTail(c.special, m) = ee[b].special
        BY <1>4, <2>1, <2>2 DEF InVM
      <3>2. m \in 0..k
        BY <1>1, ScopeType
      <3> QED BY <3>1, <3>2
    <2>6. s.kind # "vm" =>
            /\ b <= n - 1 /\ tt[n - 1].kind \in VM /\ tt[n - 1].base = b
            /\ k >= tt[n - 1].impurity + Own(s)
      <3>1. SUFFICES ASSUME s.kind # "vm"
                     PROVE  /\ b <= n - 1 /\ tt[n - 1].kind \in VM /\ tt[n - 1].base = b
                            /\ k >= tt[n - 1].impurity + Own(s)
        OBVIOUS
      <3>2. /\ b <= n - 1 /\ ss[n - 1].kind \in VM /\ ss[n - 1].base = b
            /\ ss[n].impurity >= ss[n - 1].impurity + Own(ss[n])
        BY <1>1, <1>4, <2>1, <2>2, <3>1 DEF InVM
      <3>3. n - 1 \in 1..n - 1
        BY <1>1, <2>3, <3>2
      <3>4. tt[n - 1] = ss[n - 1] /\ ss[n - 1] \in Scopes
        BY <1>1, <1>5, <3>3
      <3>5. Own(s) = Own(ss[n])
        BY <1>4 DEF Own
      <3>6. ss[n - 1].impurity \in Int /\ Own(ss[n]) \in Int /\ ss[n].impurity \in Int
        BY <1>1, <3>4, ScopeType
      <3> QED BY <3>2, <3>4, <3>5, <3>6
    <2>7. c.depth = ee[b].depth + tt[b].cost
      BY <1>1, <1>4, <2>1, <2>2, <2>3 DEF InVM
    <2>8. (s.kind = "vm" => b = n) /\ (s.kind \in {"err", "handling"} => s.spec = 0)
      BY <1>1, <1>4, <2>1, <2>2 DEF InVM
    <2> QED BY <1>4, <1>5, <2>2, <2>3, <2>4, <2>5, <2>6, <2>7, <2>8 DEF InVM
  <1>10. Good(tt, ee, n, c)
    BY <1>5, <1>6, <1>7, <1>8, <1>9 DEF Good
  <1>11. n = 1 => s.kind = "loop"
    BY <1>4 DEF Stack, VM
  <1>12. Stack(tt, ee, c)
    BY <1>3, <1>4, <1>1, <1>10, <1>11, TopStack
  <1> QED BY <1>2, <1>3, <1>12

\* PopItem undoes what an item of the binding stack has done.
LEMMA PopItemInv ==
  ASSUME IndInv, NEW k \in Int, PopItem(k), Top.kind \in VM \ {"vm"},
         k >= Top.impurity - Top.spec
  PROVE  /\ Stack(scopes', entry', ctx')
         /\ ctx'.depth <= MaxLispDepth
         /\ scopes'[Len(scopes')].kind \in VM
  <1>1. Depth > 1 /\ Depth \in Nat
    BY Facts DEF VM
  <1>2. Stack(scopes, entry, ctx) /\ Len(scopes) > 1
    BY <1>1 DEF IndInv, Depth
  <1>3. /\ Undo(Top, ctx) = entry[Depth] /\ entry[Depth].depth <= MaxLispDepth
        /\ Stack(Below, SubSeq(entry, 1, Depth - 1), entry[Depth])
    BY <1>2, PopStack DEF Depth, Top, Below
  <1>4. /\ Len(Below) = Depth - 1 /\ Below[Depth - 1] = scopes[Depth - 1]
        /\ Below \in Seq(Scopes) /\ Below[Depth - 1] \in Scopes
    <2>1. scopes \in Seq(Scopes) /\ Depth = Len(scopes)
      BY Facts DEF Depth
    <2> QED BY <1>1, <2>1 DEF Below
  <1>5. InVM(scopes, entry, Depth, ctx)
    BY Facts DEF Good
  <1>6. /\ Below[Depth - 1].kind \in VM
        /\ Top.impurity >= Below[Depth - 1].impurity + Own(Top)
    BY <1>4, <1>5 DEF InVM, Top
  <1>7. k >= Below[Depth - 1].impurity
    <2>1. /\ Own(Top) \in Int /\ Own(Top) >= Top.spec /\ Top.spec \in Int
          /\ Top.impurity \in Int /\ Below[Depth - 1].impurity \in Int
      BY <1>4, Facts, ScopeType
    <2> QED BY <1>6, <2>1
  <1>8. PICK n : n = Depth - 1
    OBVIOUS
  <1>9. Stack([Below EXCEPT ![n].impurity = k], SubSeq(entry, 1, Depth - 1), entry[Depth])
    BY <1>3, <1>4, <1>6, <1>7, <1>8, RaiseImpurity
  <1>10. scopes' = [Below EXCEPT ![n].impurity = k]
    BY <1>8 DEF PopItem
  <1>11. Len(scopes') = n /\ scopes'[n].kind = Below[n].kind
    <2>1. n \in 1..Len(Below) /\ Below \in Seq(Scopes) /\ Len(Below) = n
      BY ONLY <1>1, <1>4, <1>8
    <2>2. PICK r : r = [Below[n] EXCEPT !.impurity = k]
      OBVIOUS
    <2>3. r.kind = Below[n].kind
      BY ONLY <1>4, <1>8, <2>2 DEF Scopes
    <2>4. scopes' = [Below EXCEPT ![n] = r]
      BY <1>10, <2>2
    <2> QED BY ONLY <2>1, <2>3, <2>4
  <1> QED BY <1>3, <1>6, <1>8, <1>9, <1>10, <1>11 DEF PopItem

----------------------------------------------------------------------------
(* Entering a scope *)

\* A scope that saves the registers has its type.
LEMMA BlankType ==
  ASSUME NEW c \in Contexts, NEW k \in Kinds
  PROVE  Blank(k, c) \in Scopes
  BY DEF Blank, Scopes, Contexts, Phases

\* The registers with the arguments of f bound.
LEMMA BoundFields ==
  ASSUME NEW f \in Funs, NEW c \in Contexts, NEW v, v = BoundIn(f, UseClosure(f, c))
  PROVE  /\ v \in Contexts
         /\ v.depth = c.depth
         /\ ListTail(v.special, ParamCount(f, SpecParams)) = c.special
  <1>1. /\ FunEnv[f] \in Seq(Symbols) /\ FunStructure[f] \in Structures
        /\ LexParams[f] \in Seq(Symbols) /\ SpecParams[f] \in Seq(Symbols)
        /\ c.special \in Seq(Symbols)
    BY FunsAssumption DEF Contexts
  <1>2. PICK u : u = UseClosure(f, c)
    OBVIOUS
  <1>3. u \in Contexts /\ u.special = c.special /\ u.depth = c.depth
    BY <1>1, <1>2 DEF UseClosure, Contexts
  <1>4. v = BoundIn(f, u)
    BY <1>2
  <1>5. CASE Code[f] = "bytecode"
    <2>1. v = u /\ ParamCount(f, SpecParams) = 0
      BY <1>4, <1>5 DEF BoundIn, ParamCount
    <2> QED BY <1>1, <1>3, <2>1, TailZero
  <1>6. CASE Code[f] # "bytecode"
    <2>1. v = [u EXCEPT !.env = LexParams[f] \o @, !.special = SpecParams[f] \o @]
      BY <1>4, <1>6 DEF BoundIn
    <2>2. u.env \in Seq(Symbols)
      BY <1>3 DEF Contexts
    <2>3. LexParams[f] \o u.env \in Seq(Symbols) /\ SpecParams[f] \o u.special \in Seq(Symbols)
      BY <1>1, <1>3, <2>2
    <2>4. v \in Contexts /\ v.special = SpecParams[f] \o u.special /\ v.depth = u.depth
      BY <1>3, <2>1, <2>3 DEF Contexts
    <2> QED BY <1>1, <1>3, <1>6, <2>4, TailConcat DEF ParamCount
  <1> QED BY <1>5, <1>6

\* The registers inside a call of f, at depth k.
Inside(f, c, k) == [BoundIn(f, UseClosure(f, c)) EXCEPT !.depth = k]

LEMMA InsideFields ==
  ASSUME NEW f \in Funs, NEW c \in Contexts, NEW k \in Nat
  PROVE  /\ Inside(f, c, k) \in Contexts
         /\ Inside(f, c, k).depth = k
         /\ ListTail(Inside(f, c, k).special, ParamCount(f, SpecParams)) = c.special
  <1>1. PICK v : v = BoundIn(f, UseClosure(f, c))
    OBVIOUS
  <1>2. v \in Contexts /\ ListTail(v.special, ParamCount(f, SpecParams)) = c.special
    BY <1>1, BoundFields
  <1>3. PICK r : r = [v EXCEPT !.depth = k]
    OBVIOUS
  <1>4. r \in Contexts /\ r.depth = k /\ r.special = v.special
    BY <1>2, <1>3 DEF Contexts
  <1>5. Inside(f, c, k) = r
    BY <1>1, <1>3 DEF Inside
  <1> QED BY <1>2, <1>4, <1>5

\* The scope of a call, field by field.
LEMMA CallFields ==
  ASSUME NEW f \in Funs, NEW direct \in BOOLEAN, NEW c \in Contexts, NEW n \in Nat,
         NEW s, s = CallScope(f, direct, c, n)
  PROVE  /\ s \in Scopes
         /\ s.env = c.env /\ s.structure = c.structure
         /\ s.base = n /\ s.impurity = 0 /\ ~s.tail /\ s.phase = "body"
         /\ s.kind \in {"lambda", "vm"}
         /\ s.kind = "vm" => s.spec = 0
         /\ s.spec = ParamCount(f, SpecParams)
         /\ s.cost = Cost(f, direct)
         /\ Cost(f, direct) \in Nat
  <1>1. /\ Cost(f, direct) \in 0..2 /\ Code[f] \in {"lambda", "bytecode"}
        /\ ParamCount(f, LexParams) \in Nat /\ ParamCount(f, SpecParams) \in Nat
        /\ Code[f] = "bytecode" => ParamCount(f, SpecParams) = 0
    BY FunsAssumption DEF Cost, ParamCount
  <1>2. /\ c.env \in Seq(Symbols) /\ c.structure \in Structures
    BY DEF Contexts
  <1>3. s = [kind |-> IF Code[f] = "bytecode" THEN "vm" ELSE "lambda",
             env |-> c.env, structure |-> c.structure, old |-> <<>>,
             lex |-> ParamCount(f, LexParams), spec |-> ParamCount(f, SpecParams),
             cost |-> Cost(f, direct), checked |-> ~direct, tail |-> FALSE,
             phase |-> "body", base |-> n, impurity |-> 0, data |-> None]
    BY DEF CallScope, Blank
  <1>4. s \in Scopes
    BY <1>1, <1>2, <1>3 DEF Scopes, Kinds, Phases
  <1> QED BY <1>1, <1>3, <1>4

\* A call has been made, or has failed at once.
Called ==
  /\ Stack(scopes', entry', ctx')
  /\ ctx'.depth <= MaxLispDepth
  /\ mode' \in {"run", "unwind"}
  /\ throw' \in (Thrown \ Funs) \cup {None}
  /\ mode' = "unwind" => throw' # None

\* Calling a closure keeps the stack in order.
LEMMA InvokeInv ==
  ASSUME NEW f \in Funs, NEW direct \in BOOLEAN, NEW under, NEW c, NEW ee,
         ee = SubSeq(entry, 1, Len(under)), Stack(under, ee, c),
         c.depth <= MaxLispDepth, throw \in (Thrown \ Funs) \cup {None},
         Invoke(f, direct, under, c)
  PROVE  Called
  <1>1. /\ Len(under) \in Nat \ {0} /\ c \in Contexts /\ Len(ee) = Len(under)
        /\ under \in Seq(Scopes) /\ ee \in Seq(Contexts) /\ c.depth \in Nat
    BY TopGood DEF Stack, Contexts
  <1>2. PICK n : n = Len(under) + 1
    OBVIOUS
  <1>3. SubSeq(entry, 1, n - 1) = ee /\ n \in Nat
    BY <1>1, <1>2
  <1>4. DepthError \in Thrown \ Funs /\ DepthError # None
    BY ThrownAssumption DEF Thrown, Exceptions
  <1>5. CASE ~direct /\ throw # None
    BY <1>2, <1>3, <1>5 DEF Invoke, Called
  <1>6. CASE ~(~direct /\ throw # None) /\ c.depth + Cost(f, direct) > MaxLispDepth
    BY <1>2, <1>3, <1>4, <1>6 DEF Invoke, Called
  <1>7. CASE ~(~direct /\ throw # None) /\ ~(c.depth + Cost(f, direct) > MaxLispDepth)
    <2>1. PICK s : s = CallScope(f, direct, c, n)
      OBVIOUS
    <2>2. PICK d : d = Inside(f, c, c.depth + Cost(f, direct))
      OBVIOUS
    <2>3. /\ s \in Scopes
          /\ s.env = c.env /\ s.structure = c.structure
          /\ s.base = n /\ s.impurity = 0 /\ ~s.tail /\ s.phase = "body"
          /\ s.kind \in {"lambda", "vm"}
          /\ s.kind = "vm" => s.spec = 0
          /\ s.spec = ParamCount(f, SpecParams)
          /\ s.cost = Cost(f, direct)
          /\ Cost(f, direct) \in Nat
      BY <1>1, <1>3, <2>1, CallFields
    <2>4. /\ mode' = "run" /\ scopes' = Append(under, s) /\ entry' = Append(ee, c)
          /\ ctx' = d /\ throw' = throw
      <3>1. c.depth + Cost(f, direct) \in Nat
        BY <1>1, <2>3
      <3>2. [BoundIn(f, UseClosure(f, c)) EXCEPT !.depth = c.depth + Cost(f, direct)] = d
        BY <2>2 DEF Inside
      <3> QED BY <1>2, <1>3, <1>7, <2>1, <3>2 DEF Invoke
    <2>5. /\ s \in Scopes /\ d \in Contexts
          /\ s.env = c.env /\ s.structure = c.structure
          /\ s.base = n /\ s.impurity = 0 /\ ~s.tail /\ s.phase = "body"
          /\ s.kind \in {"lambda", "vm"}
          /\ s.kind = "vm" => s.spec = 0
          /\ d.depth = c.depth + s.cost
          /\ ListTail(d.special, s.spec) = c.special
      <3>1. c.depth + Cost(f, direct) \in Nat
        BY <1>1, <2>3
      <3>2. /\ d \in Contexts /\ d.depth = c.depth + Cost(f, direct)
            /\ ListTail(d.special, ParamCount(f, SpecParams)) = c.special
        BY <1>1, <2>2, <3>1, InsideFields
      <3> QED BY <2>3, <3>2
    <2>6. d.depth <= MaxLispDepth
      BY <1>1, <1>7, <2>3, <2>5, BoundsAssumption
    <2>7. PICK tt, ff : tt = Append(under, s) /\ ff = Append(ee, c)
      OBVIOUS
    <2>8. tt[n] = s /\ ff[n] = c
      BY <1>1, <1>2, <2>5, <2>7
    <2>9. Undo(s, d) = c
      <3>1. Undo(s, d) = [env |-> s.env, special |-> ListTail(d.special, s.spec),
                          structure |-> s.structure, depth |-> d.depth - s.cost]
        BY <2>5, UndoFields
      <3>2. d.depth - s.cost = c.depth
        BY <1>1, <2>5, ScopeType
      <3>3. c = [env |-> c.env, special |-> c.special,
                 structure |-> c.structure, depth |-> c.depth]
        BY <1>1 DEF Contexts
      <3> QED BY <2>5, <3>1, <3>2, <3>3
    <2>10. InVM(tt, ff, n, d)
      <3>1. SUFFICES ASSUME s.kind = "vm" PROVE InVM(tt, ff, n, d)
        BY <2>5, <2>8 DEF InVM, VM
      <3>2. Own(s) = 0
        BY <2>5, <3>1 DEF Own
      <3>3. ListTail(d.special, 0) = c.special
        BY <2>5, <3>1
      <3>4. n \in 1..n /\ 0 \in 0..0
        BY <1>1, <1>2
      <3>5. \A j \in n..n : j = n
        BY <1>3
      <3>6. \E m \in 0..tt[n].impurity : ListTail(d.special, m) = ff[n].special
        BY <2>5, <2>8, <3>3, <3>4
      <3> QED BY <1>3, <2>5, <2>8, <3>1, <3>2, <3>4, <3>5, <3>6 DEF InVM, VM
    <2>11. InTail(tt, n) /\ Holds(s)
      BY <2>5, <2>8 DEF InTail, Holds
    <2>12. Good(tt, ff, n, d)
      BY <2>8, <2>9, <2>10, <2>11 DEF Good
    <2>13. Stack(tt, ff, d)
      BY <1>2, <2>5, <2>7, <2>12, PushStack
    <2> QED BY <2>4, <2>6, <2>7, <2>13 DEF Called
  <1> QED BY <1>5, <1>6, <1>7

\* Calling a subr keeps the stack in order.
LEMMA InvokeSubrInv ==
  ASSUME NEW cost \in 0..1, NEW checked \in BOOLEAN, NEW under, NEW c, NEW ee,
         ee = SubSeq(entry, 1, Len(under)), Stack(under, ee, c),
         c.depth <= MaxLispDepth, throw \in (Thrown \ Funs) \cup {None},
         InvokeSubr(cost, checked, under, c)
  PROVE  Called
  <1>1. /\ Len(under) \in Nat \ {0} /\ c \in Contexts /\ Len(ee) = Len(under)
        /\ under \in Seq(Scopes) /\ ee \in Seq(Contexts) /\ c.depth \in Nat
        /\ c.env \in Seq(Symbols) /\ c.structure \in Structures
    BY TopGood DEF Stack, Contexts
  <1>2. DepthError \in Thrown \ Funs /\ DepthError # None
    BY ThrownAssumption DEF Thrown, Exceptions
  <1>3. CASE (checked /\ throw # None) \/ c.depth + cost > MaxLispDepth
    BY <1>2, <1>3 DEF InvokeSubr, Called
  <1>4. CASE ~((checked /\ throw # None) \/ c.depth + cost > MaxLispDepth)
    <2>1. PICK s : s = [Blank("subr", c) EXCEPT !.cost = cost, !.checked = checked]
      OBVIOUS
    <2>2. PICK d : d = [c EXCEPT !.depth = @ + cost]
      OBVIOUS
    <2>3. /\ mode' = "run" /\ scopes' = Append(under, s) /\ entry' = Append(ee, c)
          /\ ctx' = d /\ throw' = throw
      BY <1>4, <2>1, <2>2 DEF InvokeSubr
    <2>4. s = [kind |-> "subr", env |-> c.env, structure |-> c.structure, old |-> <<>>,
               lex |-> 0, spec |-> 0, cost |-> cost, checked |-> checked,
               tail |-> FALSE, phase |-> "body", base |-> 0, impurity |-> 0,
               data |-> None]
      BY <2>1 DEF Blank
    <2>5. /\ s \in Scopes /\ s.kind = "subr" /\ s.env = c.env
          /\ s.structure = c.structure /\ ~s.tail /\ s.phase = "body" /\ s.cost = cost
      <3>1. s \in Scopes
        BY <1>1, <2>4 DEF Scopes, Kinds, Phases
      <3> QED BY <2>4, <3>1
    <2>6. /\ d \in Contexts /\ d.depth = c.depth + cost /\ d.special = c.special
          /\ d.depth <= MaxLispDepth
      <3>1. d \in Contexts /\ d.depth = c.depth + cost /\ d.special = c.special
        <4>1. c.depth + cost \in Nat
          BY <1>1
        <4> QED BY <1>1, <2>2, <4>1 DEF Contexts
      <3>2. ~(c.depth + cost > MaxLispDepth)
        BY <1>4
      <3> QED BY <1>1, <3>1, <3>2, BoundsAssumption
    <2>7. PICK n, tt, ff : /\ n = Len(under) + 1
                           /\ tt = Append(under, s)
                           /\ ff = Append(ee, c)
      OBVIOUS
    <2>8. tt[n] = s /\ ff[n] = c
      BY <1>1, <2>5, <2>7
    <2>9. Undo(s, d) = c
      <3>1. Undo(s, d) = [env |-> s.env, special |-> d.special,
                          structure |-> s.structure, depth |-> d.depth - s.cost]
        BY <2>5, <2>6, UndoFields
      <3>2. d.depth - s.cost = c.depth
        BY <1>1, <2>5, <2>6
      <3>3. c = [env |-> c.env, special |-> c.special,
                 structure |-> c.structure, depth |-> c.depth]
        BY <1>1 DEF Contexts
      <3> QED BY <2>5, <2>6, <3>1, <3>2, <3>3
    <2>10. Good(tt, ff, n, d)
      BY <2>5, <2>8, <2>9 DEF Good, InVM, VM, InTail, Holds
    <2>11. Stack(tt, ff, d)
      BY <2>5, <2>6, <2>7, <2>10, PushStack
    <2> QED BY <2>3, <2>6, <2>7, <2>11 DEF Called
  <1> QED BY <1>3, <1>4

----------------------------------------------------------------------------
(* What is thrown *)

\* With no tail call on its way and no exception in a window, little is left
\* to show.
LEMMA QuietThrows ==
  ASSUME Throws, UNCHANGED signals,
         mode' \in {"run", "unwind", "exit"},
         throw' \in (Thrown \ Funs) \cup {None},
         mode' = "unwind" => throw' # None,
         reg' \in (Thrown \ Funs) \cup {None}
  PROVE  Throws'
  <1>1. None \notin Funs
    BY ThrownAssumption
  <1>2. throw' \notin Funs /\ reg' \notin Funs
    BY <1>1
  <1>3. signals' \in 0..MaxSignals
    BY DEF Throws
  <1> QED BY <1>2, <1>3 DEF Throws, Modes

\* In every mode but unwind there is no tail call in rep_throw_value.
LEMMA NoTailCall ==
  ASSUME Throws, mode # "unwind"
  PROVE  throw \in (Thrown \ Funs) \cup {None}
  BY DEF Throws

\* The registers that hold an exception.
LEMMA RegQuiet ==
  ASSUME Throws
  PROVE  reg \in (Thrown \ Funs) \cup {None}
  BY DEF Throws

\* A call that is made, or fails, keeps the invariant.
LEMMA CalledInv ==
  ASSUME IndInv, Called, UNCHANGED <<reg, signals>>
  PROVE  IndInv'
  <1>1. reg' \in (Thrown \ Funs) \cup {None}
    BY RegQuiet DEF IndInv
  <1>2. Throws'
    BY <1>1, QuietThrows DEF IndInv, Called
  <1> QED BY <1>2, NextInv DEF Called

\* A function that returns a value keeps the invariant.
LEMMA ReturnedInv ==
  ASSUME IndInv, Pop, Top.kind # "loop", mode # "unwind",
         mode' \in {"run", ValueReturned(Top)}, UNCHANGED <<throw, reg, signals>>
  PROVE  IndInv'
  <1>1. throw' \in (Thrown \ Funs) \cup {None} /\ reg' \in (Thrown \ Funs) \cup {None}
    BY NoTailCall, RegQuiet DEF IndInv
  <1>2. mode' \in {"run", "unwind"} /\ (mode' = "unwind" => throw' # None)
    BY DEF ValueReturned
  <1>3. Throws'
    BY <1>1, <1>2, QuietThrows DEF IndInv
  <1> QED BY <1>3, PopInv, NextInv

----------------------------------------------------------------------------
(* Steps that replace the innermost scope *)

\* The innermost scope becomes s, which is no part of compiled code, and the
\* registers go to d.
LEMMA ReplaceTop ==
  ASSUME IndInv, NEW s \in Scopes, NEW d \in Contexts, s.kind \notin VM,
         Depth > 1, s.tail => Top.tail /\ s.kind \in {"lambda", "eval"},
         Holds(s), Undo(s, d) = entry[Depth]
  PROVE  Stack([scopes EXCEPT ![Depth] = s], entry, d)
  <1>1. Stack(scopes, entry, ctx)
    BY DEF IndInv
  <1>2. PICK tt : tt = [scopes EXCEPT ![Len(scopes)] = s]
    OBVIOUS
  <1>3. tt[Depth] = s /\ tt[Depth - 1] = scopes[Depth - 1]
    BY <1>2, Facts DEF Depth
  <1>4. InVM(tt, entry, Depth, d)
    BY <1>3 DEF InVM
  <1>5. InTail(tt, Depth)
    <2>1. InTail(scopes, Depth)
      BY Facts DEF Good
    <2> QED BY <1>3, <2>1 DEF InTail, Top
  <1>6. Good([scopes EXCEPT ![Len(scopes)] = s], entry, Len(scopes), d)
    BY <1>2, <1>3, <1>4, <1>5 DEF Good, Depth
  <1>7. Len(scopes) = 1 => s.kind = "loop"
    BY Facts DEF Depth
  <1>8. Stack([scopes EXCEPT ![Len(scopes)] = s], entry, d)
    BY <1>1, <1>6, <1>7, TopStack
  <1> QED BY <1>8 DEF Depth

\* A subr or a handler goes on to its next phase, and a subr turns out to be
\* one that calls functions.
LEMMA NextPhase ==
  ASSUME IndInv, NEW k \in Kinds, NEW p \in Phases \ {"tail"},
         \/ Top.kind \in {"subr", "catch"} /\ k \in {"subr", "catch", "loop"}
         \/ Top.kind = "fluids" /\ k = "fluids"
  PROVE  Stack([scopes EXCEPT ![Depth] = [Top EXCEPT !.kind = k, !.phase = p]],
               entry, ctx)
  <1>1. PICK s : s = [Top EXCEPT !.kind = k, !.phase = p]
    OBVIOUS
  <1>2. /\ s \in Scopes /\ s.kind = k /\ s.phase = p /\ s.env = Top.env
        /\ s.structure = Top.structure /\ s.cost = Top.cost /\ s.tail = Top.tail
        /\ s.data = Top.data /\ s.old = Top.old
    BY <1>1, Facts DEF Scopes, Kinds
  <1>3. /\ Undo(Top, ctx) = entry[Depth] /\ Top \in Scopes /\ ctx \in Contexts
        /\ InTail(scopes, Depth) /\ Holds(Top) /\ Depth > 1
    BY Facts DEF Good, Top
  <1>4. Undo(s, ctx) = entry[Depth]
    <2>1. CASE Top.kind = "fluids"
      <3>1. Undo(s, ctx) = [env |-> s.env, special |-> s.old,
                            structure |-> s.structure, depth |-> ctx.depth - s.cost]
        BY <1>2, <1>3, <2>1, UndoFields
      <3>2. Undo(Top, ctx) = [env |-> Top.env, special |-> Top.old,
                              structure |-> Top.structure, depth |-> ctx.depth - Top.cost]
        BY <1>3, <2>1, UndoFields
      <3> QED BY <1>2, <1>3, <3>1, <3>2
    <2>2. CASE Top.kind # "fluids"
      <3>1. Undo(s, ctx) = [env |-> s.env, special |-> ctx.special,
                            structure |-> s.structure, depth |-> ctx.depth - s.cost]
        BY <1>2, <1>3, <2>2, UndoFields
      <3>2. Undo(Top, ctx) = [env |-> Top.env, special |-> ctx.special,
                              structure |-> Top.structure, depth |-> ctx.depth - Top.cost]
        BY <1>3, <2>2, UndoFields
      <3> QED BY <1>2, <1>3, <3>1, <3>2
    <2> QED BY <2>1, <2>2
  <1>5. ~s.tail /\ s.kind \notin VM
    BY <1>2, <1>3 DEF InTail, Top, VM
  <1>6. Holds(s)
    BY <1>2, <1>5 DEF Holds, VM
  <1>7. Stack([scopes EXCEPT ![Depth] = s], entry, ctx)
    BY <1>2, <1>3, <1>4, <1>5, <1>6, ReplaceTop
  <1> QED BY <1>1, <1>7

\* with-fluids saves the special environment that it extends.
LEMMA WithFluidsInv ==
  ASSUME IndInv, NEW f \in Symbols, WithFluids(f)
  PROVE  IndInv'
  <1>1. PICK s : s = [Top EXCEPT !.kind = "fluids", !.phase = "ready", !.old = ctx.special]
    OBVIOUS
  <1>2. PICK d : d = [ctx EXCEPT !.special = <<f>> \o @]
    OBVIOUS
  <1>3. Top.kind = "subr" /\ mode = "run"
    BY DEF WithFluids, Run
  <1>4. /\ Undo(Top, ctx) = entry[Depth] /\ Top \in Scopes /\ ctx \in Contexts
        /\ InTail(scopes, Depth) /\ Depth > 1 /\ ctx.special \in Seq(Symbols)
        /\ ctx.depth \in Nat
    BY <1>3, Facts DEF Good, Top, Contexts
  <1>5. /\ s \in Scopes /\ s.kind = "fluids" /\ s.phase = "ready" /\ s.env = Top.env
        /\ s.structure = Top.structure /\ s.cost = Top.cost /\ s.tail = Top.tail
        /\ s.old = ctx.special
    BY <1>1, <1>4 DEF Scopes, Kinds, Phases
  <1>6. d \in Contexts /\ d.depth = ctx.depth
    <2>1. <<f>> \o ctx.special \in Seq(Symbols)
      BY <1>4, TailCons
    <2> QED BY <1>2, <1>4, <2>1 DEF Contexts
  <1>7. Undo(s, d) = entry[Depth]
    <2>1. Undo(s, d) = [env |-> s.env, special |-> s.old,
                        structure |-> s.structure, depth |-> d.depth - s.cost]
      BY <1>5, <1>6, UndoFields
    <2>2. Undo(Top, ctx) = [env |-> Top.env, special |-> ctx.special,
                            structure |-> Top.structure, depth |-> ctx.depth - Top.cost]
      BY <1>3, <1>4, UndoFields
    <2> QED BY <1>4, <1>5, <1>6, <2>1, <2>2
  <1>8. ~s.tail /\ s.kind \notin VM /\ Holds(s)
    BY <1>3, <1>4, <1>5 DEF InTail, Top, VM, Holds
  <1>9. Stack([scopes EXCEPT ![Depth] = s], entry, d)
    BY <1>4, <1>5, <1>6, <1>7, <1>8, ReplaceTop
  <1>10. scopes' = [scopes EXCEPT ![Depth] = s] /\ entry' = entry /\ ctx' = d
    BY <1>1, <1>2, Facts DEF WithFluids, Top
  <1>11. ctx'.depth <= MaxLispDepth
    BY <1>6, <1>10 DEF IndInv
  <1>12. Throws'
    BY <1>3, NoTailCall, RegQuiet, QuietThrows DEF WithFluids, IndInv
  <1> QED BY <1>9, <1>10, <1>11, <1>12, NextInv

\* call-with-exception-handler, recursive-edit and the end of Take only change
\* what the innermost scope is waiting for.
LEMMA PhaseInv ==
  ASSUME IndInv, CallWithExceptionHandler \/ RecursiveEdit \/ TakeEnd
  PROVE  IndInv'
  <1>1. /\ Top \in Scopes /\ Holds(Top) /\ scopes \in Seq(Scopes)
        /\ Depth \in Nat \ {0} /\ Depth = Len(scopes)
    BY Facts DEF Good, Top, Depth
  <1>2. CASE CallWithExceptionHandler
    <2>1. Top.kind = "subr" /\ mode = "run"
      BY <1>2 DEF CallWithExceptionHandler, Run
    <2>2. /\ scopes' = [scopes EXCEPT ![Depth] = [Top EXCEPT !.kind = "catch", !.phase = "ready"]]
          /\ entry' = entry /\ ctx' = ctx
      BY <1>1, <1>2 DEF CallWithExceptionHandler, Top
    <2>3. Stack(scopes', entry', ctx')
      BY <2>1, <2>2, NextPhase DEF Kinds, Phases
    <2>4. Throws'
      BY <1>2, <2>1, NoTailCall, RegQuiet, QuietThrows DEF CallWithExceptionHandler, IndInv
    <2> QED BY <2>2, <2>3, <2>4, NextInv DEF IndInv
  <1>3. CASE RecursiveEdit
    <2>1. Top.kind = "subr" /\ mode = "run"
      BY <1>3 DEF RecursiveEdit, Run
    <2>2. Top.phase \in Phases \ {"tail"}
      BY <1>1, <2>1 DEF Holds, Scopes
    <2>3. [Top EXCEPT !.kind = "loop"] = [Top EXCEPT !.kind = "loop", !.phase = Top.phase]
      BY <1>1 DEF Scopes
    <2>4. scopes' = [scopes EXCEPT ![Depth] = [Top EXCEPT !.kind = "loop"]]
      BY <1>1, <1>3 DEF RecursiveEdit, Top
    <2>5. entry' = entry /\ ctx' = ctx
      BY <1>3 DEF RecursiveEdit
    <2>6. Stack([scopes EXCEPT ![Depth] = [Top EXCEPT !.kind = "loop", !.phase = Top.phase]],
                entry, ctx)
      BY <2>1, <2>2, NextPhase DEF Kinds
    <2>7. Stack(scopes', entry', ctx')
      BY <2>3, <2>4, <2>5, <2>6
    <2>8. Throws'
      BY <1>3, <2>1, NoTailCall, RegQuiet, QuietThrows DEF RecursiveEdit, IndInv
    <2> QED BY <2>5, <2>7, <2>8, NextInv DEF IndInv
  <1>4. CASE TakeEnd
    <2>1. Top.kind = "catch" /\ mode = "taking"
      BY <1>4 DEF TakeEnd, IndInv, Throws
    <2>2. [Top EXCEPT !.phase = "handle"] = [Top EXCEPT !.kind = "catch", !.phase = "handle"]
      BY <1>1, <2>1 DEF Scopes
    <2>3. scopes' = [scopes EXCEPT ![Depth] = [Top EXCEPT !.phase = "handle"]]
      BY <1>1, <1>4 DEF TakeEnd, Top
    <2>4. entry' = entry /\ ctx' = ctx
      BY <1>4 DEF TakeEnd
    <2>5. Stack([scopes EXCEPT ![Depth] = [Top EXCEPT !.kind = "catch", !.phase = "handle"]],
                entry, ctx)
      BY <2>1, NextPhase DEF Kinds, Phases
    <2>6. Stack(scopes', entry', ctx')
      BY <2>2, <2>3, <2>4, <2>5
    <2>7. Throws'
      BY <1>4, QuietThrows DEF TakeEnd, IndInv
    <2> QED BY <2>4, <2>6, <2>7, NextInv DEF IndInv
  <1> QED BY <1>2, <1>3, <1>4

\* The histories of all scopes.
LEMMA EntryAll ==
  ASSUME IndInv
  PROVE  SubSeq(entry, 1, Len(scopes)) = entry
  BY Facts DEF Depth

\* A subr or compiled code calls a function.
LEMMA CallInv ==
  ASSUME IndInv, mode = "run", UNCHANGED <<reg, signals>>,
         \/ \E f \in Funs, direct \in BOOLEAN : Invoke(f, direct, scopes, ctx)
         \/ InvokeSubr(0, FALSE, scopes, ctx)
  PROVE  IndInv'
  <1>1. /\ Stack(scopes, entry, ctx) /\ ctx.depth <= MaxLispDepth
        /\ entry = SubSeq(entry, 1, Len(scopes))
        /\ throw \in (Thrown \ Funs) \cup {None}
    BY EntryAll, NoTailCall DEF IndInv
  <1>2. CASE InvokeSubr(0, FALSE, scopes, ctx)
    <2>1. 0 \in 0..1 /\ FALSE \in BOOLEAN
      OBVIOUS
    <2>2. Called
      BY <1>1, <1>2, <2>1, InvokeSubrInv
    <2> QED BY <2>2, CalledInv
  <1>3. ASSUME NEW f \in Funs, NEW direct \in BOOLEAN, Invoke(f, direct, scopes, ctx)
        PROVE  IndInv'
    <2>1. Called
      BY <1>1, <1>3, InvokeInv
    <2> QED BY <2>1, CalledInv
  <1> QED BY <1>2, <1>3

\* A form that is a call gives way to it.
LEMMA EvalCallInv ==
  ASSUME IndInv, EvalSubr \/ \E f \in Funs : EvalCall(f)
  PROVE  IndInv'
  <1>1. mode = "run" /\ Top.kind = "eval" /\ UNCHANGED <<reg, signals>>
    BY DEF EvalSubr, EvalCall, Run
  <1>2. Depth > 1 /\ Depth \in Nat /\ Depth = Len(scopes) /\ scopes \in Seq(Scopes)
    BY <1>1, Facts DEF Depth
  <1>3. /\ Undo(Top, ctx) = entry[Depth] /\ entry[Depth].depth <= MaxLispDepth
        /\ Stack(Below, SubSeq(entry, 1, Depth - 1), entry[Depth])
    BY <1>2, PopStack DEF IndInv, Depth, Top, Below
  <1>4. Len(Below) = Depth - 1
    BY <1>2 DEF Below
  <1>5. throw \in (Thrown \ Funs) \cup {None}
    BY <1>1, NoTailCall DEF IndInv
  <1>6. CASE EvalSubr
    <2>1. InvokeSubr(1, TRUE, Below, entry[Depth])
      BY <1>3, <1>6 DEF EvalSubr
    <2>2. 1 \in 0..1 /\ TRUE \in BOOLEAN
      OBVIOUS
    <2>3. Called
      BY <1>3, <1>4, <1>5, <2>1, <2>2, InvokeSubrInv
    <2> QED BY <1>1, <2>3, CalledInv
  <1>7. ASSUME NEW f \in Funs, EvalCall(f) PROVE IndInv'
    <2>1. CASE Top.tail
      <3>1. /\ throw' = f /\ mode' = "unwind" /\ ctx' = ctx /\ scopes' = scopes
            /\ entry' = entry /\ reg' = reg /\ signals' = signals
        BY <1>7, <2>1 DEF EvalCall
      <3>2. f # None /\ f \in Thrown
        BY ThrownAssumption DEF Thrown
      <3>3. Throws'
        BY <1>1, <2>1, <3>1, <3>2 DEF IndInv, Throws, Top, Depth, Modes
      <3> QED BY <3>1, <3>3, NextInv DEF IndInv
    <2>2. CASE ~Top.tail
      <3>1. Invoke(f, FALSE, Below, entry[Depth])
        BY <1>3, <1>7, <2>2 DEF EvalCall
      <3>2. FALSE \in BOOLEAN
        OBVIOUS
      <3>3. Called
        BY <1>3, <1>4, <1>5, <3>1, <3>2, InvokeInv
      <3> QED BY <1>1, <3>3, CalledInv
    <2> QED BY <2>1, <2>2
  <1> QED BY <1>6, <1>7

\* rep_eval() of a form, in tail position or not.
LEMMA EvalFormInv ==
  ASSUME IndInv, NEW tail \in BOOLEAN, EvalForm(tail)
  PROVE  IndInv'
  <1>1. /\ mode = "run" /\ throw = None /\ UNCHANGED <<reg, signals>>
        /\ Top.phase = "body" /\ (tail => HasTail)
    BY DEF EvalForm, Run
  <1>2. DepthError \in (Thrown \ Funs) \cup {None} /\ DepthError # None
    BY ThrownAssumption DEF Thrown, Exceptions
  <1>3. CASE ctx.depth + 1 > MaxLispDepth
    <2>1. /\ throw' = DepthError /\ mode' = "unwind" /\ ctx' = ctx
          /\ scopes' = scopes /\ entry' = entry
      BY <1>3 DEF EvalForm
    <2>2. Throws'
      BY <1>1, <1>2, <2>1, RegQuiet, QuietThrows DEF IndInv
    <2> QED BY <2>1, <2>2, NextInv DEF IndInv
  <1>4. CASE ~(ctx.depth + 1 > MaxLispDepth)
    <2>1. PICK s : s = [Blank("eval", ctx) EXCEPT !.tail = tail]
      OBVIOUS
    <2>2. PICK d : d = [ctx EXCEPT !.depth = @ + 1]
      OBVIOUS
    <2>3. PICK n, tt, ff : n = Len(scopes) + 1 /\ tt = Append(scopes, s) /\ ff = Append(entry, ctx)
      OBVIOUS
    <2>4. scopes' = tt /\ entry' = ff /\ ctx' = d /\ throw' = throw /\ mode' = mode
      BY <1>4, <2>1, <2>2, <2>3 DEF EvalForm
    <2>5. s = [kind |-> "eval", env |-> ctx.env, structure |-> ctx.structure, old |-> <<>>,
               lex |-> 0, spec |-> 0, cost |-> 0, checked |-> FALSE, tail |-> tail,
               phase |-> "body", base |-> 0, impurity |-> 0, data |-> None]
      BY <2>1 DEF Blank
    <2>6. /\ ctx \in Contexts /\ ctx.env \in Seq(Symbols) /\ ctx.structure \in Structures
          /\ ctx.depth \in Nat /\ ctx.depth + 1 \in Nat
      BY Facts DEF Contexts
    <2>7. s \in Scopes
      BY <2>5, <2>6 DEF Scopes, Kinds, Phases
    <2>8. s.kind = "eval" /\ s.tail = tail /\ s.phase = "body"
      BY <2>5
    <2>9. /\ d \in Contexts /\ d.depth = ctx.depth + 1 /\ d.env = ctx.env
          /\ d.special = ctx.special /\ d.structure = ctx.structure
      BY <2>2, <2>6 DEF Contexts
    <2>10. /\ tt[n] = s /\ ff[n] = ctx /\ tt[n - 1] = Top /\ n > 1
      BY <2>3, <2>7, Facts DEF Top, Depth
    <2>11. Undo(s, d) = ctx
      <3>1. Undo(s, d) = [env |-> d.env, special |-> d.special,
                          structure |-> d.structure, depth |-> d.depth - 1]
        BY <2>7, <2>8, <2>9, UndoFields
      <3>2. ctx = [env |-> ctx.env, special |-> ctx.special,
                   structure |-> ctx.structure, depth |-> ctx.depth]
        BY <2>6 DEF Contexts
      <3>3. d.depth - 1 = ctx.depth
        BY <2>6, <2>9
      <3> QED BY <2>9, <3>1, <3>2, <3>3
    <2>12. InTail(tt, n)
      <3>1. tail => \/ Top.kind = "lambda"
                    \/ Top.kind = "eval" /\ Top.tail
        BY <1>1 DEF HasTail
      <3> QED BY <1>1, <2>8, <2>10, <3>1 DEF InTail
    <2>13. Good(tt, ff, n, d)
      BY <2>8, <2>10, <2>11, <2>12 DEF Good, InVM, VM, Holds
    <2>14. Stack(tt, ff, d)
      BY <2>3, <2>7, <2>9, <2>13, PushStack DEF IndInv
    <2>15. d.depth <= MaxLispDepth
      BY <1>4, <2>6, <2>9, BoundsAssumption
    <2>16. Throws'
      BY <1>1, <2>4, RegQuiet, QuietThrows DEF IndInv
    <2> QED BY <2>4, <2>14, <2>15, <2>16, NextInv
  <1> QED BY <1>3, <1>4

\* A lambda expression takes the place of the form that applies it.
LEMMA InlineLambdaInv ==
  ASSUME IndInv, NEW f \in Funs, InlineLambda(f)
  PROVE  IndInv'
  <1>1. Top.kind = "eval" /\ mode = "run" /\ Code[f] = "lambda"
    BY DEF InlineLambda, Run
  <1>2. /\ Top \in Scopes /\ ctx \in Contexts /\ Depth > 1
        /\ Undo(Top, ctx) = entry[Depth] /\ Top.tail \in BOOLEAN
    BY <1>1, Facts DEF Good, Top, Scopes
  <1>3. /\ LexParams[f] \in Seq(Symbols) /\ SpecParams[f] \in Seq(Symbols)
        /\ Len(LexParams[f]) \in Nat /\ Len(SpecParams[f]) \in Nat
        /\ ctx.env \in Seq(Symbols) /\ ctx.special \in Seq(Symbols)
        /\ ctx.structure \in Structures /\ ctx.depth \in Nat
    BY <1>2, FunsAssumption DEF Contexts
  <1>4. PICK s : s = [Blank("lambda", ctx) EXCEPT
                        !.lex = Len(LexParams[f]), !.spec = Len(SpecParams[f]),
                        !.cost = 1, !.tail = Top.tail]
    OBVIOUS
  <1>5. PICK d : d = BoundIn(f, ctx)
    OBVIOUS
  <1>6. s = [kind |-> "lambda", env |-> ctx.env, structure |-> ctx.structure, old |-> <<>>,
             lex |-> Len(LexParams[f]), spec |-> Len(SpecParams[f]), cost |-> 1,
             checked |-> FALSE, tail |-> Top.tail, phase |-> "body", base |-> 0,
             impurity |-> 0, data |-> None]
    BY <1>4 DEF Blank
  <1>7. s \in Scopes
    BY <1>2, <1>3, <1>6 DEF Scopes, Kinds, Phases
  <1>8. /\ s.kind = "lambda" /\ s.env = ctx.env /\ s.structure = ctx.structure
        /\ s.spec = Len(SpecParams[f]) /\ s.cost = 1 /\ s.tail = Top.tail /\ s.phase = "body"
    BY <1>6
  <1>9. /\ d \in Contexts /\ d.special = SpecParams[f] \o ctx.special /\ d.depth = ctx.depth
    <2>1. d = [ctx EXCEPT !.env = LexParams[f] \o @, !.special = SpecParams[f] \o @]
      BY <1>1, <1>5 DEF BoundIn
    <2>2. LexParams[f] \o ctx.env \in Seq(Symbols) /\ SpecParams[f] \o ctx.special \in Seq(Symbols)
      BY <1>3
    <2> QED BY <1>2, <2>1, <2>2 DEF Contexts
  <1>10. Undo(s, d) = entry[Depth]
    <2>1. Undo(s, d) = [env |-> s.env, special |-> ListTail(d.special, s.spec),
                        structure |-> s.structure, depth |-> d.depth - s.cost]
      BY <1>7, <1>8, <1>9, UndoFields
    <2>2. Undo(Top, ctx) = [env |-> ctx.env, special |-> ctx.special,
                            structure |-> ctx.structure, depth |-> ctx.depth - 1]
      BY <1>1, <1>2, UndoFields
    <2>3. ListTail(d.special, s.spec) = ctx.special
      BY <1>3, <1>8, <1>9, TailConcat
    <2> QED BY <1>2, <1>8, <1>9, <2>1, <2>2, <2>3
  <1>11. s.kind \notin VM /\ Holds(s) /\ (s.tail => Top.tail /\ s.kind \in {"lambda", "eval"})
    BY <1>8 DEF VM, Holds
  <1>12. Stack([scopes EXCEPT ![Depth] = s], entry, d)
    BY <1>2, <1>7, <1>9, <1>10, <1>11, ReplaceTop
  <1>13. scopes' = [scopes EXCEPT ![Depth] = s] /\ entry' = entry /\ ctx' = d
    BY <1>4, <1>5 DEF InlineLambda
  <1>14. ctx'.depth <= MaxLispDepth
    BY <1>9, <1>13 DEF IndInv
  <1>15. Throws'
    BY <1>1, NoTailCall, RegQuiet, QuietThrows DEF InlineLambda, IndInv
  <1> QED BY <1>12, <1>13, <1>14, <1>15, NextInv

\* A lambda unbinds its arguments before it goes on with a tail call.
LEMMA UnbindTop ==
  ASSUME NEW s \in Scopes, NEW c \in Contexts, NEW u, u = Unbind(s, c)
  PROVE  /\ u \in Contexts
         /\ u.special = ListTail(c.special, s.spec)
         /\ u.depth = c.depth
  <1>1. c.env \in Seq(Symbols) /\ c.special \in Seq(Symbols) /\ s.lex \in Nat /\ s.spec \in Nat
    BY ScopeType DEF Contexts
  <1>2. ListTail(c.env, s.lex) \in Seq(Symbols) /\ ListTail(c.special, s.spec) \in Seq(Symbols)
    BY <1>1, TailType
  <1> QED BY <1>2 DEF Unbind, Contexts

\* rep_apply_lambda() catches a tail call.
LEMMA CatchTailCallInv ==
  ASSUME IndInv, CatchTailCall
  PROVE  IndInv'
  <1>1. /\ mode = "unwind" /\ Top.kind = "lambda" /\ Top.phase = "body" /\ ~Top.tail
        /\ throw \in Funs /\ throw' = None /\ mode' = "run"
        /\ UNCHANGED <<reg, signals, entry>>
    BY DEF CatchTailCall
  <1>2. /\ Top \in Scopes /\ ctx \in Contexts /\ Depth > 1
        /\ Undo(Top, ctx) = entry[Depth] /\ scopes \in Seq(Scopes)
        /\ Depth = Len(scopes) /\ Depth \in Nat
    BY <1>1, Facts DEF Good, Top, Depth
  <1>3. PICK c : c = Unbind(Top, ctx)
    OBVIOUS
  <1>4. /\ c \in Contexts /\ c.special = ListTail(ctx.special, Top.spec)
        /\ c.depth = ctx.depth /\ c.special \in Seq(Symbols)
    BY <1>2, <1>3, UnbindTop DEF Contexts
  <1>5. \A s \in Scopes, d \in Contexts :
          (/\ s.kind = "lambda" /\ s.env = Top.env /\ s.structure = Top.structure
           /\ s.cost = Top.cost /\ ~s.tail /\ Holds(s)
           /\ ListTail(d.special, s.spec) = c.special /\ d.depth = ctx.depth
           /\ scopes' = [scopes EXCEPT ![Depth] = s] /\ ctx' = d)
          => IndInv'
    <2>1. SUFFICES ASSUME NEW s \in Scopes, NEW d \in Contexts,
                          s.kind = "lambda", s.env = Top.env, s.structure = Top.structure,
                          s.cost = Top.cost, ~s.tail, Holds(s),
                          ListTail(d.special, s.spec) = c.special, d.depth = ctx.depth,
                          scopes' = [scopes EXCEPT ![Depth] = s], ctx' = d
                   PROVE  IndInv'
      OBVIOUS
    <2>2. Undo(s, d) = entry[Depth]
      <3>1. Undo(s, d) = [env |-> s.env, special |-> ListTail(d.special, s.spec),
                          structure |-> s.structure, depth |-> d.depth - s.cost]
        BY <2>1, UndoFields
      <3>2. Undo(Top, ctx) = [env |-> Top.env, special |-> ListTail(ctx.special, Top.spec),
                              structure |-> Top.structure, depth |-> ctx.depth - Top.cost]
        BY <1>1, <1>2, UndoFields
      <3> QED BY <1>2, <1>4, <2>1, <3>1, <3>2
    <2>3. Stack([scopes EXCEPT ![Depth] = s], entry, d)
      BY <1>2, <2>1, <2>2, ReplaceTop DEF VM
    <2>4. Throws'
      BY <1>1, RegQuiet, QuietThrows DEF IndInv
    <2>5. ctx'.depth <= MaxLispDepth
      BY <2>1 DEF IndInv
    <2> QED BY <1>1, <2>1, <2>3, <2>4, <2>5, NextInv
  <1>6. CASE Code[throw] = "lambda"
    <2>1. PICK s : s = [Top EXCEPT !.lex = Len(LexParams[throw]), !.spec = Len(SpecParams[throw])]
      OBVIOUS
    <2>2. PICK d : d = BoundIn(throw, UseClosure(throw, c))
      OBVIOUS
    <2>3. Len(LexParams[throw]) \in Nat /\ Len(SpecParams[throw]) \in Nat
      BY <1>1, FunsAssumption
    <2>4. /\ s \in Scopes /\ s.kind = "lambda" /\ s.env = Top.env
          /\ s.structure = Top.structure /\ s.cost = Top.cost /\ s.tail = Top.tail
          /\ s.phase = "body" /\ s.spec = Len(SpecParams[throw])
      BY <1>1, <1>2, <2>1, <2>3 DEF Scopes
    <2>5. ParamCount(throw, SpecParams) = Len(SpecParams[throw])
      BY <1>6 DEF ParamCount
    <2>6. /\ d \in Contexts /\ d.depth = c.depth
          /\ ListTail(d.special, s.spec) = c.special
      BY <1>1, <1>4, <2>2, <2>4, <2>5, BoundFields
    <2>7. scopes' = [scopes EXCEPT ![Depth] = s] /\ ctx' = d
      BY <1>2, <1>3, <1>6, <2>1, <2>2 DEF CatchTailCall, Top
    <2>8. Holds(s)
      BY <2>4 DEF Holds
    <2> QED BY <1>1, <1>4, <1>5, <2>4, <2>6, <2>7, <2>8
  <1>7. CASE Code[throw] # "lambda"
    <2>1. PICK s : s = [Top EXCEPT !.lex = 0, !.spec = 0, !.phase = "tail", !.data = throw]
      OBVIOUS
    <2>2. /\ s \in Scopes /\ s.kind = "lambda" /\ s.env = Top.env
          /\ s.structure = Top.structure /\ s.cost = Top.cost /\ s.tail = Top.tail
          /\ s.phase = "tail" /\ s.spec = 0 /\ s.data = throw
      BY <1>1, <1>2, <2>1 DEF Scopes, Phases, Thrown
    <2>3. ListTail(c.special, s.spec) = c.special
      BY <1>4, <2>2, TailZero
    <2>4. scopes' = [scopes EXCEPT ![Depth] = s] /\ ctx' = c
      BY <1>2, <1>3, <1>7, <2>1 DEF CatchTailCall, Top
    <2>5. Holds(s)
      BY <1>1, <2>2 DEF Holds
    <2> QED BY <1>1, <1>4, <1>5, <2>2, <2>3, <2>4, <2>5
  <1> QED BY <1>6, <1>7

\* rep_apply_lambda() applies what is no lambda.
LEMMA TailApplyInv ==
  ASSUME IndInv, TailApply
  PROVE  IndInv'
  <1>1. /\ mode = "run" /\ Top.kind = "lambda" /\ Top.phase = "tail"
        /\ UNCHANGED <<reg, signals>>
    BY DEF TailApply, Run
  <1>2. /\ Top \in Scopes /\ ctx \in Contexts /\ Depth > 1
        /\ Undo(Top, ctx) = entry[Depth] /\ scopes \in Seq(Scopes) /\ Holds(Top)
        /\ Depth = Len(scopes) /\ Depth \in Nat
    BY <1>1, Facts DEF Good, Top, Depth
  <1>3. Top.data \in Funs
    BY <1>1, <1>2 DEF Holds
  <1>4. PICK s : s = [Top EXCEPT !.phase = "called", !.data = None]
    OBVIOUS
  <1>5. /\ s \in Scopes /\ s.kind = "lambda" /\ s.env = Top.env
        /\ s.structure = Top.structure /\ s.cost = Top.cost /\ s.tail = Top.tail
        /\ s.phase = "called" /\ s.spec = Top.spec
    BY <1>1, <1>2, <1>4 DEF Scopes, Phases
  <1>6. Undo(s, ctx) = entry[Depth]
    <2>1. Undo(s, ctx) = [env |-> s.env, special |-> ListTail(ctx.special, s.spec),
                          structure |-> s.structure, depth |-> ctx.depth - s.cost]
      BY <1>2, <1>5, UndoFields
    <2>2. Undo(Top, ctx) = [env |-> Top.env, special |-> ListTail(ctx.special, Top.spec),
                            structure |-> Top.structure, depth |-> ctx.depth - Top.cost]
      BY <1>1, <1>2, UndoFields
    <2> QED BY <1>2, <1>5, <2>1, <2>2
  <1>7. PICK under : under = [scopes EXCEPT ![Depth] = s]
    OBVIOUS
  <1>8. Stack(under, entry, ctx)
    BY <1>2, <1>5, <1>6, <1>7, ReplaceTop DEF VM, Holds
  <1>9. entry = SubSeq(entry, 1, Len(under))
    BY <1>2, <1>7, EntryAll
  <1>10. under = [scopes EXCEPT ![Depth].phase = "called", ![Depth].data = None]
    BY <1>2, <1>4, <1>7 DEF Top
  <1>11. Invoke(Top.data, FALSE, under, ctx)
    BY <1>10 DEF TailApply
  <1>12. FALSE \in BOOLEAN /\ ctx.depth <= MaxLispDepth
    BY DEF IndInv
  <1>13. throw \in (Thrown \ Funs) \cup {None}
    BY <1>1, NoTailCall DEF IndInv
  <1>14. Called
    BY <1>3, <1>8, <1>9, <1>11, <1>12, <1>13, InvokeInv
  <1> QED BY <1>1, <1>14, CalledInv

\* with-fluids and call-with-exception-handler call their functions.
LEMMA CallThunkInv ==
  ASSUME IndInv, NEW f \in Funs, CallThunk(f)
  PROVE  IndInv'
  <1>1. /\ mode = "run" /\ Top.kind \in {"fluids", "catch"}
        /\ Top.phase \in {"ready", "handle"} /\ UNCHANGED <<reg, signals>>
    BY DEF CallThunk, Run
  <1>2. /\ Top \in Scopes /\ scopes \in Seq(Scopes)
        /\ Depth = Len(scopes) /\ Depth \in Nat \ {0}
    BY Facts DEF Top, Depth
  <1>3. PICK p : p = IF Top.phase = "ready" THEN "called" ELSE "handled"
    OBVIOUS
  <1>4. PICK under : under = [scopes EXCEPT ![Depth] = [Top EXCEPT !.kind = Top.kind, !.phase = p]]
    OBVIOUS
  <1>5. p \in Phases \ {"tail"} /\ Top.kind \in Kinds
    BY <1>1, <1>3 DEF Phases, Kinds
  <1>6. Stack(under, entry, ctx)
    BY <1>1, <1>4, <1>5, NextPhase
  <1>7. [Top EXCEPT !.kind = Top.kind, !.phase = p] = [Top EXCEPT !.phase = p]
    BY <1>2 DEF Scopes
  <1>8. under = [scopes EXCEPT ![Depth].phase = IF @ = "ready" THEN "called" ELSE "handled"]
    BY <1>2, <1>3, <1>4, <1>7 DEF Top
  <1>9. entry = SubSeq(entry, 1, Len(under))
    BY <1>2, <1>4, EntryAll
  <1>10. PICK direct \in BOOLEAN : Invoke(f, direct, under, ctx)
    BY <1>8 DEF CallThunk
  <1>11. throw \in (Thrown \ Funs) \cup {None} /\ ctx.depth <= MaxLispDepth
    BY <1>1, NoTailCall DEF IndInv
  <1>12. Called
    BY <1>6, <1>9, <1>10, <1>11, InvokeInv
  <1> QED BY <1>1, <1>12, CalledInv

----------------------------------------------------------------------------
(* Compiled code *)

\* The scope of bytecode_vm() itself.
LEMMA BaseInVM ==
  ASSUME NEW tt, NEW ff, NEW i \in Nat \ {0}, NEW c,
         tt[i] \in Scopes, tt[i].kind = "vm", tt[i].base = i,
         Own(tt[i]) <= tt[i].impurity, c.depth = ff[i].depth + tt[i].cost,
         \E m \in 0..tt[i].impurity : ListTail(c.special, m) = ff[i].special
  PROVE  InVM(tt, ff, i, c)
  <1>1. i \in 1..i /\ \A j \in i..i : j = i
    OBVIOUS
  <1> QED BY <1>1 DEF InVM, VM

\* An item of the binding stack on top of another scope of the activation.
LEMMA ItemInVM ==
  ASSUME NEW tt \in Seq(Scopes), NEW ff, NEW i \in 2..Len(tt), NEW c, NEW e,
         InVM(tt, ff, i - 1, e), tt[i - 1].kind \in VM,
         tt[i].kind \in VM \ {"vm"}, tt[i].base = tt[i - 1].base,
         tt[i].impurity >= tt[i - 1].impurity + Own(tt[i]),
         tt[i].kind \in {"err", "handling"} => tt[i].spec = 0,
         c.depth = e.depth,
         \E m \in 0..tt[i].impurity : ListTail(c.special, m) = ff[tt[i].base].special
  PROVE  InVM(tt, ff, i, c)
  <1>1. /\ tt[i] \in Scopes /\ tt[i - 1] \in Scopes /\ Len(tt) \in Nat /\ i \in Nat
    OBVIOUS
  <1>2. /\ Own(tt[i]) \in Nat /\ Own(tt[i - 1]) \in Nat
        /\ tt[i].impurity \in Int /\ tt[i - 1].impurity \in Int
    BY <1>1, ScopeType
  <1>3. PICK b : b = tt[i].base
    OBVIOUS
  <1>4. /\ b \in 1..i - 1 /\ tt[b].kind = "vm"
        /\ \A j \in b..i - 1 : tt[j].kind \in VM /\ Own(tt[j]) <= tt[i - 1].impurity
        /\ e.depth = ff[b].depth + tt[b].cost
    BY <1>3 DEF InVM
  <1>5. Own(tt[i - 1]) <= tt[i - 1].impurity
    BY <1>1, <1>4
  <1>6. \A j \in b..i : tt[j].kind \in VM /\ Own(tt[j]) <= tt[i].impurity
    <2>1. TAKE j \in b..i
    <2>2. CASE j = i
      BY <1>2, <1>5, <2>2
    <2>3. CASE j # i
      <3>1. j \in b..i - 1 /\ j \in 1..Len(tt)
        BY <1>1, <1>4, <2>3
      <3>2. Own(tt[j]) \in Nat
        <4>1. tt[j] \in Scopes
          BY <3>1
        <4> QED BY ONLY <4>1, ScopeType
      <3>3. tt[j].kind \in VM /\ Own(tt[j]) <= tt[i - 1].impurity
        BY <1>4, <3>1
      <3> QED BY <1>2, <3>2, <3>3
    <2> QED BY <2>2, <2>3
  <1>7. b \in 1..i /\ b <= i - 1
    BY <1>1, <1>4
  <1> QED BY <1>3, <1>4, <1>6, <1>7 DEF InVM

\* What is known of the activation that is running.
LEMMA VMFacts ==
  ASSUME IndInv, Top.kind \in VM
  PROVE  /\ Depth > 1 /\ Depth = Len(scopes) /\ Depth \in Nat
         /\ scopes \in Seq(Scopes) /\ entry \in Seq(Contexts) /\ Len(entry) = Depth
         /\ Top \in Scopes /\ Top = scopes[Depth] /\ ctx \in Contexts
         /\ Own(Top) \in Nat /\ Top.impurity \in Nat /\ Own(Top) <= Top.impurity
         /\ InVM(scopes, entry, Depth, ctx)
         /\ Undo(Top, ctx) = entry[Depth]
         /\ ~Top.tail /\ Top.phase # "tail" /\ Holds(Top)
         /\ \E m \in 0..Top.impurity : ListTail(ctx.special, m) = entry[Top.base].special
         /\ Top.kind = "vm" => Top.base = Depth
         /\ Top.kind \in {"err", "handling"} => Top.spec = 0
         /\ Top.kind # "vm" =>
              /\ scopes[Depth - 1].kind \in VM
              /\ scopes[Depth - 1].base = Top.base
              /\ scopes[Depth - 1] \in Scopes
              /\ Top.impurity >= scopes[Depth - 1].impurity + Own(Top)
              /\ Good(scopes, entry, Depth - 1, entry[Depth])
              /\ entry[Depth].depth = ctx.depth
  <1>1. /\ Depth > 1 /\ Depth = Len(scopes) /\ Depth \in Nat
        /\ scopes \in Seq(Scopes) /\ entry \in Seq(Contexts) /\ Len(entry) = Depth
        /\ Top \in Scopes /\ Top = scopes[Depth] /\ ctx \in Contexts
        /\ Good(scopes, entry, Depth, ctx)
    BY Facts DEF VM, Top, Depth
  <1>2. InVM(scopes, entry, Depth, ctx) /\ InTail(scopes, Depth) /\ Holds(Top)
        /\ Undo(Top, ctx) = entry[Depth]
    BY <1>1 DEF Good
  <1>3. ~Top.tail /\ Top.phase # "tail"
    BY <1>1, <1>2 DEF InTail, Holds, VM
  <1>4. Top.base \in 1..Depth /\ \A j \in Top.base..Depth : Own(scopes[j]) <= Top.impurity
    BY <1>1, <1>2 DEF InVM
  <1>5. Own(Top) \in Nat /\ Top.impurity \in Nat /\ Own(Top) <= Top.impurity
    <2>1. Depth \in Top.base..Depth
      BY <1>1, <1>4
    <2>2. Own(Top) <= Top.impurity
      BY <1>1, <1>4, <2>1
    <2>3. Own(Top) \in Nat /\ Top.impurity \in Int
      BY <1>1, ScopeType
    <2> QED BY <2>2, <2>3
  <1>6. /\ \E m \in 0..Top.impurity : ListTail(ctx.special, m) = entry[Top.base].special
        /\ Top.kind = "vm" => Top.base = Depth
        /\ Top.kind \in {"err", "handling"} => Top.spec = 0
    BY <1>1, <1>2 DEF InVM
  <1>7. ASSUME Top.kind # "vm"
        PROVE  /\ scopes[Depth - 1].kind \in VM
               /\ scopes[Depth - 1].base = Top.base
               /\ scopes[Depth - 1] \in Scopes
               /\ Top.impurity >= scopes[Depth - 1].impurity + Own(Top)
               /\ Good(scopes, entry, Depth - 1, entry[Depth])
               /\ entry[Depth].depth = ctx.depth
    <2>1. /\ scopes[Depth - 1].kind \in VM /\ scopes[Depth - 1].base = Top.base
          /\ Top.impurity >= scopes[Depth - 1].impurity + Own(Top)
      BY <1>1, <1>2, <1>7 DEF InVM
    <2>2. Depth - 1 \in 1..Len(scopes) /\ Depth - 1 # Len(scopes)
      BY <1>1
    <2>3. Good(scopes, entry, Depth - 1, entry[Depth])
      <3>1. Good(scopes, entry, Depth - 1, At(scopes, entry, ctx, Depth - 1))
        BY <2>2 DEF IndInv, Stack
      <3>2. At(scopes, entry, ctx, Depth - 1) = entry[Depth]
        BY <1>1, <2>2 DEF At
      <3> QED BY <3>1, <3>2
    <2>4. entry[Depth].depth = ctx.depth
      <3>1. Top.kind \in {"frame", "err", "handling"}
        BY <1>7 DEF VM
      <3>2. Undo(Top, ctx).depth = ctx.depth
        BY <1>1, <3>1, UndoFields
      <3> QED BY <1>2, <3>2
    <2> QED BY <1>1, <2>1, <2>2, <2>3, <2>4
  <1> QED BY <1>1, <1>2, <1>3, <1>5, <1>6, <1>7

\* The innermost scope of compiled code changes.
LEMMA ReplaceVM ==
  ASSUME IndInv, Top.kind \in VM, NEW s \in Scopes, NEW d \in Contexts,
         s.kind \in VM, s.kind = "vm" <=> Top.kind = "vm",
         s.base = Top.base, s.cost = Top.cost, ~s.tail, Holds(s),
         Undo(s, d) = entry[Depth], d.depth = ctx.depth,
         Own(s) <= s.impurity,
         s.kind # "vm" => s.impurity >= scopes[Depth - 1].impurity + Own(s),
         s.kind \in {"err", "handling"} => s.spec = 0,
         \E m \in 0..s.impurity : ListTail(d.special, m) = entry[s.base].special
  PROVE  Stack([scopes EXCEPT ![Depth] = s], entry, d)
  <1>1. /\ Depth > 1 /\ Depth = Len(scopes) /\ Depth \in Nat
        /\ scopes \in Seq(Scopes) /\ InVM(scopes, entry, Depth, ctx)
        /\ Top = scopes[Depth] /\ (Top.kind = "vm" => Top.base = Depth)
    BY VMFacts
  <1>2. PICK tt : tt = [scopes EXCEPT ![Depth] = s]
    OBVIOUS
  <1>3. /\ tt \in Seq(Scopes) /\ Len(tt) = Depth /\ tt[Depth] = s
        /\ \A i \in 1..Depth - 1 : tt[i] = scopes[i]
    BY <1>1, <1>2
  <1>4. InVM(tt, entry, Depth, d)
    <2>1. CASE s.kind = "vm"
      <3>1. ctx.depth = entry[Depth].depth + Top.cost
        BY <1>1, <2>1 DEF InVM
      <3>2. Depth \in Nat \ {0}
        BY <1>1
      <3> QED BY <1>1, <1>3, <2>1, <3>1, <3>2, BaseInVM
    <2>2. CASE s.kind # "vm"
      <3>1. /\ scopes[Depth - 1].kind \in VM /\ scopes[Depth - 1].base = Top.base
            /\ Good(scopes, entry, Depth - 1, entry[Depth])
            /\ entry[Depth].depth = ctx.depth
        BY <2>2, VMFacts
      <3>2. /\ Depth - 1 \in Nat \ {0} /\ tt[Depth - 1] = scopes[Depth - 1]
            /\ \A j \in 1..Depth - 1 : tt[j] = scopes[j] /\ entry[j] = entry[j]
            /\ Depth \in 2..Len(tt)
        BY <1>1, <1>3
      <3>3. Good(tt, entry, Depth - 1, entry[Depth])
        BY <3>1, <3>2, GoodPrefix
      <3>4. InVM(tt, entry, Depth - 1, entry[Depth])
        BY <3>3 DEF Good
      <3>5. /\ tt[Depth - 1].kind \in VM /\ tt[Depth].kind \in VM \ {"vm"}
            /\ tt[Depth].base = tt[Depth - 1].base
            /\ tt[Depth].impurity >= tt[Depth - 1].impurity + Own(tt[Depth])
            /\ tt[Depth].kind \in {"err", "handling"} => tt[Depth].spec = 0
            /\ d.depth = entry[Depth].depth
        BY <1>3, <2>2, <3>1, <3>2
      <3>6. \E m \in 0..tt[Depth].impurity : ListTail(d.special, m) = entry[tt[Depth].base].special
        BY <1>3
      <3> QED BY ONLY <1>3, <3>2, <3>4, <3>5, <3>6, ItemInVM
    <2> QED BY <2>1, <2>2
  <1>5. InTail(tt, Depth)
    BY <1>3 DEF InTail
  <1>6. Good(tt, entry, Depth, d)
    BY <1>3, <1>4, <1>5 DEF Good
  <1>7. /\ Good([scopes EXCEPT ![Len(scopes)] = s], entry, Len(scopes), d)
        /\ Stack(scopes, entry, ctx)
        /\ Len(scopes) = 1 => s.kind = "loop"
    BY <1>1, <1>2, <1>6 DEF IndInv
  <1>8. Stack([scopes EXCEPT ![Len(scopes)] = s], entry, d)
    BY <1>7, TopStack
  <1> QED BY <1>1, <1>8

\* OP_BIND and OP_SPEC_BIND.
LEMMA BindInv ==
  ASSUME IndInv, NEW x \in Symbols, Bind(x) \/ SpecBind(x)
  PROVE  IndInv'
  <1>1. /\ mode = "run" /\ Top.kind \in {"vm", "frame"}
        /\ UNCHANGED <<throw, mode, reg, signals, entry>>
    BY DEF Bind, SpecBind, Run
  <1>2. Throws'
    BY <1>1, NoTailCall, RegQuiet, QuietThrows DEF IndInv
  <1>3. /\ Top \in Scopes /\ ctx \in Contexts /\ Undo(Top, ctx) = entry[Depth]
        /\ scopes \in Seq(Scopes) /\ Depth = Len(scopes) /\ Depth \in Nat \ {0}
        /\ Top = scopes[Depth] /\ ~Top.tail /\ Top.phase # "tail"
        /\ Own(Top) = Top.spec /\ Top.spec \in Nat /\ Top.lex \in Nat
        /\ Top.impurity \in Nat /\ Own(Top) <= Top.impurity
        /\ (Top.kind # "vm" => Top.impurity >= scopes[Depth - 1].impurity + Own(Top)
                               /\ scopes[Depth - 1].impurity \in Int)
    <2>1. Top.kind \in VM
      BY <1>1 DEF VM
    <2>2. Top.kind # "vm" => scopes[Depth - 1].impurity \in Int
      BY <2>1, VMFacts, ScopeType
    <2>3. Own(Top) = Top.spec /\ Top.spec \in Nat /\ Top.lex \in Nat
      BY <1>1, <2>1, VMFacts, ScopeType DEF Own
    <2> QED BY <2>1, <2>2, <2>3, VMFacts
  <1>4. PICK m \in 0..Top.impurity : ListTail(ctx.special, m) = entry[Top.base].special
    BY <1>1, VMFacts DEF VM
  <1>5. ctx.env \in Seq(Symbols) /\ ctx.special \in Seq(Symbols)
    BY <1>3 DEF Contexts
  <1>6. CASE Bind(x)
    <2>1. PICK s : s = [Top EXCEPT !.lex = @ + 1]
      OBVIOUS
    <2>2. PICK d : d = [ctx EXCEPT !.env = <<x>> \o @]
      OBVIOUS
    <2>3. scopes' = [scopes EXCEPT ![Depth] = s] /\ ctx' = d
      BY <1>3, <1>6, <2>1, <2>2 DEF Bind
    <2>4. /\ s \in Scopes /\ s.kind = Top.kind /\ s.env = Top.env
          /\ s.structure = Top.structure /\ s.cost = Top.cost /\ s.tail = Top.tail
          /\ s.phase = Top.phase /\ s.spec = Top.spec /\ s.lex = Top.lex + 1
          /\ s.base = Top.base /\ s.impurity = Top.impurity
      <3>1. Top.lex + 1 \in Nat
        BY <1>3
      <3> QED BY <1>3, <2>1, <3>1 DEF Scopes
    <2>5. /\ <<x>> \o ctx.env \in Seq(Symbols)
          /\ ListTail(<<x>> \o ctx.env, Top.lex + 1) = ListTail(ctx.env, Top.lex)
      <3>1. /\ <<x>> \o ctx.env \in Seq(Symbols)
            /\ \A k \in Nat : ListTail(<<x>> \o ctx.env, k + 1) = ListTail(ctx.env, k)
        BY <1>5, TailCons
      <3> QED BY <1>3, <3>1
    <2>6. /\ d \in Contexts /\ d.special = ctx.special /\ d.depth = ctx.depth
          /\ d.structure = ctx.structure /\ d.env = <<x>> \o ctx.env
      BY <1>3, <2>2, <2>5 DEF Contexts
    <2>7. Undo(s, d) = Undo(Top, ctx)
      <3>1. CASE Top.kind = "vm"
        <4>1. Undo(s, d) = [env |-> s.env, special |-> ListTail(d.special, s.spec),
                            structure |-> s.structure, depth |-> d.depth - s.cost]
          BY <2>4, <2>6, <3>1, UndoFields
        <4>2. Undo(Top, ctx) = [env |-> Top.env, special |-> ListTail(ctx.special, Top.spec),
                                structure |-> Top.structure, depth |-> ctx.depth - Top.cost]
          BY <1>3, <3>1, UndoFields
        <4> QED BY <2>4, <2>6, <4>1, <4>2
      <3>2. CASE Top.kind = "frame"
        <4>1. Undo(s, d) = [env |-> ListTail(d.env, s.lex), special |-> ListTail(d.special, s.spec),
                            structure |-> d.structure, depth |-> d.depth]
          BY <2>4, <2>6, <3>2, UndoFields
        <4>2. Undo(Top, ctx) = [env |-> ListTail(ctx.env, Top.lex),
                                special |-> ListTail(ctx.special, Top.spec),
                                structure |-> ctx.structure, depth |-> ctx.depth]
          BY <1>3, <3>2, UndoFields
        <4> QED BY <2>4, <2>5, <2>6, <4>1, <4>2
      <3> QED BY <1>1, <3>1, <3>2
    <2>8. Own(s) = Own(Top) /\ Holds(s)
      BY <1>1, <1>3, <2>4 DEF Own, Holds
    <2>9. \E k \in 0..s.impurity : ListTail(d.special, k) = entry[s.base].special
      BY <1>4, <2>4, <2>6
    <2>10. Stack([scopes EXCEPT ![Depth] = s], entry, d)
      <3>1. /\ s.kind \in VM /\ ~s.tail /\ s.kind \notin {"err", "handling"}
            /\ Own(s) <= s.impurity /\ Undo(s, d) = entry[Depth] /\ d.depth = ctx.depth
            /\ s.kind # "vm" => s.impurity >= scopes[Depth - 1].impurity + Own(s)
        BY <1>1, <1>3, <2>4, <2>6, <2>7, <2>8 DEF VM
      <3>2. Top.kind \in VM /\ d \in Contexts /\ Holds(s)
        BY <1>1, <2>6, <2>8 DEF VM
      <3> QED BY ONLY IndInv, <2>4, <2>9, <3>1, <3>2, ReplaceVM
    <2>11. ctx'.depth <= MaxLispDepth
      BY <2>3, <2>6 DEF IndInv
    <2> QED BY <1>1, <1>2, <2>3, <2>10, <2>11, NextInv
  <1>7. CASE SpecBind(x)
    <2>1. PICK s : s = [Top EXCEPT !.spec = @ + 1, !.impurity = @ + 1]
      OBVIOUS
    <2>2. PICK d : d = [ctx EXCEPT !.special = <<x>> \o @]
      OBVIOUS
    <2>3. scopes' = [scopes EXCEPT ![Depth] = s] /\ ctx' = d
      BY <1>3, <1>7, <2>1, <2>2 DEF SpecBind
    <2>4. /\ s \in Scopes /\ s.kind = Top.kind /\ s.env = Top.env
          /\ s.structure = Top.structure /\ s.cost = Top.cost /\ s.tail = Top.tail
          /\ s.phase = Top.phase /\ s.spec = Top.spec + 1 /\ s.lex = Top.lex
          /\ s.base = Top.base /\ s.impurity = Top.impurity + 1
      <3>1. Top.spec + 1 \in Nat /\ Top.impurity + 1 \in Int
        BY <1>3
      <3> QED BY <1>3, <2>1, <3>1 DEF Scopes
    <2>5. /\ <<x>> \o ctx.special \in Seq(Symbols)
          /\ \A k \in Nat : ListTail(<<x>> \o ctx.special, k + 1) = ListTail(ctx.special, k)
      BY <1>5, TailCons
    <2>6. /\ d \in Contexts /\ d.special = <<x>> \o ctx.special /\ d.depth = ctx.depth
          /\ d.structure = ctx.structure /\ d.env = ctx.env
      BY <1>3, <2>2, <2>5 DEF Contexts
    <2>7. Undo(s, d) = Undo(Top, ctx)
      <3>1. CASE Top.kind = "vm"
        <4>1. Undo(s, d) = [env |-> s.env, special |-> ListTail(d.special, s.spec),
                            structure |-> s.structure, depth |-> d.depth - s.cost]
          BY <2>4, <2>6, <3>1, UndoFields
        <4>2. Undo(Top, ctx) = [env |-> Top.env, special |-> ListTail(ctx.special, Top.spec),
                                structure |-> Top.structure, depth |-> ctx.depth - Top.cost]
          BY <1>3, <3>1, UndoFields
        <4> QED BY <1>3, <2>4, <2>5, <2>6, <4>1, <4>2
      <3>2. CASE Top.kind = "frame"
        <4>1. Undo(s, d) = [env |-> ListTail(d.env, s.lex), special |-> ListTail(d.special, s.spec),
                            structure |-> d.structure, depth |-> d.depth]
          BY <2>4, <2>6, <3>2, UndoFields
        <4>2. Undo(Top, ctx) = [env |-> ListTail(ctx.env, Top.lex),
                                special |-> ListTail(ctx.special, Top.spec),
                                structure |-> ctx.structure, depth |-> ctx.depth]
          BY <1>3, <3>2, UndoFields
        <4> QED BY <1>3, <2>4, <2>5, <2>6, <4>1, <4>2
      <3> QED BY <1>1, <3>1, <3>2
    <2>8. Own(s) = Own(Top) + 1 /\ Holds(s)
      BY <1>1, <1>3, <2>4 DEF Own, Holds
    <2>9. \E k \in 0..s.impurity : ListTail(d.special, k) = entry[s.base].special
      <3>1. m + 1 \in 0..s.impurity /\ m \in Nat
        BY <1>3, <2>4
      <3> QED BY <1>4, <2>4, <2>5, <2>6, <3>1
    <2>10. Own(s) <= s.impurity
      BY ONLY <1>3, <2>4, <2>8
    <2>11. s.kind # "vm" => s.impurity >= scopes[Depth - 1].impurity + Own(s)
      <3>1. PICK a, o, i : a = scopes[Depth - 1].impurity /\ o = Own(Top) /\ i = Top.impurity
        OBVIOUS
      <3>2. o \in Nat /\ i \in Nat /\ (Top.kind # "vm" => a \in Int /\ i >= a + o)
        BY <1>3, <3>1
      <3>3. s.kind = Top.kind /\ s.impurity = i + 1 /\ Own(s) = o + 1
        BY <2>4, <2>8, <3>1
      <3>4. s.kind # "vm" => s.impurity >= a + Own(s)
        BY ONLY <3>2, <3>3
      <3> QED BY <3>1, <3>4
    <2>12. Stack([scopes EXCEPT ![Depth] = s], entry, d)
      <3>1. /\ s.kind \in VM /\ ~s.tail /\ s.kind \notin {"err", "handling"}
            /\ Undo(s, d) = entry[Depth] /\ d.depth = ctx.depth
        BY <1>1, <1>3, <2>4, <2>6, <2>7 DEF VM
      <3>2. Top.kind \in VM /\ d \in Contexts /\ Holds(s)
        BY <1>1, <2>6, <2>8 DEF VM
      <3> QED BY ONLY IndInv, <2>4, <2>9, <2>10, <2>11, <3>1, <3>2, ReplaceVM
    <2>13. ctx'.depth <= MaxLispDepth
      BY <2>3, <2>6 DEF IndInv
    <2> QED BY <1>1, <1>2, <2>3, <2>12, <2>13, NextInv
  <1> QED BY <1>6, <1>7

\* A frame or a handler goes on the binding stack.
LEMMA PushItemInv ==
  ASSUME IndInv, PushFrame \/ BindErr
  PROVE  IndInv'
  <1>1. /\ mode = "run" /\ Top.kind \in VM
        /\ UNCHANGED <<throw, ctx, mode, reg, signals>>
    BY DEF PushFrame, BindErr, Run
  <1>2. Throws'
    BY <1>1, NoTailCall, RegQuiet, QuietThrows DEF IndInv
  <1>3. PICK k \in {"frame", "err"}, q \in {0, 1} :
          /\ q = IF k = "err" THEN 1 ELSE 0
          /\ scopes' = Append(scopes, [Blank(k, ctx) EXCEPT
                                         !.base = Top.base,
                                         !.impurity = Top.impurity + q])
          /\ entry' = Append(entry, ctx)
    <2>1. Top.impurity + 0 = Top.impurity
      BY <1>1, VMFacts
    <2>2. CASE PushFrame
      BY <2>1, <2>2 DEF PushFrame
    <2>3. CASE BindErr
      BY <2>3 DEF BindErr
    <2> QED BY <2>2, <2>3
  <1>4. /\ Depth > 1 /\ Depth = Len(scopes) /\ Depth \in Nat
        /\ scopes \in Seq(Scopes) /\ entry \in Seq(Contexts) /\ Len(entry) = Depth
        /\ Top \in Scopes /\ Top = scopes[Depth] /\ ctx \in Contexts
        /\ Top.impurity \in Nat /\ Good(scopes, entry, Depth, ctx)
        /\ Top.base \in 1..Depth
    <2>1. Top.base \in 1..Depth
      BY <1>1, VMFacts DEF InVM
    <2> QED BY <1>1, <2>1, VMFacts, Facts
  <1>5. PICK s : s = [Blank(k, ctx) EXCEPT !.base = Top.base, !.impurity = Top.impurity + q]
    OBVIOUS
  <1>6. s = [kind |-> k, env |-> ctx.env, structure |-> ctx.structure, old |-> <<>>,
             lex |-> 0, spec |-> 0, cost |-> 0, checked |-> FALSE, tail |-> FALSE,
             phase |-> "body", base |-> Top.base, impurity |-> Top.impurity + q,
             data |-> None]
    BY <1>5 DEF Blank
  <1>7. /\ ctx.env \in Seq(Symbols) /\ ctx.structure \in Structures
        /\ ctx.special \in Seq(Symbols) /\ Top.impurity + q \in Int /\ Top.base \in Nat
    <2>1. ctx.env \in Seq(Symbols) /\ ctx.structure \in Structures /\ ctx.special \in Seq(Symbols)
      BY ONLY <1>4 DEF Contexts
    <2>2. Top.impurity + q \in Int /\ Top.base \in Nat
      BY <1>4
    <2> QED BY <2>1, <2>2
  <1>8. s \in Scopes
    BY <1>6, <1>7 DEF Scopes, Kinds, Phases
  <1>9. /\ s.kind = k /\ s.base = Top.base /\ s.impurity = Top.impurity + q
        /\ s.spec = 0 /\ s.lex = 0 /\ ~s.tail /\ s.phase = "body"
    BY <1>6
  <1>10. PICK n, tt, ff : /\ n = Len(scopes) + 1 /\ tt = Append(scopes, s)
                          /\ ff = Append(entry, ctx)
    OBVIOUS
  <1>11. /\ tt \in Seq(Scopes) /\ Len(tt) = n /\ tt[n] = s /\ ff[n] = ctx /\ n - 1 = Depth
         /\ \A i \in 1..Depth : tt[i] = scopes[i] /\ ff[i] = entry[i]
         /\ n \in 2..Len(tt) /\ n \in Nat
    BY <1>4, <1>8, <1>10
  <1>12. Undo(s, ctx) = ctx
    <2>1. CASE k = "frame"
      <3>1. Undo(s, ctx) = [env |-> ListTail(ctx.env, 0), special |-> ListTail(ctx.special, 0),
                            structure |-> ctx.structure, depth |-> ctx.depth]
        BY <1>4, <1>8, <1>9, <2>1, UndoFields
      <3>2. ListTail(ctx.env, 0) = ctx.env /\ ListTail(ctx.special, 0) = ctx.special
        BY <1>7, TailZero
      <3>3. ctx = [env |-> ctx.env, special |-> ctx.special,
                   structure |-> ctx.structure, depth |-> ctx.depth]
        BY <1>4 DEF Contexts
      <3> QED BY <3>1, <3>2, <3>3
    <2>2. CASE k = "err"
      BY <1>4, <1>8, <1>9, <2>2, UndoFields
    <2> QED BY <2>1, <2>2
  <1>13. InVM(tt, ff, n, ctx)
    <2>1. Good(tt, ff, Depth, ctx)
      <3>1. Depth \in Nat \ {0}
        BY <1>4
      <3> QED BY <1>4, <1>11, <3>1, GoodPrefix
    <2>2. InVM(tt, ff, n - 1, ctx)
      BY <1>11, <2>1 DEF Good
    <2>3. tt[n - 1] = Top /\ ff[Top.base] = entry[Top.base]
      BY <1>4, <1>11
    <2>4. Own(s) = q
      BY <1>3, <1>9 DEF Own
    <2>5. \E m \in 0..s.impurity : ListTail(ctx.special, m) = ff[s.base].special
      <3>1. PICK m \in 0..Top.impurity : ListTail(ctx.special, m) = entry[Top.base].special
        BY <1>1, VMFacts
      <3>2. m \in 0..s.impurity
        BY <1>4, <1>9
      <3> QED BY <1>9, <2>3, <3>1, <3>2
    <2>6. s.impurity >= Top.impurity + Own(s)
      BY <1>4, <1>9, <2>4
    <2> QED BY <1>1, <1>9, <1>11, <2>2, <2>3, <2>5, <2>6, ItemInVM DEF VM
  <1>14. InTail(tt, n) /\ Holds(s)
    BY <1>9, <1>11 DEF InTail, Holds
  <1>15. Good(tt, ff, n, ctx)
    BY <1>11, <1>12, <1>13, <1>14 DEF Good
  <1>16. Stack(tt, ff, ctx)
    BY <1>4, <1>8, <1>10, <1>15, PushStack DEF IndInv
  <1> QED BY <1>1, <1>2, <1>3, <1>5, <1>10, <1>16, NextInv DEF IndInv

\* bytecode_vm() starts with nothing bound.
LEMMA ResetType ==
  ASSUME NEW s \in Scopes, NEW r, r = [s EXCEPT !.lex = 0, !.spec = 0, !.impurity = 0]
  PROVE  r \in Scopes
  <1>1. PICK z \in Nat : z = 0
    OBVIOUS
  <1>2. r = [s EXCEPT !.lex = z, !.spec = z, !.impurity = z]
    BY <1>1
  <1>3. z \in Int
    OBVIOUS
  <1>4. [s EXCEPT !.lex = z, !.spec = z, !.impurity = z] \in Scopes
    BY <1>3 DEF Scopes
  <1> QED BY <1>2, <1>4

\* OP_POP_FRAMES and OP_RESET_FRAMES end at the first frame.
LEMMA FramesEndInv ==
  ASSUME IndInv, PopFramesEnd \/ ResetFramesEnd
  PROVE  IndInv'
  <1>1. /\ mode \in {"pop-frames", "reset-frames"} /\ mode' = "run" /\ Top.kind = "vm"
        /\ UNCHANGED <<throw, reg, signals, entry>>
    BY DEF PopFramesEnd, ResetFramesEnd
  <1>2. Throws'
    BY <1>1, NoTailCall, RegQuiet, QuietThrows DEF IndInv
  <1>3. /\ Depth = Len(scopes) /\ Depth \in Nat \ {0} /\ scopes \in Seq(Scopes)
        /\ Top \in Scopes /\ Top = scopes[Depth] /\ ctx \in Contexts
        /\ Undo(Top, ctx) = entry[Depth] /\ ~Top.tail /\ Top.phase # "tail"
        /\ Top.base = Depth /\ Top.spec \in Nat
    BY <1>1, VMFacts, ScopeType DEF VM
  <1>4. Undo(Top, ctx) = [env |-> Top.env, special |-> ListTail(ctx.special, Top.spec),
                          structure |-> Top.structure, depth |-> ctx.depth - Top.cost]
    BY <1>1, <1>3, UndoFields
  <1>5. entry[Depth].special = ListTail(ctx.special, Top.spec)
    BY <1>3, <1>4
  <1>6. CASE PopFramesEnd
    <2>1. PICK s : s = [Top EXCEPT !.impurity = Top.spec]
      OBVIOUS
    <2>2. scopes' = [scopes EXCEPT ![Depth] = s] /\ ctx' = ctx
      BY <1>3, <1>6, <2>1 DEF PopFramesEnd
    <2>3. /\ s \in Scopes /\ s.kind = "vm" /\ s.env = Top.env
          /\ s.structure = Top.structure /\ s.cost = Top.cost /\ s.tail = Top.tail
          /\ s.phase = Top.phase /\ s.spec = Top.spec
          /\ s.base = Top.base /\ s.impurity = Top.spec
      <3>1. Top.spec \in Int
        BY <1>3
      <3>2. s \in Scopes
        BY <1>3, <2>1, <3>1 DEF Scopes
      <3> QED BY <1>1, <1>3, <2>1, <3>2 DEF Scopes
    <2>4. Undo(s, ctx) = Undo(Top, ctx)
      BY <1>3, <1>4, <2>3, UndoFields
    <2>5. Own(s) = Top.spec /\ Holds(s)
      BY <1>3, <2>3 DEF Own, Holds
    <2>6. \E k \in 0..s.impurity : ListTail(ctx.special, k) = entry[s.base].special
      <3>1. Top.spec \in 0..s.impurity
        BY <1>3, <2>3
      <3> QED BY <1>3, <1>5, <2>3, <3>1
    <2>7. Own(s) <= s.impurity
      BY <1>3, <2>3, <2>5
    <2>8. Stack([scopes EXCEPT ![Depth] = s], entry, ctx)
      BY <1>1, <1>3, <2>3, <2>4, <2>5, <2>6, <2>7, ReplaceVM DEF VM
    <2> QED BY <1>1, <1>2, <2>2, <2>8, NextInv DEF IndInv
  <1>7. CASE ResetFramesEnd
    <2>1. PICK s : s = [Top EXCEPT !.lex = 0, !.spec = 0, !.impurity = 0]
      OBVIOUS
    <2>2. PICK d : d = Unbind(Top, ctx)
      OBVIOUS
    <2>3. scopes' = [scopes EXCEPT ![Depth] = s] /\ ctx' = d
      BY <1>3, <1>7, <2>1, <2>2 DEF ResetFramesEnd
    <2>4. /\ s \in Scopes /\ s.kind = "vm" /\ s.env = Top.env
          /\ s.structure = Top.structure /\ s.cost = Top.cost /\ s.tail = Top.tail
          /\ s.phase = Top.phase /\ s.spec = 0
          /\ s.base = Top.base /\ s.impurity = 0
      <3>1. s \in Scopes
        BY <1>3, <2>1, ResetType
      <3> QED BY <1>1, <1>3, <2>1, <3>1 DEF Scopes
    <2>5. /\ d \in Contexts /\ d.special = entry[Depth].special /\ d.depth = ctx.depth
          /\ d.special \in Seq(Symbols)
      BY <1>3, <1>5, <2>2, UnbindTop DEF Contexts
    <2>6. ListTail(d.special, 0) = d.special
      BY <2>5, TailZero
    <2>7. Undo(s, d) = Undo(Top, ctx)
      <3>1. Undo(s, d) = [env |-> s.env, special |-> ListTail(d.special, s.spec),
                          structure |-> s.structure, depth |-> d.depth - s.cost]
        BY <2>4, <2>5, UndoFields
      <3> QED BY <1>4, <1>5, <2>4, <2>5, <2>6, <3>1
    <2>8. Own(s) = 0 /\ Holds(s)
      BY <1>3, <2>4 DEF Own, Holds
    <2>9. \E k \in 0..s.impurity : ListTail(d.special, k) = entry[s.base].special
      <3>1. 0 \in 0..s.impurity
        BY <2>4
      <3> QED BY <1>3, <2>4, <2>5, <2>6, <3>1
    <2>10. Stack([scopes EXCEPT ![Depth] = s], entry, d)
      <3>1. Own(s) <= s.impurity
        BY <2>4, <2>8
      <3> QED BY <1>1, <1>3, <2>4, <2>5, <2>7, <2>8, <2>9, <3>1, ReplaceVM DEF VM
    <2>11. ctx'.depth <= MaxLispDepth
      BY <2>3, <2>5 DEF IndInv
    <2> QED BY <1>1, <1>2, <2>3, <2>10, <2>11, NextInv
  <1> QED BY <1>6, <1>7

\* A handler's scope becomes the scope of the handler at work.
Handling(r, v, k) == [r EXCEPT !.kind = "handling", !.data = v, !.impurity = k]

LEMMA HandlingScope ==
  ASSUME NEW r \in Scopes, NEW v \in Thrown, NEW k \in Int
  PROVE  LET s == Handling(r, v, k)
         IN  /\ s \in Scopes /\ s.kind = "handling" /\ s.cost = r.cost /\ s.tail = r.tail
             /\ s.phase = r.phase /\ s.spec = r.spec /\ s.base = r.base /\ s.data = v
             /\ s.impurity = k
  <1>1. PICK s : s = Handling(r, v, k)
    OBVIOUS
  <1>2. PICK s1 : s1 = [r EXCEPT !.kind = "handling"]
    OBVIOUS
  <1>3. /\ s1 \in Scopes /\ s1.kind = "handling" /\ s1.cost = r.cost /\ s1.tail = r.tail
        /\ s1.phase = r.phase /\ s1.spec = r.spec /\ s1.base = r.base
    BY <1>2 DEF Scopes, Kinds
  <1>4. PICK s2 : s2 = [s1 EXCEPT !.data = v]
    OBVIOUS
  <1>5. /\ s2 \in Scopes /\ s2.kind = s1.kind /\ s2.cost = s1.cost /\ s2.tail = s1.tail
        /\ s2.phase = s1.phase /\ s2.spec = s1.spec /\ s2.base = s1.base /\ s2.data = v
    BY ONLY v \in Thrown, <1>3, <1>4 DEF Scopes
  <1>6. s = [s2 EXCEPT !.impurity = k]
    BY <1>1, <1>2, <1>4 DEF Handling
  <1>7. /\ s \in Scopes /\ s.kind = s2.kind /\ s.cost = s2.cost /\ s.tail = s2.tail
        /\ s.phase = s2.phase /\ s.spec = s2.spec /\ s.base = s2.base /\ s.data = s2.data
        /\ s.impurity = k
    BY ONLY k \in Int, <1>5, <1>6 DEF Scopes
  <1> QED BY ONLY <1>1, <1>3, <1>5, <1>7

\* An exception reaches a handler of compiled code.
LEMMA EnterHandlerInv ==
  ASSUME IndInv, EnterHandler
  PROVE  IndInv'
  <1>1. /\ mode = "unwind" /\ mode' = "run" /\ Top.kind = "err" /\ throw' = None
        /\ UNCHANGED <<ctx, reg, signals, entry>>
    BY DEF EnterHandler
  <1>2. Throws'
    BY <1>1, RegQuiet, QuietThrows DEF IndInv
  <1>3. throw \in Thrown \ Funs
    BY <1>1 DEF IndInv, Throws
  <1>4. /\ Depth = Len(scopes) /\ Depth \in Nat /\ Depth > 1 /\ scopes \in Seq(Scopes)
        /\ Top \in Scopes /\ Top = scopes[Depth] /\ ctx \in Contexts
        /\ entry[Depth] = Undo(Top, ctx) /\ ~Top.tail /\ Top.phase # "tail"
        /\ Top.spec = 0 /\ Top.impurity \in Nat
        /\ scopes[Depth - 1].kind \in VM /\ scopes[Depth - 1].base = Top.base
        /\ Top.impurity >= scopes[Depth - 1].impurity + Own(Top)
        /\ Good(scopes, entry, Depth - 1, entry[Depth])
        /\ scopes[Depth - 1] \in Scopes
    BY <1>1, VMFacts DEF VM
  <1>5. Own(Top) = 1 /\ scopes[Depth - 1].impurity \in Int
    BY <1>1, <1>4, ScopeType DEF Own
  <1>6. entry[Depth] = ctx
    BY <1>1, <1>4, UndoFields
  <1>7. PICK s : s = [Top EXCEPT !.kind = "handling", !.data = throw, !.impurity = @ - 1]
    OBVIOUS
  <1>8. scopes' = [scopes EXCEPT ![Depth] = s]
    BY <1>4, <1>7 DEF EnterHandler
  <1>9. /\ s \in Scopes /\ s.kind = "handling" /\ s.cost = Top.cost /\ s.tail = Top.tail
        /\ s.phase = Top.phase /\ s.spec = 0 /\ s.base = Top.base /\ s.data = throw
        /\ s.impurity = Top.impurity - 1
    <2>1. Top.impurity - 1 \in Int
      BY <1>4
    <2>2. PICK k : k = Top.impurity - 1
      OBVIOUS
    <2>3. s = Handling(Top, throw, k)
      BY <1>7, <2>2 DEF Handling
    <2>4. Top \in Scopes /\ k \in Int /\ throw \in Thrown
      BY <1>3, <1>4, <2>1, <2>2
    <2>5. /\ s \in Scopes /\ s.kind = "handling" /\ s.cost = Top.cost /\ s.tail = Top.tail
          /\ s.phase = Top.phase /\ s.spec = Top.spec /\ s.base = Top.base /\ s.data = throw
          /\ s.impurity = k
      BY ONLY <2>3, <2>4, HandlingScope
    <2> QED BY <1>4, <2>2, <2>5
  <1>10. Own(s) = 0 /\ Holds(s)
    BY <1>3, <1>4, <1>9 DEF Own, Holds
  <1>11. Undo(s, ctx) = entry[Depth]
    BY <1>4, <1>6, <1>9, UndoFields
  <1>12. s.impurity >= scopes[Depth - 1].impurity + Own(s)
    BY <1>4, <1>5, <1>9, <1>10
  <1>13. InVM(scopes, entry, Depth - 1, ctx)
    BY <1>4, <1>6 DEF Good
  <1>14. PICK b : b = Top.base
    OBVIOUS
  <1>15. PICK m \in 0..scopes[Depth - 1].impurity : ListTail(ctx.special, m) = entry[b].special
    BY <1>4, <1>13, <1>14 DEF InVM
  <1>16. m \in 0..s.impurity
    BY <1>5, <1>9, <1>10, <1>12, <1>4
  <1>17. \E k \in 0..s.impurity : ListTail(ctx.special, k) = entry[s.base].special
    BY <1>9, <1>14, <1>15, <1>16
  <1>18. Own(s) <= s.impurity
    BY <1>9, <1>10, <1>16, <1>4
  <1>19. Stack([scopes EXCEPT ![Depth] = s], entry, ctx)
    BY <1>1, <1>4, <1>9, <1>10, <1>11, <1>12, <1>17, <1>18, ReplaceVM DEF VM
  <1> QED BY <1>1, <1>2, <1>8, <1>19, NextInv DEF IndInv

\* A tail call in place abandons the binding stack, where nothing is left to undo.
LEMMA TailCallInv ==
  ASSUME IndInv, NEW f \in Funs, TailCall(f)
  PROVE  IndInv'
  <1>1. /\ mode = "run" /\ Top.kind \in VM /\ Top.impurity = 0
        /\ UNCHANGED <<throw, mode, reg, signals>>
    BY DEF TailCall, Run, VM
  <1>2. Throws'
    BY <1>1, NoTailCall, RegQuiet, QuietThrows DEF IndInv
  <1>3. /\ Depth = Len(scopes) /\ Depth \in Nat /\ scopes \in Seq(Scopes)
        /\ entry \in Seq(Contexts) /\ Len(entry) = Depth
        /\ Top = scopes[Depth] /\ ctx \in Contexts /\ InVM(scopes, entry, Depth, ctx)
    BY <1>1, VMFacts
  <1>4. PICK b : b = Top.base
    OBVIOUS
  <1>5. /\ b \in 1..Depth /\ scopes[b].kind = "vm"
        /\ ctx.depth = entry[b].depth + scopes[b].cost
    BY <1>1, <1>3, <1>4 DEF InVM
  <1>6. ctx.special = entry[b].special
    <2>1. PICK m \in 0..Top.impurity : ListTail(ctx.special, m) = entry[b].special
      BY <1>1, <1>4, VMFacts
    <2>2. m = 0 /\ ctx.special \in Seq(Symbols)
      BY <1>1, <1>3 DEF Contexts
    <2> QED BY <2>1, <2>2, TailZero
  <1>7. /\ scopes[b] \in Scopes /\ entry[b] \in Contexts /\ b # 1 /\ b \in Nat
        /\ Good(scopes, entry, b, At(scopes, entry, ctx, b))
        /\ At(scopes, entry, ctx, b) \in Contexts
    <2>1. scopes[b] \in Scopes /\ entry[b] \in Contexts /\ b \in Nat
      BY <1>3, <1>5
    <2>2. b # 1 /\ Good(scopes, entry, b, At(scopes, entry, ctx, b))
      BY <1>3, <1>5 DEF IndInv, Stack
    <2>3. At(scopes, entry, ctx, b) \in Contexts
      BY <1>3, <1>5 DEF At
    <2> QED BY <2>1, <2>2, <2>3
  <1>8. /\ entry[b].env = scopes[b].env /\ entry[b].structure = scopes[b].structure
        /\ ~scopes[b].tail /\ scopes[b].phase # "tail" /\ scopes[b].base = b
    <2>1. PICK e : e = At(scopes, entry, ctx, b)
      OBVIOUS
    <2>2. /\ Undo(scopes[b], e) = entry[b] /\ InVM(scopes, entry, b, e)
          /\ InTail(scopes, b) /\ Holds(scopes[b])
      BY <1>7, <2>1 DEF Good
    <2>3. entry[b] = [env |-> scopes[b].env, special |-> ListTail(e.special, scopes[b].spec),
                      structure |-> scopes[b].structure, depth |-> e.depth - scopes[b].cost]
      BY <1>5, <1>7, <2>1, <2>2, UndoFields
    <2>4. entry[b].env = scopes[b].env /\ entry[b].structure = scopes[b].structure
      BY <2>3
    <2> QED BY <1>5, <2>2, <2>4 DEF InVM, InTail, Holds, VM
  <1>9. PICK s : s = [scopes[b] EXCEPT !.lex = 0, !.spec = 0, !.impurity = 0]
    OBVIOUS
  <1>10. PICK d : d = UseClosure(f, ctx)
    OBVIOUS
  <1>11. /\ s \in Scopes /\ s.kind = "vm" /\ s.env = scopes[b].env
         /\ s.structure = scopes[b].structure /\ s.cost = scopes[b].cost /\ ~s.tail
         /\ s.phase # "tail" /\ s.spec = 0 /\ s.base = b /\ s.impurity = 0
    <2>1. s \in Scopes
      BY <1>7, <1>9, ResetType
    <2> QED BY <1>5, <1>7, <1>8, <1>9, <2>1 DEF Scopes
  <1>12. d \in Contexts /\ d.special = ctx.special /\ d.depth = ctx.depth
    BY <1>3, <1>10, FunsAssumption DEF UseClosure, Contexts
  <1>13. Undo(s, d) = entry[b]
    <2>1. Undo(s, d) = [env |-> s.env, special |-> ListTail(d.special, s.spec),
                        structure |-> s.structure, depth |-> d.depth - s.cost]
      BY <1>11, <1>12, UndoFields
    <2>2. ListTail(d.special, s.spec) = entry[b].special
      <3>1. ctx.special \in Seq(Symbols)
        BY <1>3 DEF Contexts
      <3> QED BY <1>6, <1>11, <1>12, <3>1, TailZero
    <2>3. d.depth - s.cost = entry[b].depth
      <3>1. entry[b].depth \in Nat /\ scopes[b].cost \in Nat
        BY <1>7, ScopeType DEF Contexts
      <3> QED BY <1>5, <1>11, <1>12, <3>1
    <2>4. entry[b] = [env |-> entry[b].env, special |-> entry[b].special,
                      structure |-> entry[b].structure, depth |-> entry[b].depth]
      BY <1>7 DEF Contexts
    <2> QED BY <1>8, <1>11, <2>1, <2>2, <2>3, <2>4
  <1>14. PICK uu : uu = SubSeq(scopes, 1, b)
    OBVIOUS
  <1>15. uu \in Seq(Scopes) /\ Len(uu) = b /\ uu[b] = scopes[b] /\ b \in 1..Len(uu)
    BY <1>3, <1>5, <1>7, <1>14
  <1>16. PICK ff : ff = SubSeq(entry, 1, b)
    OBVIOUS
  <1>17. ff[b] = entry[b]
    BY <1>3, <1>5, <1>7, <1>16
  <1>18. PICK tt : tt = [uu EXCEPT ![b] = s]
    OBVIOUS
  <1>19. tt[b] = s
    BY <1>15, <1>18
  <1>20. InVM(tt, ff, b, d)
    <2>1. Own(s) = 0
      BY <1>11 DEF Own
    <2>2. \E m \in 0..s.impurity : ListTail(d.special, m) = ff[b].special
      <3>1. 0 \in 0..s.impurity /\ ctx.special \in Seq(Symbols)
        BY <1>3, <1>11 DEF Contexts
      <3> QED BY <1>6, <1>12, <1>17, <3>1, TailZero
    <2>3. b \in Nat \ {0} /\ Own(s) <= s.impurity
      BY <1>5, <1>7, <1>11, <2>1
    <2> QED BY <1>5, <1>11, <1>12, <1>17, <1>19, <2>2, <2>3, BaseInVM
  <1>21. Good(tt, ff, b, d)
    BY <1>11, <1>13, <1>17, <1>19, <1>20 DEF Good, InTail, Holds
  <1>22. /\ Good([SubSeq(scopes, 1, b) EXCEPT ![b] = s], SubSeq(entry, 1, b), b, d)
         /\ b \in 1..Len(scopes) /\ (b = 1 => s.kind = "loop") /\ Stack(scopes, entry, ctx)
    BY <1>3, <1>5, <1>7, <1>14, <1>16, <1>18, <1>21 DEF IndInv
  <1>23. Stack([SubSeq(scopes, 1, b) EXCEPT ![b] = s], SubSeq(entry, 1, b), d)
    BY <1>11, <1>12, <1>22, CutStack
  <1>24. scopes' = [uu EXCEPT ![b] = s]
    <2>1. scopes' = [uu EXCEPT ![b].lex = 0, ![b].spec = 0, ![b].impurity = 0]
      BY <1>4, <1>14 DEF TailCall
    <2> QED BY <1>9, <1>15, <2>1
  <1>25. entry' = SubSeq(entry, 1, b) /\ ctx' = d
    BY <1>4, <1>10 DEF TailCall
  <1>26. ctx'.depth <= MaxLispDepth
    BY <1>12, <1>25 DEF IndInv
  <1> QED BY <1>2, <1>14, <1>23, <1>24, <1>25, <1>26, NextInv

\* An item is popped by the code that runs, or by an exception.
LEMMA ItemPoppedInv ==
  ASSUME IndInv, PopFrame \/ UnbindItem \/ Handled \/ Ejmp \/ UnwindHandler
  PROVE  IndInv'
  <1>1. PICK k : PopItem(k) /\ k \in {Top.impurity, Top.impurity - Top.spec}
    BY DEF PopFrame, UnbindItem, Handled, Ejmp, UnwindHandler
  <1>2. Top.kind \in VM \ {"vm"} /\ UNCHANGED <<reg, signals>>
    BY DEF PopFrame, UnbindItem, Handled, Ejmp, UnwindHandler, Run, VM
  <1>3. k \in Int /\ k >= Top.impurity - Top.spec
    BY <1>1, Facts, ScopeType
  <1>4. /\ Stack(scopes', entry', ctx') /\ ctx'.depth <= MaxLispDepth
        /\ scopes'[Len(scopes')].kind \in VM
    BY <1>1, <1>2, <1>3, PopItemInv
  <1>5. reg' \in (Thrown \ Funs) \cup {None}
    BY <1>2, RegQuiet DEF IndInv
  <1>6. Throws'
    <2>1. CASE PopFrame \/ Handled
      <3>1. mode = "run" /\ mode' = "run" /\ throw' = throw
        BY <2>1 DEF PopFrame, Handled, Run
      <3> QED BY <1>2, <1>5, <3>1, NoTailCall, QuietThrows DEF IndInv
    <2>2. CASE UnbindItem
      <3>1. mode \in {"return", "pop-frames", "reset-frames"} /\ mode' = mode /\ throw' = throw
        BY <2>2 DEF UnbindItem
      <3>2. throw \notin Funs
        BY <3>1 DEF IndInv, Throws
      <3> QED BY <1>2, <1>4, <3>1, <3>2 DEF IndInv, Throws, Top, Depth
    <2>3. CASE UnwindHandler
      <3>1. mode = "unwind" /\ mode' = mode /\ throw' = throw /\ Top.kind = "handling"
        BY <2>3 DEF UnwindHandler
      <3>2. throw \in Thrown \ Funs /\ throw # None
        BY <3>1 DEF IndInv, Throws
      <3> QED BY <1>2, <1>5, <3>1, <3>2, QuietThrows DEF IndInv
    <2>4. CASE Ejmp
      <3>1. mode' = "unwind" /\ throw' = Top.data /\ Top.kind = "handling"
        BY <2>4 DEF Ejmp, Run
      <3>2. Top.data \in Thrown \ Funs
        BY <3>1, Facts DEF Good, Holds, Top
      <3>3. None \notin Thrown
        BY ThrownAssumption DEF Thrown, Exceptions
      <3> QED BY <1>2, <1>5, <3>1, <3>2, <3>3, QuietThrows DEF IndInv
    <2> QED BY <2>1, <2>2, <2>3, <2>4
  <1> QED BY <1>4, <1>6, NextInv

\* The exception is put back once an item or the activation is undone.
LEMMA UnwindItemEndInv ==
  ASSUME IndInv, UnwindItemEnd
  PROVE  IndInv'
  <1>1. /\ mode = "unbinding" /\ throw' = reg /\ reg' = None /\ mode' = "unwind"
        /\ UNCHANGED signals
    BY DEF UnwindItemEnd
  <1>2. reg \in Thrown \ Funs /\ reg # None /\ Top.kind \in {"vm", "frame"}
    BY <1>1 DEF IndInv, Throws
  <1>3. Throws'
    BY <1>1, <1>2, QuietThrows DEF IndInv
  <1>4. CASE Top.kind = "vm"
    <2>1. Pop
      BY <1>4 DEF UnwindItemEnd
    <2> QED BY <1>3, <1>4, <2>1, PopInv, NextInv
  <1>5. CASE Top.kind = "frame"
    <2>1. PICK k : k = Top.impurity - Top.spec
      OBVIOUS
    <2>2. k \in Int /\ k >= Top.impurity - Top.spec
      BY <2>1, Facts, ScopeType
    <2>3. PopItem(k)
      BY <1>5, <2>1 DEF UnwindItemEnd
    <2>4. Top.kind \in VM \ {"vm"}
      BY <1>5 DEF VM
    <2> QED BY <1>3, <2>2, <2>3, <2>4, PopItemInv, NextInv
  <1> QED BY <1>2, <1>4, <1>5

\* An exception, or a tail call, passes a scope.
LEMMA UnwindInv ==
  ASSUME IndInv, Unwind
  PROVE  IndInv'
  <1>1. /\ mode = "unwind" /\ Pop /\ Top.kind # "loop"
        /\ UNCHANGED <<throw, mode, reg, signals>>
    BY DEF Unwind
  <1>2. /\ Stack(scopes', entry', ctx') /\ ctx'.depth <= MaxLispDepth
        /\ Len(scopes') = Depth - 1 /\ Len(scopes') \in Nat \ {0}
        /\ scopes'[Len(scopes')] = scopes[Depth - 1]
    BY <1>1, PopInv
  <1>3. CASE throw \notin Funs
    <2>1. throw \in Thrown /\ throw # None
      BY <1>1 DEF IndInv, Throws
    <2>2. Throws'
      BY <1>1, <1>3, <2>1, RegQuiet, QuietThrows DEF IndInv
    <2> QED BY <1>2, <2>2, NextInv
  <1>4. CASE throw \in Funs
    <2>1. /\ Top.kind \in {"lambda", "eval"} /\ (Top.kind = "eval" => Top.tail)
          /\ (Top.kind = "lambda" => Top.phase = "body")
      BY <1>4 DEF IndInv, Throws
    <2>2. Top.tail
      BY <1>4, <2>1 DEF Unwind
    <2>3. InTail(scopes, Depth)
      BY Facts DEF Good
    <2>4. /\ scopes[Depth - 1].kind \in {"lambda", "eval"}
          /\ scopes[Depth - 1].kind = "eval" => scopes[Depth - 1].tail
          /\ scopes[Depth - 1].kind = "lambda" => scopes[Depth - 1].phase = "body"
      BY <2>2, <2>3 DEF InTail, Top
    <2>5. Throws'
      BY <1>1, <1>2, <1>4, <2>4 DEF IndInv, Throws, Top, Depth
    <2> QED BY <1>2, <2>5, NextInv
  <1> QED BY <1>3, <1>4

\* Steps that only touch rep_throw_value.
LEMMA ThrowStepInv ==
  ASSUME IndInv, UNCHANGED <<scopes, entry, ctx>>,
         \/ Take \/ (\E e \in Exceptions : Raise(e)) \/ RaiseEnd \/ Interrupted
         \/ UnwindItem \/ LoopGoesOn
         \/ \E to \in {"return", "pop-frames", "reset-frames"} : StartUnbind(to)
         \/ \E cell \in {UserInt, TermInt} : Signal(cell)
  PROVE  IndInv'
  <1>1. Stack(scopes', entry', ctx') /\ ctx'.depth <= MaxLispDepth
    BY DEF IndInv
  <1>2. Throws /\ Top' = Top
    BY DEF IndInv, Top, Depth
  <1>3. None \notin Funs /\ UserInt \notin Funs /\ TermInt \notin Funs
        /\ UserInt # None /\ TermInt # None /\ Exceptions \cap Funs = {}
        /\ None \notin Exceptions /\ {UserInt, TermInt} \cup Exceptions \subseteq Thrown
    BY ThrownAssumption DEF Exceptions, Thrown
  <1>4. CASE Take
    <2>1. /\ mode = "unwind" /\ Top.kind = "catch" /\ Top.phase = "called" /\ reg' = throw
          /\ mode' = "taking" /\ UNCHANGED <<throw, signals>>
      BY <1>4 DEF Take
    <2>2. Throws'
      BY <1>2, <2>1 DEF Throws, Modes
    <2> QED BY <1>1, <2>2, NextInv
  <1>5. ASSUME NEW e \in Exceptions, Raise(e) PROVE IndInv'
    <2>1. throw = None /\ reg' = e /\ mode' = "raising" /\ UNCHANGED <<throw, signals>>
      BY <1>5 DEF Raise
    <2>2. Throws'
      BY <1>2, <1>3, <2>1 DEF Throws, Modes
    <2> QED BY <1>1, <2>2, NextInv
  <1>6. CASE RaiseEnd
    <2>1. mode = "raising" /\ throw' = reg /\ reg' = None /\ mode' = "unwind" /\ UNCHANGED signals
      BY <1>6 DEF RaiseEnd
    <2>2. Throws'
      BY <1>2, <1>3, <2>1 DEF Throws, Modes
    <2> QED BY <1>1, <2>2, NextInv
  <1>7. CASE Interrupted
    <2>1. mode = "run" /\ throw # None /\ mode' = "unwind" /\ UNCHANGED <<throw, reg, signals>>
      BY <1>7 DEF Interrupted, Run
    <2>2. Throws'
      BY <1>2, <2>1 DEF Throws, Modes
    <2> QED BY <1>1, <2>2, NextInv
  <1>8. CASE UnwindItem
    <2>1. /\ mode = "unwind" /\ Top.kind \in {"vm", "frame"} /\ reg' = throw /\ throw' = None
          /\ mode' = "unbinding" /\ UNCHANGED signals
      BY <1>8 DEF UnwindItem
    <2>2. Throws'
      BY <1>2, <1>3, <2>1 DEF Throws, Modes
    <2> QED BY <1>1, <2>2, NextInv
  <1>9. CASE LoopGoesOn
    <2>1. throw' = None /\ mode' = "run" /\ UNCHANGED <<reg, signals>>
      BY <1>9 DEF LoopGoesOn
    <2>2. Throws'
      BY <1>2, <1>3, <2>1 DEF Throws, Modes
    <2> QED BY <1>1, <2>2, NextInv
  <1>10. ASSUME NEW to \in {"return", "pop-frames", "reset-frames"}, StartUnbind(to)
         PROVE  IndInv'
    <2>1. mode = "run" /\ Top.kind \in VM /\ mode' = to /\ UNCHANGED <<throw, reg, signals>>
      BY <1>10 DEF StartUnbind, Run, VM
    <2>2. Throws'
      BY <1>2, <2>1 DEF Throws, Modes
    <2> QED BY <1>1, <2>2, NextInv
  <1>11. ASSUME NEW cell \in {UserInt, TermInt}, Signal(cell) PROVE IndInv'
    <2>1. /\ signals < MaxSignals /\ signals' = signals + 1 /\ reg' = reg
          /\ \/ throw = cell /\ mode' = "exit" /\ throw' = throw
             \/ throw' = cell /\ mode' = mode
      BY <1>11 DEF Signal
    <2>2. signals' \in 0..MaxSignals
      BY <1>2, <2>1, BoundsAssumption DEF Throws
    <2>3. Throws'
      BY <1>2, <1>3, <2>1, <2>2 DEF Throws, Modes
    <2> QED BY <1>1, <2>3, NextInv
  <1> QED BY <1>4, <1>5, <1>6, <1>7, <1>8, <1>9, <1>10, <1>11

\* An event loop returns.
LEMMA LoopLeftInv ==
  ASSUME IndInv, LoopExits \/ LoopUnhandled
  PROVE  IndInv'
  <1>1. UNCHANGED <<reg, signals>> /\ throw # None
    BY DEF LoopExits, LoopUnhandled, AtLoop
  <1>2. reg' \in (Thrown \ Funs) \cup {None}
    BY <1>1, RegQuiet DEF IndInv
  <1>3. CASE LoopExits
    <2>1. throw' = None /\ mode' \in {"run", "exit"}
      BY <1>3 DEF LoopExits
    <2>2. Throws'
      BY <1>1, <1>2, <2>1, QuietThrows DEF IndInv
    <2>3. CASE Nested
      <3>1. Pop
        BY <1>3, <2>3 DEF LoopExits
      <3> QED BY <2>2, <2>3, <3>1, PopInv, NextInv
    <2>4. CASE ~Nested
      <3>1. UNCHANGED <<ctx, scopes, entry>>
        BY <1>3, <2>4 DEF LoopExits
      <3> QED BY <2>2, <3>1, NextInv DEF IndInv
    <2> QED BY <2>3, <2>4
  <1>4. CASE LoopUnhandled
    <2>1. Pop /\ Nested /\ mode' = "unwind" /\ throw' = throw /\ throw \in Exceptions \cup {UserInt}
      BY <1>4 DEF LoopUnhandled
    <2>2. throw' \in Thrown \ Funs
      BY <2>1, ThrownAssumption DEF Exceptions, Thrown
    <2>3. Throws'
      BY <1>1, <1>2, <2>1, <2>2, QuietThrows DEF IndInv
    <2> QED BY <2>1, <2>3, PopInv, NextInv
  <1> QED BY <1>3, <1>4

----------------------------------------------------------------------------
(* The invariant is inductive *)

\* The outermost event loop starts in order.
LEMMA InitInv == Init => IndInv
  <1>1. SUFFICES ASSUME Init PROVE IndInv
    OBVIOUS
  <1>2. PICK s : s = Blank("loop", InitCtx)
    OBVIOUS
  <1>3. InitCtx \in Contexts /\ InitCtx.depth = 0
    BY FunsAssumption DEF InitCtx, Contexts
  <1>4. s \in Scopes
    BY <1>2, <1>3, BlankType DEF Kinds
  <1>5. /\ s.kind = "loop" /\ s.env = InitCtx.env /\ s.structure = InitCtx.structure
        /\ s.cost = 0 /\ ~s.tail /\ s.phase = "body"
    BY <1>2 DEF Blank
  <1>6. /\ scopes = <<s>> /\ entry = <<InitCtx>> /\ ctx = InitCtx
        /\ throw = None /\ reg = None /\ mode = "run" /\ signals = 0
    BY <1>1, <1>2 DEF Init
  <1>7. /\ scopes \in Seq(Scopes) /\ entry \in Seq(Contexts) /\ Len(scopes) = 1
        /\ Len(entry) = 1 /\ scopes[1] = s /\ entry[1] = InitCtx
    BY <1>3, <1>4, <1>6
  <1>8. Undo(s, InitCtx) = InitCtx
    <2>1. Undo(s, InitCtx) = [env |-> s.env, special |-> InitCtx.special,
                              structure |-> s.structure, depth |-> InitCtx.depth - s.cost]
      BY <1>3, <1>4, <1>5, UndoFields
    <2>2. InitCtx.depth - s.cost = InitCtx.depth
      BY <1>3, <1>5
    <2>3. InitCtx = [env |-> InitCtx.env, special |-> InitCtx.special,
                     structure |-> InitCtx.structure, depth |-> InitCtx.depth]
      BY DEF InitCtx
    <2> QED BY <1>5, <2>1, <2>2, <2>3
  <1>9. Good(scopes, entry, 1, ctx)
    BY <1>5, <1>6, <1>7, <1>8 DEF Good, InVM, VM, InTail, Holds
  <1>10. \A i \in 1..Len(scopes) : i = 1
    BY <1>7
  <1>11. \A i \in 1..Len(scopes) : entry[i].depth <= MaxLispDepth
    BY <1>3, <1>7, <1>10, BoundsAssumption
  <1>12. \A i \in 1..Len(scopes) : Good(scopes, entry, i, At(scopes, entry, ctx, i))
    BY <1>7, <1>9, <1>10 DEF At
  <1>13. Stack(scopes, entry, ctx)
    BY <1>3, <1>5, <1>6, <1>7, <1>11, <1>12 DEF Stack
  <1>14. Throws
    BY <1>6, ThrownAssumption, BoundsAssumption DEF Throws, Modes
  <1>15. ctx.depth <= MaxLispDepth
    BY <1>3, <1>6, BoundsAssumption
  <1> QED BY <1>13, <1>14, <1>15 DEF IndInv

\* Every step keeps the invariant.
LEMMA StepInv == IndInv /\ [Next]_vars => IndInv'
  <1>1. SUFFICES ASSUME IndInv, [Next]_vars PROVE IndInv'
    OBVIOUS
  <1>2. CASE UNCHANGED vars
    <2>1. Throws'
      BY <1>1, <1>2 DEF IndInv, Throws, Top, Depth, vars
    <2> QED BY <1>1, <1>2, <2>1, NextInv DEF IndInv, vars
  <1>3. CASE Interpret
    <2>1. ASSUME NEW tail \in BOOLEAN, EvalForm(tail) PROVE IndInv'
      BY <1>1, <2>1, EvalFormInv
    <2>2. CASE EvalDone
      <3>1. /\ mode = "run" /\ Top.kind = "eval" /\ Pop /\ mode' = "run"
            /\ UNCHANGED <<throw, reg, signals>>
        BY <2>2 DEF EvalDone, Run
      <3> QED BY <1>1, <3>1, ReturnedInv
    <2>3. CASE \E f \in Funs : EvalCall(f)
      BY <1>1, <2>3, EvalCallInv
    <2>4. CASE EvalSubr
      BY <1>1, <2>4, EvalCallInv
    <2>5. ASSUME NEW f \in Funs, InlineLambda(f) PROVE IndInv'
      BY <1>1, <2>5, InlineLambdaInv
    <2>6. CASE LambdaReturn
      <3>1. /\ mode = "run" /\ Top.kind = "lambda" /\ Pop /\ mode' = ValueReturned(Top)
            /\ UNCHANGED <<throw, reg, signals>>
        BY <2>6 DEF LambdaReturn, Run
      <3> QED BY <1>1, <3>1, ReturnedInv
    <2>7. CASE CatchTailCall
      BY <1>1, <2>7, CatchTailCallInv
    <2>8. CASE TailApply
      BY <1>1, <2>8, TailApplyInv
    <2> QED BY <1>3, <2>1, <2>2, <2>3, <2>4, <2>5, <2>6, <2>7, <2>8 DEF Interpret
  <1>4. CASE RunSubr
    <2>1. ASSUME NEW f \in Funs, NEW direct \in BOOLEAN, SubrCall(f, direct) PROVE IndInv'
      <3>1. mode = "run" /\ Invoke(f, direct, scopes, ctx) /\ UNCHANGED <<reg, signals>>
        BY <2>1 DEF SubrCall, Run
      <3> QED BY <1>1, <3>1, CallInv
    <2>2. CASE SubrReturn
      <3>1. /\ mode = "run" /\ Top.kind = "subr" /\ Pop /\ mode' = ValueReturned(Top)
            /\ UNCHANGED <<throw, reg, signals>>
        BY <2>2 DEF SubrReturn, Run
      <3> QED BY <1>1, <3>1, ReturnedInv
    <2>3. ASSUME NEW s \in Symbols, WithFluids(s) PROVE IndInv'
      BY <1>1, <2>3, WithFluidsInv
    <2>4. CASE CallWithExceptionHandler
      BY <1>1, <2>4, PhaseInv
    <2>5. ASSUME NEW f \in Funs, CallThunk(f) PROVE IndInv'
      BY <1>1, <2>5, CallThunkInv
    <2>6. CASE ThunkReturned
      <3>1. /\ mode = "run" /\ Top.kind # "loop" /\ Pop /\ mode' = ValueReturned(Top)
            /\ UNCHANGED <<throw, reg, signals>>
        BY <2>6 DEF ThunkReturned, Run
      <3> QED BY <1>1, <3>1, ReturnedInv
    <2>7. CASE TakeEnd
      BY <1>1, <2>7, PhaseInv
    <2>8. CASE Take \/ (\E e \in Exceptions : Raise(e)) \/ RaiseEnd \/ Interrupted
      <3>1. UNCHANGED <<scopes, entry, ctx>>
        BY <2>8 DEF Take, Raise, RaiseEnd, Interrupted
      <3> QED BY <1>1, <2>8, <3>1, ThrowStepInv
    <2>9. CASE Unwind
      BY <1>1, <2>9, UnwindInv
    <2> QED BY <1>4, <2>1, <2>2, <2>3, <2>4, <2>5, <2>6, <2>7, <2>8, <2>9 DEF RunSubr
  <1>5. CASE RunBytecode
    <2>1. CASE PushFrame \/ BindErr
      BY <1>1, <2>1, PushItemInv
    <2>2. ASSUME NEW s \in Symbols, Bind(s) \/ SpecBind(s) PROVE IndInv'
      BY <1>1, <2>2, BindInv
    <2>3. CASE PopFrame \/ UnbindItem \/ Handled \/ Ejmp \/ UnwindHandler
      BY <1>1, <2>3, ItemPoppedInv
    <2>4. ASSUME NEW f \in Funs, OpCall(f) PROVE IndInv'
      <3>1. PICK direct \in BOOLEAN : Invoke(f, direct, scopes, ctx)
        BY <2>4 DEF OpCall
      <3>2. mode = "run" /\ UNCHANGED <<reg, signals>>
        BY <2>4 DEF OpCall, Run
      <3> QED BY <1>1, <3>1, <3>2, CallInv
    <2>5. ASSUME NEW f \in Funs, TailCall(f) PROVE IndInv'
      BY <1>1, <2>5, TailCallInv
    <2>6. CASE OpCallSubr
      <3>1. mode = "run" /\ InvokeSubr(0, FALSE, scopes, ctx) /\ UNCHANGED <<reg, signals>>
        BY <2>6 DEF OpCallSubr, Run
      <3> QED BY <1>1, <3>1, CallInv
    <2>7. CASE \/ \E to \in {"return", "pop-frames", "reset-frames"} : StartUnbind(to)
               \/ UnwindItem
      <3>1. UNCHANGED <<scopes, entry, ctx>>
        BY <2>7 DEF StartUnbind, UnwindItem
      <3> QED BY <1>1, <2>7, <3>1, ThrowStepInv
    <2>8. CASE ReturnEnd
      <3>1. /\ mode # "unwind" /\ Top.kind = "vm" /\ Pop /\ mode' = ValueReturned(Top)
            /\ UNCHANGED <<throw, reg, signals>>
        BY <2>8 DEF ReturnEnd
      <3> QED BY <1>1, <3>1, ReturnedInv
    <2>9. CASE PopFramesEnd \/ ResetFramesEnd
      BY <1>1, <2>9, FramesEndInv
    <2>10. CASE UnwindItemEnd
      BY <1>1, <2>10, UnwindItemEndInv
    <2>11. CASE EnterHandler
      BY <1>1, <2>11, EnterHandlerInv
    <2> QED BY <1>5, <2>1, <2>2, <2>3, <2>4, <2>5, <2>6, <2>7, <2>8, <2>9, <2>10, <2>11
            DEF RunBytecode
  <1>6. CASE RunLoop
    <2>1. CASE RecursiveEdit
      BY <1>1, <2>1, PhaseInv
    <2>2. CASE LoopGoesOn \/ \E cell \in {UserInt, TermInt} : Signal(cell)
      <3>1. UNCHANGED <<scopes, entry, ctx>>
        BY <2>2 DEF LoopGoesOn, Signal
      <3> QED BY <1>1, <2>2, <3>1, ThrowStepInv
    <2>3. CASE LoopExits \/ LoopUnhandled
      BY <1>1, <2>3, LoopLeftInv
    <2> QED BY <1>6, <2>1, <2>2, <2>3 DEF RunLoop
  <1> QED BY <1>1, <1>2, <1>3, <1>4, <1>5, <1>6 DEF Next

\* The invariant holds throughout.
THEOREM Invariance == Spec => []IndInv
  BY InitInv, StepInv, PTL DEF Spec

----------------------------------------------------------------------------
(* What it shows *)

\* The registers have their types, and rep_lisp_depth stays within
\* rep_max_lisp_depth, in interpreted and in compiled code.
THEOREM TypeCorrect == Spec => []TypeOK
  <1>1. IndInv => TypeOK
    <2>1. SUFFICES ASSUME IndInv PROVE TypeOK
      OBVIOUS
    <2>2. scopes # <<>>
      BY <2>1, Facts DEF Depth
    <2> QED BY <2>1, <2>2 DEF IndInv, Stack, Throws, TypeOK
  <1> QED BY <1>1, Invariance, PTL

\* However the innermost scope is left, and then the one around it, and so on,
\* each gives back the registers it was entered with: for any program, any
\* nesting and any signals.
THEOREM RegistersRestored == Spec => []ContextRestored
  <1>1. IndInv => ContextRestored
    BY DEF IndInv, Stack, Good, At, ContextRestored, ContextAt, Depth
  <1> QED BY <1>1, Invariance, PTL

\* Code that unwinds always has an exception in its hands.
THEOREM NeverLost == Spec => []ExceptionPresent
  <1>1. IndInv => ExceptionPresent
    <2>1. SUFFICES ASSUME IndInv PROVE ExceptionPresent
      OBVIOUS
    <2>2. None \notin Thrown
      BY ThrownAssumption DEF Thrown, Exceptions
    <2>3. \A i \in 1..Depth : Holds(scopes[i])
      BY <2>1 DEF IndInv, Stack, Good, Depth
    <2>4. /\ mode = "unwind" => throw # None
          /\ mode \in {"taking", "unbinding"} => reg # None
      BY <2>1 DEF IndInv, Throws
    <2> QED BY <2>2, <2>3, <2>4 DEF ExceptionPresent, Holds
  <1> QED BY <1>1, Invariance, PTL

\* A tail call is caught by the lambda it belongs to.
THEOREM TailCallsStay == Spec => []TailCallsCaught
  <1>1. IndInv => TailCallsCaught
    <2>1. SUFFICES ASSUME IndInv PROVE TailCallsCaught
      OBVIOUS
    <2>2. \A i \in 1..Depth : Holds(scopes[i])
      BY <2>1 DEF IndInv, Stack, Good, Depth
    <2>3. /\ throw \in Funs => /\ mode = "unwind"
                               /\ Top.kind \in {"lambda", "eval"}
                               /\ Top.kind = "eval" => Top.tail
          /\ reg \notin Funs
      BY <2>1 DEF IndInv, Throws
    <2> QED BY <2>2, <2>3 DEF TailCallsCaught, Holds
  <1> QED BY <1>1, Invariance, PTL

\* Tail calls in place lose no special binding and no handler.
THEOREM TailCallsPure == Spec => []PureTailCalls
  <1>1. IndInv => PureTailCalls
    <2>1. SUFFICES ASSUME IndInv, NEW i \in 1..Depth,
                          scopes[i].kind \in VM, scopes[i].impurity = 0,
                          NEW j \in scopes[i].base..i
                   PROVE  scopes[j].spec = 0 /\ scopes[j].kind # "err"
      BY DEF PureTailCalls
    <2>2. scopes \in Seq(Scopes) /\ Depth = Len(scopes) /\ Depth \in Nat
      BY <2>1, Facts DEF Depth
    <2>3. InVM(scopes, entry, i, At(scopes, entry, ctx, i))
      BY <2>1 DEF IndInv, Stack, Good, Depth
    <2>4. scopes[i].base \in 1..i /\ Own(scopes[j]) <= 0
      BY <2>1, <2>3 DEF InVM
    <2>5. scopes[j] \in Scopes
      BY <2>2, <2>4
    <2>6. scopes[j].spec \in Nat
      BY <2>5, ScopeType
    <2> QED BY <2>4, <2>6 DEF Own
  <1> QED BY <1>1, Invariance, PTL
=============================================================================
