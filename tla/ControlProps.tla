---------------------------- MODULE ControlProps ----------------------------
(***************************************************************************)
(* What Control promises: a scope, however it is left, leaves the registers *)
(* as it found them; an exception is there whenever a function returns 0;   *)
(* and a tail call never escapes from the lambda that made it.              *)
(***************************************************************************)
EXTENDS Control

\* Every variable has its type; rep_lisp_depth stays within its limit.
TypeOK ==
  /\ throw \in Thrown \cup {None}
  /\ ctx \in Contexts
  /\ ctx.depth <= MaxLispDepth
  /\ scopes \in Seq(Scopes)
  /\ scopes # <<>>
  /\ mode \in Modes
  /\ reg \in Thrown \cup {None}
  /\ signals \in 0..MaxSignals
  /\ entry \in Seq(Contexts)
  /\ Len(entry) = Len(scopes)

\* The registers as scope i sees them: those of the program if it is running,
\* those it made its call with otherwise.
ContextAt(i) == IF i = Depth THEN ctx ELSE entry[i + 1]

\* Leaving any of the nested scopes next, by a return or by an exception,
\* gives back the environment, the special environment, the structure and the
\* depth it was entered with: every let, with-fluids, handler and call nested
\* in it has been undone, also after tail calls in place (apply.c, lambda.c,
\* fluids.c, lispmach.h).
ContextRestored ==
  \A i \in 1..Depth : Undo(scopes[i], ContextAt(i)) = entry[i]

\* A function returns 0 only with an exception in rep_throw_value, however
\* often signals and the code that unwinds have written it: what
\* call-with-exception-handler asserts (errors.c:151), and why bytecode_vm()
\* never passes a handler over (lispmach.h:2115).
ExceptionPresent ==
  /\ mode = "unwind" => throw # None
  /\ mode \in {"taking", "unbinding"} => reg # None
  /\ \A i \in 1..Depth : scopes[i].kind = "handling" => scopes[i].data # None

\* The exception that stands for a tail call only passes forms in tail
\* position, and ends at the lambda they belong to (lambda.c:292): no handler,
\* no subr and no event loop ever gets it.
TailCallsCaught ==
  /\ throw \in Funs =>
       /\ mode = "unwind"
       /\ Top.kind \in {"lambda", "eval"}
       /\ Top.kind = "eval" => Top.tail
  /\ reg \notin Funs
  /\ \A i \in 1..Depth : scopes[i].kind = "handling" => scopes[i].data \notin Funs

\* An activation of bytecode_vm() whose impurity is 0 has no special binding
\* and no handler that a tail call in place would lose (lispmach.h:618).
PureTailCalls ==
  \A i \in 1..Depth :
    (scopes[i].kind \in VM /\ scopes[i].impurity = 0) =>
      \A j \in scopes[i].base..i : scopes[j].spec = 0 /\ scopes[j].kind # "err"
=============================================================================
