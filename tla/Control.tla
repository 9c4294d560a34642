------------------------------ MODULE Control ------------------------------
(***************************************************************************)
(* How the interpreter keeps its registers straight: the environment, the  *)
(* special environment, the current structure and the depth of nested      *)
(* evaluations, while Lisp code calls, binds, throws, catches and          *)
(* tail-calls, interpreted (src/src/apply.c, eval.c, lambda.c, fluids.c,   *)
(* errors.c) and compiled (src/src/lispmach.h), and while signals          *)
(* (src/src/signals.c) write rep_throw_value behind its back.              *)
(*                                                                         *)
(* The C stack is a sequence of scopes; the last one is running.  What the *)
(* code in it does next is left open, as is what a function computes.      *)
(***************************************************************************)
EXTENDS Integers, Sequences

CONSTANTS
  None,          \* no value in rep_throw_value
  UserInt,       \* rep_int_cell
  TermInt,       \* rep_term_cell
  Errors,        \* exceptions that signal an error
  Exits,         \* exceptions that leave an event loop: exit, quit
  Tags,          \* any other tag that is thrown
  DepthError,    \* the error "max-lisp-depth exceeded"
  Funs,          \* closures; a member of Funs thrown is a tail call to it
  Code,          \* "lambda" or "bytecode"
  FunEnv,        \* the environment a closure has captured
  FunStructure,  \* its structure
  LexParams, SpecParams,     \* the lexical and special parameters of a lambda
  Symbols,       \* what environments bind
  Structures,
  InitStructure, \* rep_structure when the outermost event loop starts
  MaxLispDepth,  \* rep_max_lisp_depth
  MaxScopes,     \* bound on nesting
  MaxBindings,   \* bound on the bindings one frame of compiled code makes
  MaxImpurity,   \* bound on impurity, which OP_POP_FRAME leaves too high
  MaxSignals     \* bound on the signals that arrive

ASSUME ThrownAssumption ==
  /\ DepthError \in Errors
  /\ {None, UserInt, TermInt} \cap (Errors \cup Exits \cup Tags \cup Funs) = {}
  /\ Funs \cap (Errors \cup Exits \cup Tags) = {}
  /\ None # UserInt /\ None # TermInt /\ UserInt # TermInt

ASSUME FunsAssumption ==
  /\ Code \in [Funs -> {"lambda", "bytecode"}]
  /\ FunEnv \in [Funs -> Seq(Symbols)]
  /\ FunStructure \in [Funs -> Structures]
  /\ LexParams \in [Funs -> Seq(Symbols)]
  /\ SpecParams \in [Funs -> Seq(Symbols)]
  /\ InitStructure \in Structures

ASSUME BoundsAssumption ==
  /\ MaxLispDepth \in Nat
  /\ MaxScopes \in Nat
  /\ MaxBindings \in Nat
  /\ MaxImpurity \in Nat
  /\ MaxSignals \in Nat

VARIABLES
  throw,    \* rep_throw_value
  ctx,      \* rep_env, rep_special_env, rep_structure, rep_lisp_depth
  scopes,   \* the nested C functions and binding frames, innermost last
  mode,     \* what the innermost one is about to do
  reg,      \* the local variable that holds an exception across a window
  signals,  \* signals that have arrived
  entry     \* history: the registers as they were when each scope was entered

vars == <<throw, ctx, scopes, mode, reg, signals, entry>>

----------------------------------------------------------------------------
(* Data *)

Exceptions == Errors \cup Exits \cup Tags
Thrown == Exceptions \cup {UserInt, TermInt} \cup Funs

Kinds == {"loop", "lambda", "eval", "subr", "fluids", "catch",
          "vm", "frame", "err", "handling"}

\* The scopes of one activation of bytecode_vm(): its own and the items of
\* its binding stack.
VM == {"vm", "frame", "err", "handling"}

\* What a scope may be waiting for.
Phases == {"body", "ready", "called", "handle", "handled", "tail"}

Modes == {"run", "unwind", "return", "pop-frames", "reset-frames",
          "raising", "taking", "unbinding", "exit"}

Contexts == [env : Seq(Symbols), special : Seq(Symbols),
             structure : Structures, depth : Nat]

Scopes == [kind : Kinds, env : Seq(Symbols), structure : Structures,
           old : Seq(Symbols), lex : Nat, spec : Nat, cost : 0..2,
           checked : BOOLEAN, tail : BOOLEAN, phase : Phases,
           base : Nat, impurity : Int, data : Thrown \cup {None}]

\* A scope that saves nothing but what rep_PUSH_CALL saves in context c.
Blank(kind, c) ==
  [kind |-> kind, env |-> c.env, structure |-> c.structure, old |-> <<>>,
   lex |-> 0, spec |-> 0, cost |-> 0, checked |-> FALSE, tail |-> FALSE,
   phase |-> "body", base |-> 0, impurity |-> 0, data |-> None]

Depth == Len(scopes)
Top == scopes[Depth]
Below == SubSeq(scopes, 1, Depth - 1)

\* The environment without its n newest bindings, which come first.
ListTail(list, n) == SubSeq(list, n + 1, Len(list))

----------------------------------------------------------------------------
(* Leaving a scope *)

\* rep_unbind_symbols(), and unbind() for an item of the binding stack.
Unbind(s, c) ==
  [c EXCEPT !.env = ListTail(@, s.lex), !.special = ListTail(@, s.spec)]

\* rep_POP_CALL, and the return from what incremented rep_lisp_depth.
PopCall(s, c) ==
  [c EXCEPT !.env = s.env, !.structure = s.structure, !.depth = @ - s.cost]

\* The registers after scope s has been left with the registers at c.
Undo(s, c) ==
  CASE s.kind \in {"lambda", "vm"} -> PopCall(s, Unbind(s, c))
    [] s.kind = "fluids"           -> PopCall(s, [c EXCEPT !.special = s.old])
    [] s.kind \in {"subr", "catch", "loop"} -> PopCall(s, c)
    [] s.kind = "eval"             -> [c EXCEPT !.depth = @ - 1]
    [] s.kind = "frame"            -> Unbind(s, c)
    [] OTHER                       -> c

Pop ==
  /\ scopes' = Below
  /\ entry' = SubSeq(entry, 1, Depth - 1)
  /\ ctx' = Undo(Top, ctx)

\* Leave an item of the binding stack; impurity is what is left of the
\* variable of bytecode_vm().
PopItem(impurity) ==
  /\ scopes' = [Below EXCEPT ![Depth - 1].impurity = impurity]
  /\ entry' = SubSeq(entry, 1, Depth - 1)
  /\ ctx' = Undo(Top, ctx)

Run(kinds) == mode = "run" /\ Top.kind \in kinds

\* rep_apply_() complains about a value returned together with an exception,
\* and prefers the exception; other callers do not look.
ValueReturned(s) == IF s.checked /\ throw # None THEN "unwind" ELSE "run"

----------------------------------------------------------------------------
(* Calling a closure *)

\* How much deeper a call is: rep_apply_() and bytecode_vm() count one each;
\* a direct call comes from OP_CALL or rep_call_lispn().
Cost(f, direct) ==
  (IF direct THEN 0 ELSE 1) + (IF Code[f] = "bytecode" THEN 1 ELSE 0)

\* Arguments are bound by rep_apply_lambda(), and by the instructions of
\* compiled code.
BoundIn(f, c) ==
  IF Code[f] = "bytecode" THEN c
  ELSE [c EXCEPT !.env = LexParams[f] \o @, !.special = SpecParams[f] \o @]

UseClosure(f, c) ==
  [c EXCEPT !.env = FunEnv[f], !.structure = FunStructure[f]]

ParamCount(f, params) == IF Code[f] = "bytecode" THEN 0 ELSE Len(params[f])

\* The scope of a call of f from registers c, as scope number n.
CallScope(f, direct, c, n) ==
  [Blank(IF Code[f] = "bytecode" THEN "vm" ELSE "lambda", c) EXCEPT
     !.lex = ParamCount(f, LexParams), !.spec = ParamCount(f, SpecParams),
     !.cost = Cost(f, direct), !.checked = ~direct, !.base = n]

\* Call f with the scopes under beneath it and the registers at c.
Invoke(f, direct, under, c) ==
  LET n == Len(under) + 1
      deeper == c.depth + Cost(f, direct)
  IN IF ~direct /\ throw # None
     THEN /\ mode' = "unwind"
          /\ scopes' = under
          /\ entry' = SubSeq(entry, 1, n - 1)
          /\ ctx' = c
          /\ UNCHANGED throw
     ELSE IF deeper > MaxLispDepth
     THEN /\ mode' = "unwind"
          /\ scopes' = under
          /\ entry' = SubSeq(entry, 1, n - 1)
          /\ ctx' = c
          /\ throw' = IF throw = None THEN DepthError ELSE throw
     ELSE /\ mode' = "run"
          /\ scopes' = Append(under, CallScope(f, direct, c, n))
          /\ entry' = Append(SubSeq(entry, 1, n - 1), c)
          /\ ctx' = [BoundIn(f, UseClosure(f, c)) EXCEPT !.depth = deeper]
          /\ UNCHANGED throw

\* The same for a subr, which binds nothing.
InvokeSubr(cost, checked, under, c) ==
  IF (checked /\ throw # None) \/ c.depth + cost > MaxLispDepth
  THEN /\ mode' = "unwind"
       /\ scopes' = under
       /\ entry' = SubSeq(entry, 1, Len(under))
       /\ ctx' = c
       /\ throw' = IF throw = None THEN DepthError ELSE throw
  ELSE /\ mode' = "run"
       /\ scopes' = Append(under, [Blank("subr", c) EXCEPT
                                     !.cost = cost, !.checked = checked])
       /\ entry' = Append(SubSeq(entry, 1, Len(under)), c)
       /\ ctx' = [c EXCEPT !.depth = @ + cost]
       /\ UNCHANGED throw

----------------------------------------------------------------------------
(* Interpreted code *)

\* Whether the code in the innermost scope has a tail position to offer: not
\* in a lambda with special bindings.
HasTail == \/ Top.kind = "lambda" /\ Top.spec = 0
           \/ Top.kind = "eval" /\ Top.tail

\* Mutant: any form is taken for one in tail position.
EvalForm_AnyTail(tail) ==
  /\ Run({"lambda", "eval", "subr"})
  /\ Top.phase = "body"
  /\ throw = None
  /\ Depth < MaxScopes
  /\ ctx.depth + 1 <= MaxLispDepth
  /\ scopes' = Append(scopes, [Blank("eval", ctx) EXCEPT !.tail = tail])
  /\ entry' = Append(entry, ctx)
  /\ ctx' = [ctx EXCEPT !.depth = @ + 1]
  /\ UNCHANGED <<throw, mode, reg, signals>>

\* rep_eval() of a compound form.
EvalForm(tail) ==
  /\ Run({"lambda", "eval", "subr"})
  /\ Top.phase = "body"
  /\ throw = None
  /\ tail => HasTail
  /\ Depth < MaxScopes
  /\ IF ctx.depth + 1 > MaxLispDepth
     THEN /\ throw' = DepthError
          /\ mode' = "unwind"
          /\ UNCHANGED <<ctx, scopes, entry>>
     ELSE /\ scopes' = Append(scopes, [Blank("eval", ctx) EXCEPT !.tail = tail])
          /\ entry' = Append(entry, ctx)
          /\ ctx' = [ctx EXCEPT !.depth = @ + 1]
          /\ UNCHANGED <<throw, mode>>
  /\ UNCHANGED <<reg, signals>>

\* A special form, or a macro, has been evaluated.
EvalDone ==
  /\ Run({"eval"})
  /\ Pop
  /\ UNCHANGED <<throw, mode, reg, signals>>

\* The form is a call of f.  In tail position it is thrown to the lambda that
\* is being applied, whatever rep_throw_value held.
EvalCall(f) ==
  /\ Run({"eval"})
  /\ IF Top.tail
     THEN /\ throw' = f
          /\ mode' = "unwind"
          /\ UNCHANGED <<ctx, scopes, entry>>
     ELSE Invoke(f, FALSE, Below, Undo(Top, ctx))
  /\ UNCHANGED <<reg, signals>>

EvalSubr ==
  /\ Run({"eval"})
  /\ InvokeSubr(1, TRUE, Below, Undo(Top, ctx))
  /\ UNCHANGED <<reg, signals>>

\* The form applies a lambda expression, as let does, in the current
\* environment.
InlineLambda(f) ==
  /\ Run({"eval"})
  /\ Code[f] = "lambda"
  /\ scopes' = [scopes EXCEPT ![Depth] =
                  [Blank("lambda", ctx) EXCEPT
                     !.lex = Len(LexParams[f]), !.spec = Len(SpecParams[f]),
                     !.cost = 1, !.tail = Top.tail]]
  /\ ctx' = BoundIn(f, ctx)
  /\ UNCHANGED <<throw, mode, reg, signals, entry>>

LambdaReturn ==
  /\ Run({"lambda"})
  /\ Top.phase \in {"body", "called"}
  /\ Pop
  /\ mode' = ValueReturned(Top)
  /\ UNCHANGED <<throw, reg, signals>>

\* rep_apply_lambda() has a tail call thrown at it: it evaluates a lambda in
\* place, and applies anything else.
CatchTailCall ==
  /\ mode = "unwind"
  /\ Top.kind = "lambda" /\ Top.phase = "body" /\ ~Top.tail
  /\ throw \in Funs
  /\ LET c == Unbind(Top, ctx) IN
     IF Code[throw] = "lambda"
     THEN /\ ctx' = BoundIn(throw, UseClosure(throw, c))
          /\ scopes' = [scopes EXCEPT ![Depth].lex = Len(LexParams[throw]),
                                      ![Depth].spec = Len(SpecParams[throw])]
     ELSE /\ ctx' = c
          /\ scopes' = [scopes EXCEPT ![Depth].lex = 0, ![Depth].spec = 0,
                                      ![Depth].phase = "tail",
                                      ![Depth].data = throw]
  /\ throw' = None
  /\ mode' = "run"
  /\ UNCHANGED <<reg, signals, entry>>

TailApply ==
  /\ Run({"lambda"})
  /\ Top.phase = "tail"
  /\ Depth < MaxScopes
  /\ Invoke(Top.data, FALSE, [scopes EXCEPT ![Depth].phase = "called",
                                            ![Depth].data = None], ctx)
  /\ UNCHANGED <<reg, signals>>

----------------------------------------------------------------------------
(* Subrs *)

\* A subr, or the event loop, calls a function with rep_apply() or with
\* rep_call_lispn().
SubrCall(f, direct) ==
  /\ Run({"subr", "loop"})
  /\ direct => Code[f] = "bytecode"
  /\ Depth < MaxScopes
  /\ Invoke(f, direct, scopes, ctx)
  /\ UNCHANGED <<reg, signals>>

SubrReturn ==
  /\ Run({"subr"})
  /\ Pop
  /\ mode' = ValueReturned(Top)
  /\ UNCHANGED <<throw, reg, signals>>

\* The subr is with-fluids: it binds a fluid and will call a thunk.
WithFluids(f) ==
  /\ Run({"subr"})
  /\ scopes' = [scopes EXCEPT ![Depth].kind = "fluids",
                              ![Depth].phase = "ready",
                              ![Depth].old = ctx.special]
  /\ ctx' = [ctx EXCEPT !.special = <<f>> \o @]
  /\ UNCHANGED <<throw, mode, reg, signals, entry>>

\* The subr is call-with-exception-handler.
CallWithExceptionHandler ==
  /\ Run({"subr"})
  /\ scopes' = [scopes EXCEPT ![Depth].kind = "catch", ![Depth].phase = "ready"]
  /\ UNCHANGED <<throw, ctx, mode, reg, signals, entry>>

\* Either of them calls its thunk, or its handler, with rep_call_lispn().
CallThunk(f) ==
  /\ Run({"fluids", "catch"})
  /\ Top.phase \in {"ready", "handle"}
  /\ Depth < MaxScopes
  /\ Invoke(f, Code[f] = "bytecode",
            [scopes EXCEPT ![Depth].phase =
               IF @ = "ready" THEN "called" ELSE "handled"], ctx)
  /\ UNCHANGED <<reg, signals>>

ThunkReturned ==
  /\ Run({"fluids", "catch"})
  /\ Top.phase \in {"called", "handled"}
  /\ Pop
  /\ mode' = ValueReturned(Top)
  /\ UNCHANGED <<throw, reg, signals>>

\* The thunk did not return: the exception is read, then cleared, and the
\* handler is called with it.
Take ==
  /\ mode = "unwind"
  /\ Top.kind = "catch" /\ Top.phase = "called"
  /\ reg' = throw
  /\ mode' = "taking"
  /\ UNCHANGED <<throw, ctx, scopes, signals, entry>>

TakeEnd ==
  /\ mode = "taking"
  /\ throw' = None
  /\ reg' = None
  /\ mode' = "run"
  /\ scopes' = [scopes EXCEPT ![Depth].phase = "handle"]
  /\ UNCHANGED <<ctx, signals, entry>>

\* raise-exception and signal, called as subrs or by the evaluator itself,
\* and OP_THROW: nothing is thrown over another exception.
Raise(e) ==
  /\ Run({"subr", "eval"} \cup VM)
  /\ throw = None
  /\ reg' = e
  /\ mode' = "raising"
  /\ UNCHANGED <<throw, ctx, scopes, signals, entry>>

RaiseEnd ==
  /\ mode = "raising"
  /\ throw' = reg
  /\ reg' = None
  /\ mode' = "unwind"
  /\ UNCHANGED <<ctx, scopes, signals, entry>>

\* rep_INTERRUPTP is seen by rep_eval(), by a loop, or by a backward jump.
Interrupted ==
  /\ Run({"lambda", "eval", "subr"} \cup VM)
  /\ Top.phase = "body"
  /\ throw # None
  /\ mode' = "unwind"
  /\ UNCHANGED <<throw, ctx, scopes, reg, signals, entry>>

\* A scope that has nothing to do with exceptions returns 0 in its turn.
Unwind ==
  /\ mode = "unwind"
  /\ \/ Top.kind \in {"eval", "subr", "fluids"}
     \/ Top.kind = "catch" /\ Top.phase = "handled"
     \/ Top.kind = "lambda" /\ (throw \in Funs /\ Top.phase = "body" => Top.tail)
  /\ Pop
  /\ UNCHANGED <<throw, mode, reg, signals>>

----------------------------------------------------------------------------
(* Compiled code *)

PushFrame ==
  /\ Run(VM)
  /\ Depth < MaxScopes
  /\ scopes' = Append(scopes, [Blank("frame", ctx) EXCEPT
                                 !.base = Top.base, !.impurity = Top.impurity])
  /\ entry' = Append(entry, ctx)
  /\ UNCHANGED <<throw, ctx, mode, reg, signals>>

\* OP_BIND.
Bind(s) ==
  /\ Run({"vm", "frame"})
  /\ Top.lex < MaxBindings
  /\ ctx' = [ctx EXCEPT !.env = <<s>> \o @]
  /\ scopes' = [scopes EXCEPT ![Depth].lex = @ + 1]
  /\ UNCHANGED <<throw, mode, reg, signals, entry>>

\* OP_SPEC_BIND of an accessible variable, and OP_FLUID_BIND.
SpecBind(s) ==
  /\ Run({"vm", "frame"})
  /\ Top.spec < MaxBindings /\ Top.impurity < MaxImpurity
  /\ ctx' = [ctx EXCEPT !.special = <<s>> \o @]
  /\ scopes' = [scopes EXCEPT ![Depth].spec = @ + 1, ![Depth].impurity = @ + 1]
  /\ UNCHANGED <<throw, mode, reg, signals, entry>>

\* Mutant: a handler that does not count as impure.
BindErr_Pure ==
  /\ Run(VM)
  /\ Depth < MaxScopes
  /\ scopes' = Append(scopes, [Blank("err", ctx) EXCEPT
                                 !.base = Top.base, !.impurity = Top.impurity])
  /\ entry' = Append(entry, ctx)
  /\ UNCHANGED <<throw, ctx, mode, reg, signals>>

\* OP_BINDERR: the exception handler is an item of the binding stack.
BindErr ==
  /\ Run(VM)
  /\ Depth < MaxScopes /\ Top.impurity < MaxImpurity
  /\ scopes' = Append(scopes, [Blank("err", ctx) EXCEPT
                                 !.base = Top.base,
                                 !.impurity = Top.impurity + 1])
  /\ entry' = Append(entry, ctx)
  /\ UNCHANGED <<throw, ctx, mode, reg, signals>>

\* OP_POP_FRAME: impurity goes down by the special bindings only.
PopFrame ==
  /\ Run({"frame", "err"})
  /\ PopItem(Top.impurity - Top.spec)
  /\ UNCHANGED <<throw, mode, reg, signals>>

\* OP_CALL of a closure and of a subr.
OpCall(f) ==
  /\ Run(VM)
  /\ Depth < MaxScopes
  /\ Invoke(f, Code[f] = "bytecode", scopes, ctx)
  /\ UNCHANGED <<reg, signals>>

OpCallSubr ==
  /\ Run(VM)
  /\ Depth < MaxScopes
  /\ InvokeSubr(0, FALSE, scopes, ctx)
  /\ UNCHANGED <<reg, signals>>

\* Mutant: a tail call in place that does not look at impurity.
TailCall_Impure(f) ==
  /\ Run({"vm", "frame", "err"})
  /\ Code[f] = "bytecode"
  /\ scopes' = [SubSeq(scopes, 1, Top.base) EXCEPT
                  ![Top.base].lex = 0, ![Top.base].spec = 0,
                  ![Top.base].impurity = 0]
  /\ entry' = SubSeq(entry, 1, Top.base)
  /\ ctx' = UseClosure(f, ctx)
  /\ UNCHANGED <<throw, mode, reg, signals>>

\* OP_CALL and OP_APPLY before OP_RETURN run the callee in place of the
\* caller, binding stack and all, if no impurity forbids it.
TailCall(f) ==
  /\ Run({"vm", "frame", "err"})
  /\ Code[f] = "bytecode"
  /\ Top.impurity = 0
  /\ scopes' = [SubSeq(scopes, 1, Top.base) EXCEPT
                  ![Top.base].lex = 0, ![Top.base].spec = 0,
                  ![Top.base].impurity = 0]
  /\ entry' = SubSeq(entry, 1, Top.base)
  /\ ctx' = UseClosure(f, ctx)
  /\ UNCHANGED <<throw, mode, reg, signals>>

\* OP_RETURN, OP_POP_FRAMES and OP_RESET_FRAMES pop the binding stack.
StartUnbind(to) ==
  /\ Run({"vm", "frame", "err"})
  /\ mode' = to
  /\ UNCHANGED <<throw, ctx, scopes, reg, signals, entry>>

UnbindItem ==
  /\ mode \in {"return", "pop-frames", "reset-frames"}
  /\ Top.kind \in VM \ {"vm"}
  /\ PopItem(Top.impurity)
  /\ UNCHANGED <<throw, mode, reg, signals>>

ReturnEnd ==
  /\ mode = "return"
  /\ Top.kind = "vm"
  /\ Pop
  /\ mode' = ValueReturned(Top)
  /\ UNCHANGED <<throw, reg, signals>>

PopFramesEnd ==
  /\ mode = "pop-frames"
  /\ Top.kind = "vm"
  /\ scopes' = [scopes EXCEPT ![Depth].impurity = Top.spec]
  /\ mode' = "run"
  /\ UNCHANGED <<throw, ctx, reg, signals, entry>>

\* The compiler lets OP_RESET_FRAMES be followed by OP_PUSH_FRAME.
ResetFramesEnd ==
  /\ mode = "reset-frames"
  /\ Top.kind = "vm"
  /\ ctx' = Unbind(Top, ctx)
  /\ scopes' = [scopes EXCEPT ![Depth].lex = 0, ![Depth].spec = 0,
                              ![Depth].impurity = 0]
  /\ mode' = "run"
  /\ UNCHANGED <<throw, reg, signals, entry>>

\* The label error: rep_throw_value is taken away while an item is unbound,
\* and put back afterwards.
UnwindItem ==
  /\ mode = "unwind"
  /\ Top.kind \in {"vm", "frame"}
  /\ reg' = throw
  /\ throw' = None
  /\ mode' = "unbinding"
  /\ UNCHANGED <<ctx, scopes, signals, entry>>

\* Mutant: rep_throw_value is not put back.
UnwindItemEnd_Lost ==
  /\ mode = "unbinding"
  /\ IF Top.kind = "vm" THEN Pop ELSE PopItem(Top.impurity - Top.spec)
  /\ reg' = None
  /\ mode' = "unwind"
  /\ UNCHANGED <<throw, signals>>

UnwindItemEnd ==
  /\ mode = "unbinding"
  /\ IF Top.kind = "vm" THEN Pop ELSE PopItem(Top.impurity - Top.spec)
  /\ throw' = reg
  /\ reg' = None
  /\ mode' = "unwind"
  /\ UNCHANGED signals

\* The handler on top of the binding stack gets the exception.
EnterHandler ==
  /\ mode = "unwind"
  /\ Top.kind = "err"
  /\ scopes' = [scopes EXCEPT ![Depth].kind = "handling",
                              ![Depth].data = throw,
                              ![Depth].impurity = @ - 1]
  /\ throw' = None
  /\ mode' = "run"
  /\ UNCHANGED <<ctx, reg, signals, entry>>

\* The handler matches (OP_CATCH, OP_ERRORPRO), ...
Handled ==
  /\ Run({"handling"})
  /\ PopItem(Top.impurity)
  /\ UNCHANGED <<throw, mode, reg, signals>>

\* ... OP_EJMP passes the exception on, whatever has been thrown since, ...
Ejmp ==
  /\ Run({"handling"})
  /\ PopItem(Top.impurity)
  /\ throw' = Top.data
  /\ mode' = "unwind"
  /\ UNCHANGED <<reg, signals>>

\* ... or its code throws.
UnwindHandler ==
  /\ mode = "unwind"
  /\ Top.kind = "handling"
  /\ PopItem(Top.impurity)
  /\ UNCHANGED <<throw, mode, reg, signals>>

----------------------------------------------------------------------------
(* Event loops and signals *)

RecursiveEdit ==
  /\ Run({"subr"})
  /\ scopes' = [scopes EXCEPT ![Depth].kind = "loop"]
  /\ UNCHANGED <<throw, ctx, mode, reg, signals, entry>>

\* An exception has reached an event loop, or a signal has been noticed there.
AtLoop == mode \in {"run", "unwind"} /\ Top.kind = "loop" /\ throw # None
Nested == Depth > 1

\* rep_handle_input_exception() reports it and the loop goes on; the outermost
\* loop is entered again for a tag that nobody catches.
LoopGoesOn ==
  /\ AtLoop
  /\ throw \in Errors \cup {UserInt} \cup (IF Nested THEN {} ELSE Exits \cup Tags)
  /\ throw' = None
  /\ mode' = "run"
  /\ UNCHANGED <<ctx, scopes, reg, signals, entry>>

\* The loop returns a value; the program ends with the outermost loop.
LoopExits ==
  /\ AtLoop
  /\ throw \in Exits \cup {TermInt} \cup (IF Nested THEN {} ELSE Errors \cup {UserInt})
  /\ throw' = None
  /\ IF Nested THEN Pop /\ mode' = "run"
               ELSE mode' = "exit" /\ UNCHANGED <<ctx, scopes, entry>>
  /\ UNCHANGED <<reg, signals>>

\* What a nested loop does not handle is thrown further.
LoopUnhandled ==
  /\ AtLoop
  /\ Nested
  /\ throw \in Exceptions \cup {UserInt}
  /\ Pop
  /\ mode' = "unwind"
  /\ UNCHANGED <<throw, reg, signals>>

\* interrupt_signal_handler() and termination_signal_handler().
Signal(cell) ==
  /\ mode # "exit"
  /\ signals < MaxSignals
  /\ signals' = signals + 1
  /\ IF throw = cell THEN mode' = "exit" /\ UNCHANGED throw
                     ELSE throw' = cell /\ UNCHANGED mode
  /\ UNCHANGED <<ctx, scopes, reg, entry>>

----------------------------------------------------------------------------

InitCtx == [env |-> <<>>, special |-> <<>>, structure |-> InitStructure,
            depth |-> 0]

Init ==
  /\ throw = None
  /\ ctx = InitCtx
  /\ scopes = <<Blank("loop", InitCtx)>>
  /\ mode = "run"
  /\ reg = None
  /\ signals = 0
  /\ entry = <<InitCtx>>

Interpret ==
  \/ \E tail \in BOOLEAN : EvalForm(tail)
  \/ EvalDone
  \/ \E f \in Funs : EvalCall(f)
  \/ EvalSubr
  \/ \E f \in Funs : InlineLambda(f)
  \/ LambdaReturn
  \/ CatchTailCall
  \/ TailApply

RunSubr ==
  \/ \E f \in Funs, direct \in BOOLEAN : SubrCall(f, direct)
  \/ SubrReturn
  \/ \E s \in Symbols : WithFluids(s)
  \/ CallWithExceptionHandler
  \/ \E f \in Funs : CallThunk(f)
  \/ ThunkReturned
  \/ Take
  \/ TakeEnd
  \/ \E e \in Exceptions : Raise(e)
  \/ RaiseEnd
  \/ Interrupted
  \/ Unwind

RunBytecode ==
  \/ PushFrame
  \/ \E s \in Symbols : Bind(s) \/ SpecBind(s)
  \/ BindErr
  \/ PopFrame
  \/ \E f \in Funs : OpCall(f) \/ TailCall(f)
  \/ OpCallSubr
  \/ \E to \in {"return", "pop-frames", "reset-frames"} : StartUnbind(to)
  \/ UnbindItem
  \/ ReturnEnd
  \/ PopFramesEnd
  \/ ResetFramesEnd
  \/ UnwindItem
  \/ UnwindItemEnd
  \/ EnterHandler
  \/ Handled
  \/ Ejmp
  \/ UnwindHandler

RunLoop ==
  \/ RecursiveEdit
  \/ LoopGoesOn
  \/ LoopExits
  \/ LoopUnhandled
  \/ \E cell \in {UserInt, TermInt} : Signal(cell)

Next == Interpret \/ RunSubr \/ RunBytecode \/ RunLoop

Spec == Init /\ [][Next]_vars
=============================================================================
