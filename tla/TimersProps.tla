----------------------------- MODULE TimersProps -----------------------------
(***************************************************************************)
(* Correctness properties of the timer machinery of src/src/timers.c.      *)
(***************************************************************************)
EXTENDS Timers

(* timer_signal_handler() asserts that the chain is not empty: whenever a   *)
(* SIGALRM could be delivered to it there is a timer for it to fire.        *)
HandlerHasTimer ==
  sigalrm = "handler" /\ mode \notin Blocked => chain # <<>>

(* No wakeup is lost: while timers are queued, either the head has fired    *)
(* and a word in the pipe (or a handler that has just read one) will bring  *)
(* the event loop to it, or SIGALRM is handled and its alarm is running or  *)
(* already raised.                                                          *)
NoLostWakeup ==
  chain = <<>> \/ mode \in {"collect", "exited"}
  \/ IF chain[1] \in fired
     THEN pipe > 0 \/ mode = "read"
     ELSE sigalrm = "handler" /\ (itimer > 0 \/ pending)

(* timer_fd_handler() takes fired timers from the front only: a fired timer *)
(* is never queued behind one that has not fired.                           *)
FiredFirst ==
  \A i, j \in 1 .. Len(chain) : i < j /\ chain[j] \in fired => chain[i] \in fired

(* A timer that can still be reached by C code, through the chain or        *)
(* through the array of an active timer_fd_handler, is never freed.         *)
NoDanglingTimer ==
  ToSet(chain) \cup RootsOfFrames \cup (IF mode \in {"insert", "reinsert"} THEN {ins} ELSE {})
    \subseteq allocated

(* Time from now, counted from the alarm of the head, at which c[n] is due  *)
(* according to the delta list.                                             *)
DueAt(c, r) ==
  LET due[n \in 0 .. Len(c)] == IF n = 0 THEN 0 ELSE due[n - 1] + r[c[n]]
  IN  due

(* Inserting and deleting timers moves nobody else: the delay the list      *)
(* gives a timer changes only when the alarm of the head goes off, and a    *)
(* timer enters the list with exactly its period.                           *)
DeltasPreserved ==
  [][\/ pipe' = pipe + 1
     \/ \A i \in 1 .. Len(chain') :
          IF \E j \in 1 .. Len(chain) : chain[j] = chain'[i]
          THEN \E j \in 1 .. Len(chain) :
                 /\ chain[j] = chain'[i]
                 /\ DueAt(chain', rel')[i] = DueAt(chain, rel)[j]
          ELSE DueAt(chain', rel')[i] = period[chain'[i]]]_vars

(* Lisp code eventually leaves the timers alone. *)
LispQuiet ==
  <>[][~(LispCall \/ Throw \/ GarbageCollect)]_vars

(* Every queued timer is eventually taken off the chain to be called, once  *)
(* Lisp code stops setting and deleting timers (while it does not, each     *)
(* insertion at the head restarts the alarm from zero).                     *)
EveryTimerCollected ==
  LispQuiet => \A t \in Timer : (t \in ToSet(chain)) ~> (t \notin ToSet(chain) \/ mode = "exited")

=============================================================================
