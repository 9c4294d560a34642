--------------------------- MODULE ProcessesProps ---------------------------
(***************************************************************************)
(* Correctness properties of the subprocess machinery of                   *)
(* src/src/processes.c.                                                    *)
(***************************************************************************)
EXTENDS Processes

OnStack(op) == \E k \in 1 .. Depth : stack[k].op = op

(* No child's end goes unnoticed.  While a dead or newly stopped child      *)
(* waits to be reported, the SIGCHLD flag is set or a loop around waitpid() *)
(* is still running (or call-process waits for that child itself); the      *)
(* count that ends that loop covers the active processes, whatever mix of   *)
(* synchronous and asynchronous children has run; and the object that       *)
(* waitpid()'s answer is looked up by is there and active, so that the end  *)
(* of the interpreter, too, leaves no child behind.                         *)
NoLostChild ==
  /\ \A p \in Proc :
       child[p] = "zombie" \/ p \in news =>
         \/ pending
         \/ OnStack("reap")
         \/ \E k \in 1 .. Depth : stack[k].op = "sync" /\ stack[k].p = p
  /\ Cardinality({p \in allocated : Active(p)}) <= count
  /\ \A p \in Proc : child[p] # "none" => p \in allocated /\ Active(p)

(* A descriptor is closed by whoever forgets its number: those in process   *)
(* objects are open and belong to the process and to no other, and the one  *)
(* that read_from_process_fd() keeps in a local variable while Lisp runs is *)
(* still the process' own, or closed, but never given to another process,   *)
(* so that no output goes to the stream of another one.                     *)
DescriptorsOwned ==
  /\ \A p \in allocated : \A f \in {out[p], err[p]} \ {NoFd} : files[f].owner = p
  /\ \A k \in 1 .. Depth : stack[k].op = "read" =>
       \A f \in stack[k].fds : files[f].owner \in {stack[k].p, NoProc}

(* A child that has died is closed only after all it wrote has been read:   *)
(* handle_process_events() reaches close_files() with both streams at their *)
(* end.                                                                     *)
DrainedAtDeath ==
  TopIs("diedErr") =>
    \A f \in {out[Top.p], err[Top.p]} \ {NoFd} : files[f].unread = 0

(* The end or stop of a child is still to be reported to Lisp: the process  *)
(* is on notify_list, or handle_process_events() is about to put it there.  *)
Owed(p) ==
  \/ p \in InList
  \/ \E k \in 1 .. Depth : stack[k].op \in {"diedOut", "diedErr"} /\ stack[k].p = p

ChangesState(p) == status[p] # "dead" /\ status'[p] # status[p]

Notified(p) ==
  /\ TopIs("dispatch") \/ TopIs("notify1")
  /\ Len(stack') >= Depth
  /\ stack'[Len(stack')] = FP("notify", p)

(* The notify function is called "each time the process changes state": a   *)
(* process that has changed its state is owed a notification from then on   *)
(* until its notify function is called, whatever is queued or unlinked      *)
(* around it.                                                               *)
NotificationKept ==
  [][\A p \in Proc : Owed(p) \/ ChangesState(p) => Owed(p)' \/ Notified(p)]_vars

(* Every child that ends is eventually found dead by the process object.    *)
EveryExitSeen ==
  \A p \in Proc : child[p] = "zombie" ~> child[p] # "zombie"

(* call-process returns once its child has ended.                           *)
CallReturns ==
  \A p \in Proc : (TopIs("sync") /\ Top.p = p /\ child[p] # "running") ~> ~OnStack("sync")

=============================================================================
