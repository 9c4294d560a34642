------------------------------ MODULE Processes ------------------------------
(***************************************************************************)
(* Subprocesses of librep (src/src/processes.c): process objects, the      *)
(* SIGCHLD flag, the list of notifications, and the descriptors that carry *)
(* a child's output to Lisp.                                               *)
(*                                                                         *)
(* The interpreter is one thread.  `stack' holds the C functions of        *)
(* processes.c that are active, innermost last, each waiting for the Lisp  *)
(* code it called or for the function above it; Lisp code runs when the    *)
(* stack is empty or ends with a "lisp" frame.  CallbackOps says what the  *)
(* Lisp functions called from C (output streams, notify functions) do.     *)
(*                                                                         *)
(* Data is abstracted: `unread' counts blocks of output, stdin carries no  *)
(* state, and a descriptor is the lowest free number, as in POSIX.         *)
(***************************************************************************)
EXTENDS Naturals, Sequences, FiniteSets, FiniteSetsExt

CONSTANTS
  Proc,         \* process objects Lisp may allocate
  NoProc,       \* the null pointer
  MaxFd,        \* bound on open descriptors
  MaxUnread,    \* capacity of a pipe, in blocks
  MaxStarts,    \* bound on the children that are started
  MaxNest,      \* bound on callbacks that call back into processes.c
  ConnTypes,    \* the connection types Lisp selects
  StaleWords,   \* descriptor numbers a word of malloc'd memory may hold
  LispOps,      \* what Lisp code does outside callbacks
  CallbackOps   \* what Lisp code called back by processes.c does

Fd == 1 .. MaxFd
NoFd == 0
Conn == {"pipe", "pty", "socketpair"}
Signals == {"stop", "cont", "kill"}   \* the signals by their effect
Ops == {"start", "call", "close", "signal", "accept", "accept1", "gc", "drop", "throw"}

ASSUME ProcessesAssumption ==
  /\ NoProc \notin Proc /\ IsFiniteSet(Proc)
  /\ {MaxFd, MaxUnread, MaxStarts} \subseteq Nat \ {0}
  /\ MaxNest \in Nat
  /\ ConnTypes \subseteq Conn
  /\ StaleWords \subseteq Fd \cup {NoFd} /\ StaleWords # {}
  /\ LispOps \subseteq Ops
  /\ CallbackOps \subseteq LispOps

VARIABLES
  allocated,   \* process_list
  held,        \* process objects some live Lisp value refers to
  status,      \* the status bits of car
  conn,        \* connection_type
  out, err,    \* stdout_fd, stderr_fd
  notifyNext,  \* notify_next
  notifyList,  \* notify_list
  count,       \* active_process_count
  pending,     \* pending_sigchld
  child,       \* the child of each process object, as the kernel sees it
  news,        \* stopped children waitpid() has yet to report
  files,       \* what each open descriptor reads from
  stack,       \* active C functions
  thrown,      \* rep_throw_value is set
  starts       \* children started so far

objVars == <<allocated, held, status, conn>>
notifyVars == <<notifyNext, notifyList>>
childVars == <<child, news, pending>>
fdVars == <<out, err, files>>
vars == <<objVars, notifyVars, count, childVars, fdVars, stack, thrown, starts>>

Free == [owner |-> NoProc, unread |-> 0, writer |-> FALSE]
File == [owner : Proc \cup {NoProc}, unread : 0 .. MaxUnread, writer : BOOLEAN]

FrameOps == {"lisp", "notify", "reap", "dispatch", "diedOut", "diedErr", "read",
             "sync", "accept", "wait1", "reap1", "notify1", "exited", "hung", "crashed"}
Frame == [op : FrameOps, p : Proc \cup {NoProc}, fds : SUBSET Fd]

F(op) == [op |-> op, p |-> NoProc, fds |-> {}]
FP(op, p) == [op |-> op, p |-> p, fds |-> {}]
Reading(p, f) == [op |-> "read", p |-> p, fds |-> {f}]

TypeOK ==
  /\ allocated \in SUBSET Proc /\ held \in SUBSET Proc
  /\ status \in [Proc -> {"dead", "running", "stopped"}]
  /\ conn \in [Proc -> Conn]
  /\ out \in [Proc -> Fd \cup {NoFd}] /\ err \in [Proc -> Fd \cup {NoFd}]
  /\ notifyNext \in [Proc -> Proc \cup {NoProc}]
  /\ notifyList \in Proc \cup {NoProc}
  /\ count \in 0 .. MaxStarts
  /\ pending \in BOOLEAN
  /\ child \in [Proc -> {"none", "running", "stopped", "zombie"}]
  /\ news \in SUBSET Proc
  /\ files \in [Fd -> File]
  /\ stack \in Seq(Frame)
  /\ thrown \in BOOLEAN
  /\ starts \in 0 .. MaxStarts

Init ==
  /\ allocated = {} /\ held = {}
  /\ status = [p \in Proc |-> "dead"]
  /\ conn = [p \in Proc |-> "pipe"]
  /\ out = [p \in Proc |-> NoFd] /\ err = [p \in Proc |-> NoFd]
  /\ notifyNext = [p \in Proc |-> NoProc] /\ notifyList = NoProc
  /\ count = 0
  /\ pending = FALSE
  /\ child = [p \in Proc |-> "none"] /\ news = {}
  /\ files = [f \in Fd |-> Free]
  /\ stack = <<>>
  /\ thrown = FALSE
  /\ starts = 0

-----------------------------------------------------------------------------
(* The stack *)

Depth == Len(stack)
Top == stack[Depth]
TopIs(op) == Depth > 0 /\ Top.op = op
Below == SubSeq(stack, 1, Depth - 1)
Goto(frames) == stack' = Below \o frames
Push(frames) == stack' = stack \o frames

Callbacks == {k \in 1 .. Depth : stack[k].op \in {"lisp", "notify"}}
Enter(frames) == Cardinality(Callbacks) <= MaxNest /\ Push(frames)

LispRuns(op) ==
  /\ ~thrown
  /\ \/ stack = <<>> /\ op \in LispOps
     \/ Depth > 0 /\ Top.op \in {"lisp", "notify"} /\ op \in CallbackOps

-----------------------------------------------------------------------------
(* Descriptors *)

IsOpen(f) == files[f].owner # NoProc
Active(p) == status[p] # "dead"
Eof(f) == IsOpen(f) /\ files[f].unread = 0 /\ ~files[f].writer
Readable(f) == IsOpen(f) /\ (files[f].unread > 0 \/ ~files[f].writer)
FreeFds == {f \in Fd : ~IsOpen(f)}
Closed(fs) == [f \in Fd |-> IF f \in fs THEN Free ELSE files[f]]

(* close_files(p) *)
CloseFiles(p) ==
  /\ files' = Closed({out[p], err[p]} \ {NoFd})
  /\ out' = [out EXCEPT ![p] = NoFd]
  /\ err' = [err EXCEPT ![p] = NoFd]

-----------------------------------------------------------------------------
(* Notifications.  notify_next doubles as the queued flag, but it is also   *)
(* null at the end of the list.                                             *)

Queued(p) == notifyNext[p] # NoProc

(* The processes met by following notify_list: Walk[k] after k links. *)
Size == Cardinality(Proc)
Walk ==
  LET W[k \in 0 .. Size] == IF k = 0 THEN notifyList
                            ELSE IF W[k - 1] = NoProc THEN NoProc
                            ELSE notifyNext[W[k - 1]]
  IN W
InList == {Walk[k] : k \in 0 .. Size} \ {NoProc}

(* Mutant of QueueNotification: the rest of the list is cut off. *)
QueueNotification_Cut(p) ==
  IF Queued(p)
  THEN UNCHANGED notifyVars
  ELSE /\ notifyNext' = [notifyNext EXCEPT ![p] = NoProc]
       /\ notifyList' = p

(* queue_notification(p) *)
QueueNotification(p) ==
  IF Queued(p)
  THEN UNCHANGED notifyVars
  ELSE /\ notifyNext' = [notifyNext EXCEPT ![p] = notifyList]
       /\ notifyList' = p

(* One iteration of dispatch_notifications(). *)
Dispatch ==
  /\ TopIs("dispatch")
  /\ notifyList # NoProc
  /\ ~thrown
  /\ notifyList' = notifyNext[notifyList]
  /\ notifyNext' = [notifyNext EXCEPT ![notifyList] = NoProc]
  /\ Push(<<FP("notify", notifyList)>>)
  /\ UNCHANGED <<objVars, count, childVars, fdVars, thrown, starts>>

DispatchDone ==
  /\ TopIs("dispatch")
  /\ notifyList = NoProc \/ thrown
  /\ Goto(<<>>)
  /\ UNCHANGED <<objVars, notifyVars, count, childVars, fdVars, thrown, starts>>

-----------------------------------------------------------------------------
(* handle_process_events().  It returns at once unless a SIGCHLD came.      *)

HandleProcessEvents == IF pending THEN <<F("reap")>> ELSE <<>>

(* waitpid() reports a stopped child.  A child with something to report     *)
(* always belongs to an active process: that is what reporting ends.        *)
ReapStopped(p) ==
  /\ TopIs("reap")
  /\ count > 0
  /\ child[p] = "stopped"
  /\ p \in news
  /\ news' = news \ {p}
  /\ status' = [status EXCEPT ![p] = "stopped"]
  /\ QueueNotification(p)
  /\ UNCHANGED <<allocated, held, conn, count, child, pending, fdVars, stack,
                 thrown, starts>>

(* Mutant of ReapDead: the output is not read before the files are closed. *)
ReapDead_NoDrain(p) ==
  /\ TopIs("reap")
  /\ count > 0
  /\ child[p] = "zombie"
  /\ child' = [child EXCEPT ![p] = "none"]
  /\ count' = count - 1
  /\ status' = [status EXCEPT ![p] = "dead"]
  /\ Push(<<FP("diedErr", p)>>)
  /\ UNCHANGED <<allocated, held, conn, notifyVars, pending, news, fdVars, thrown, starts>>

(* waitpid() reports a dead child: what it wrote is read first. *)
ReapDead(p) ==
  /\ TopIs("reap")
  /\ count > 0
  /\ child[p] = "zombie"
  /\ child' = [child EXCEPT ![p] = "none"]
  /\ count' = count - 1
  /\ status' = [status EXCEPT ![p] = "dead"]
  /\ Push(<<FP("diedOut", p)>> \o (IF out[p] # NoFd THEN <<Reading(p, out[p])>> ELSE <<>>))
  /\ UNCHANGED <<allocated, held, conn, notifyVars, pending, news, fdVars, thrown, starts>>

(* Back from reading stdout: read stderr if it is a stream of its own. *)
DiedOut ==
  /\ TopIs("diedOut")
  /\ LET p == Top.p IN
       Goto(<<FP("diedErr", p)>> \o
            (IF err[p] \notin {NoFd, out[p]} THEN <<Reading(p, err[p])>> ELSE <<>>))
  /\ UNCHANGED <<objVars, notifyVars, count, childVars, fdVars, thrown, starts>>

(* Back from reading stderr: close what is left open and notify. *)
DiedErr ==
  /\ TopIs("diedErr")
  /\ CloseFiles(Top.p)
  /\ QueueNotification(Top.p)
  /\ Goto(<<>>)
  /\ UNCHANGED <<objVars, count, childVars, thrown, starts>>

(* Mutant of ReapDone: the loop stops at the last active process. *)
ReapDone_OffByOne ==
  /\ TopIs("reap")
  /\ \/ count <= 1
     \/ news = {} /\ \A p \in Proc : child[p] # "zombie"
  /\ Goto(<<>>)
  /\ UNCHANGED <<objVars, notifyVars, count, childVars, fdVars, thrown, starts>>

(* The loop ends when waitpid() has nothing to report. *)
ReapDone ==
  /\ TopIs("reap")
  /\ \/ count = 0
     \/ news = {} /\ \A p \in Proc : child[p] # "zombie"
  /\ Goto(<<>>)
  /\ UNCHANGED <<objVars, notifyVars, count, childVars, fdVars, thrown, starts>>

-----------------------------------------------------------------------------
(* read_from_process_fd(): its local fd and stream outlive what the Lisp    *)
(* functions it calls do to the process.                                    *)

TheFd == CHOOSE f \in Top.fds : TRUE

(* A block is read and goes to the stream: a Lisp function, unless it is    *)
(* discarded or a throw is pending.                                         *)
ReadBlock ==
  /\ TopIs("read")
  /\ files[TheFd].unread > 0
  /\ files' = [files EXCEPT ![TheFd].unread = 0]
  /\ \/ ~thrown /\ Push(<<FP("lisp", Top.p)>>)
     \/ UNCHANGED stack
  /\ UNCHANGED <<objVars, notifyVars, count, childVars, out, err, thrown, starts>>

ReadWouldBlock ==
  /\ TopIs("read")
  /\ IsOpen(TheFd) /\ files[TheFd].unread = 0 /\ files[TheFd].writer
  /\ Goto(<<>>)
  /\ UNCHANGED <<objVars, notifyVars, count, childVars, fdVars, thrown, starts>>

(* Mutant of ReadEnd: a field that still names the descriptor is kept. *)
ReadEnd_KeepOut ==
  /\ TopIs("read")
  /\ ~IsOpen(TheFd) \/ Eof(TheFd)
  /\ files' = Closed({TheFd})
  /\ err' = [err EXCEPT ![Top.p] = IF @ = TheFd THEN NoFd ELSE @]
  /\ Goto(<<>>)
  /\ UNCHANGED <<objVars, notifyVars, count, childVars, out, thrown, starts>>

(* End of file, or the error of a descriptor closed in the meantime. *)
ReadEnd ==
  /\ TopIs("read")
  /\ ~IsOpen(TheFd) \/ Eof(TheFd)
  /\ files' = Closed({TheFd})
  /\ out' = [out EXCEPT ![Top.p] = IF @ = TheFd THEN NoFd ELSE @]
  /\ err' = [err EXCEPT ![Top.p] = IF @ = TheFd THEN NoFd ELSE @]
  /\ Goto(<<>>)
  /\ UNCHANGED <<objVars, notifyVars, count, childVars, thrown, starts>>

(* read_from_fd(), the input action of a descriptor that is ready. *)
ReadFromFd(p, frames) ==
  \E f \in {out[p], err[p]} \ {NoFd} :
    /\ p \in allocated /\ Active(p)
    /\ \A k \in 1 .. Depth : stack[k].op = "sync" => f \notin stack[k].fds
    /\ Readable(f)
    /\ Enter(frames \o <<Reading(p, f)>>)

(* Mutant of EventLoopCallback: handle_process_events() is not called. *)
EventLoopCallback_NoReap ==
  /\ stack = <<>>
  /\ ~thrown
  /\ pending \/ notifyList # NoProc
  /\ Push(<<F("dispatch")>>)
  /\ UNCHANGED <<objVars, notifyVars, count, childVars, fdVars, thrown, starts>>

(* The event loop: input handlers run, and event_loop_callback() after each *)
(* batch of input or timeout.                                               *)
EventLoopCallback ==
  /\ stack = <<>>
  /\ ~thrown
  /\ pending \/ notifyList # NoProc
  /\ pending' = FALSE
  /\ Push(<<F("dispatch")>> \o HandleProcessEvents)
  /\ UNCHANGED <<objVars, notifyVars, count, child, news, fdVars, thrown, starts>>

EventLoopInput ==
  /\ stack = <<>>
  /\ ~thrown
  /\ \E p \in Proc : ReadFromFd(p, <<>>)
  /\ UNCHANGED <<objVars, notifyVars, count, childVars, fdVars, thrown, starts>>

-----------------------------------------------------------------------------
(* Lisp functions *)

(* make-process: stderr_fd is not initialised. *)
MakeProcess(p) ==
  /\ LispRuns("start")
  /\ p \notin allocated
  /\ allocated' = allocated \cup {p}
  /\ held' = held \cup {p}
  /\ status' = [status EXCEPT ![p] = "dead"]
  /\ conn' = [conn EXCEPT ![p] = "pipe"]
  /\ notifyNext' = [notifyNext EXCEPT ![p] = NoProc]
  /\ out' = [out EXCEPT ![p] = NoFd]
  /\ \E f \in StaleWords : err' = [err EXCEPT ![p] = f]
  /\ UNCHANGED <<notifyList, count, childVars, files, stack, thrown, starts>>

(* set-process-connection-type! *)
SetConnectionType(p, c) ==
  /\ LispRuns("start")
  /\ p \in held
  /\ ~Active(p)
  /\ conn[p] # c
  /\ conn' = [conn EXCEPT ![p] = c]
  /\ UNCHANGED <<allocated, held, status, notifyVars, count, childVars, fdVars,
                 stack, thrown, starts>>

(* run_process(): the descriptors, the fork and the new status.  A pseudo   *)
(* terminal is one descriptor, everything else uses a pipe for each stream. *)
RunProcess(p, pty) ==
  /\ p \in held
  /\ ~Active(p)
  /\ starts < MaxStarts
  /\ Cardinality(FreeFds) >= 2
  /\ LET o == Min(FreeFds)
         e == IF pty THEN o ELSE Min(FreeFds \ {o})
     IN /\ out' = [out EXCEPT ![p] = o]
        /\ err' = [err EXCEPT ![p] = e]
        /\ files' = [f \in Fd |-> IF f \in {o, e}
                                  THEN [owner |-> p, unread |-> 0, writer |-> TRUE]
                                  ELSE files[f]]
  /\ conn' = [conn EXCEPT ![p] = IF pty THEN @ ELSE "pipe"]
  /\ status' = [status EXCEPT ![p] = "running"]
  /\ child' = [child EXCEPT ![p] = "running"]
  /\ count' = count + 1
  /\ starts' = starts + 1

(* start-process *)
StartProcess(p) ==
  /\ LispRuns("start")
  /\ RunProcess(p, conn[p] = "pty")
  /\ UNCHANGED <<allocated, held, notifyVars, pending, news, stack, thrown>>

(* start-process or call-process when a descriptor cannot be opened (the    *)
(* fields are left as they were) or the fork fails (they are reset).        *)
StartFails(p) ==
  /\ LispRuns("start") /\ LispRuns("throw")
  /\ p \in held
  /\ ~Active(p)
  /\ conn' = [conn EXCEPT ![p] = IF @ = "pty" THEN @ ELSE "pipe"]
  /\ \/ UNCHANGED <<out, err>>
     \/ /\ out' = [out EXCEPT ![p] = NoFd]
        /\ err' = [err EXCEPT ![p] = NoFd]
  /\ thrown' = TRUE
  /\ UNCHANGED <<allocated, held, status, notifyVars, count, childVars, files,
                 stack, starts>>

(* call-process: run_process() goes on to read_synchronous_output(). *)
CallProcess(p) ==
  /\ LispRuns("call")
  /\ RunProcess(p, FALSE)
  /\ Enter(<<[op |-> "sync", p |-> p, fds |-> {out'[p], err'[p]}]>>)
  /\ UNCHANGED <<allocated, held, notifyVars, pending, news, thrown>>

(* One iteration of read_synchronous_output(), which selects on the set of  *)
(* descriptors it began with and tests the process' fields: once one of     *)
(* them has been closed select() fails, and the loop makes no progress.     *)
SyncSelect(f) ==
  /\ TopIs("sync")
  /\ f \in Top.fds \cap {out[Top.p], err[Top.p]}
  /\ Readable(f)
  /\ \A g \in Top.fds : IsOpen(g)

SyncRead ==
  \E f \in Fd :
    /\ SyncSelect(f)
    /\ files[f].unread > 0
    /\ files' = [files EXCEPT ![f].unread = 0]
    /\ \/ ~thrown /\ Push(<<FP("lisp", Top.p)>>)
       \/ UNCHANGED stack
    /\ UNCHANGED <<objVars, notifyVars, count, childVars, out, err, thrown, starts>>

(* Mutant of SyncEof: the end of stderr is not noticed. *)
SyncEof_OutOnly ==
  \E f \in Fd :
    /\ SyncSelect(f)
    /\ Eof(f) /\ f = out[Top.p]
    /\ Goto(<<[Top EXCEPT !.fds = @ \ {f}]>>)
    /\ UNCHANGED <<objVars, notifyVars, count, childVars, fdVars, thrown, starts>>

SyncEof ==
  \E f \in Fd :
    /\ SyncSelect(f)
    /\ Eof(f)
    /\ Goto(<<[Top EXCEPT !.fds = @ \ {f}]>>)
    /\ UNCHANGED <<objVars, notifyVars, count, childVars, fdVars, thrown, starts>>

(* Both streams have ended: close them and wait for the child.  The count   *)
(* of active processes is not decremented.                                  *)
SyncEnd ==
  /\ TopIs("sync")
  /\ Top.fds = {}
  /\ LET p == Top.p IN
       /\ child[p] \in {"zombie", "none"}
       /\ CloseFiles(p)
       /\ child' = [child EXCEPT ![p] = "none"]
       /\ status' = [status EXCEPT ![p] = "dead"]
       /\ QueueNotification(p)
  /\ Goto(<<>>)
  /\ UNCHANGED <<allocated, held, conn, count, news, pending, thrown, starts>>

(* close-process *)
CloseProcess(p) ==
  /\ LispRuns("close")
  /\ p \in held
  /\ CloseFiles(p)
  /\ UNCHANGED <<objVars, notifyVars, count, childVars, stack, thrown, starts>>

(* A child ends: the kernel closes its side of the descriptors and raises   *)
(* SIGCHLD.  sigchld_handler() only sets the flag, so it is part of the     *)
(* step that raises the signal.                                             *)
ChildEnds(p) ==
  /\ child[p] \in {"running", "stopped"}
  /\ child' = [child EXCEPT ![p] = "zombie"]
  /\ news' = news \ {p}
  /\ pending' = TRUE
  /\ files' = [f \in Fd |-> IF files[f].owner = p
                            THEN [files[f] EXCEPT !.writer = FALSE] ELSE files[f]]

(* What kill() in signal_process() does to the child of p.  A child that    *)
(* runs again raises SIGCHLD on some systems.                               *)
Kill(p, sig) ==
  \/ /\ sig = "stop" /\ child[p] = "running"
     /\ child' = [child EXCEPT ![p] = "stopped"]
     /\ news' = news \cup {p}
     /\ pending' = TRUE
     /\ UNCHANGED files
  \/ /\ sig = "cont" /\ child[p] = "stopped"
     /\ child' = [child EXCEPT ![p] = "running"]
     /\ news' = news \ {p}
     /\ pending' \in {pending, TRUE}
     /\ UNCHANGED files
  \/ sig = "kill" /\ ChildEnds(p)

Unaffected(p, sig) == sig = "cont" /\ child[p] # "stopped" /\ UNCHANGED <<childVars, files>>

(* do_signal_command(): any signal may be sent to an active process, and    *)
(* the status of the object is not touched.                                 *)
DoSignalCommand(p, sig) ==
  /\ Active(p)
  /\ Kill(p, sig)
  /\ UNCHANGED <<objVars, notifyVars, count, out, err, stack, thrown, starts>>

(* interrupt-process, kill-process, stop-process, and signal-process, which *)
(* also takes a process id and so reaches processes Lisp does not hold.     *)
SignalProcess(p, sig) ==
  /\ LispRuns("signal")
  /\ p \in allocated
  /\ DoSignalCommand(p, sig)

(* continue-process *)
ContinueProcess(p) ==
  /\ LispRuns("signal")
  /\ p \in held
  /\ status[p] = "stopped"
  /\ Kill(p, "cont") \/ Unaffected(p, "cont")
  /\ status' = [status EXCEPT ![p] = "running"]
  /\ QueueNotification(p)
  /\ UNCHANGED <<allocated, held, conn, count, out, err, stack, thrown, starts>>

(* accept-process-output: it waits for input only when nothing is waiting   *)
(* already, and runs the event loop's callbacks when something is.          *)
AcceptProcessOutput ==
  /\ LispRuns("accept")
  /\ IF pending \/ notifyList # NoProc
     THEN pending' = FALSE /\ Enter(<<F("dispatch")>> \o HandleProcessEvents)
     ELSE UNCHANGED pending /\ \E p \in Proc : ReadFromFd(p, <<F("accept")>>)
  /\ UNCHANGED <<objVars, notifyVars, count, child, news, fdVars, thrown, starts>>

(* handle_input(), back from an input handler, runs event_loop_callback(). *)
AcceptReturn ==
  /\ TopIs("accept")
  /\ IF thrown
     THEN UNCHANGED pending /\ Goto(<<>>)
     ELSE pending' = FALSE /\ Goto(<<F("dispatch")>> \o HandleProcessEvents)
  /\ UNCHANGED <<objVars, notifyVars, count, child, news, fdVars, thrown, starts>>

(* accept-process-output-1: handle_process_events(), wait for the process   *)
(* unless a notification is queued for it, handle_process_events() again,   *)
(* and notify_process().                                                    *)
AcceptProcessOutput1(p) ==
  /\ LispRuns("accept1")
  /\ p \in held
  /\ pending' = FALSE
  /\ Enter(<<FP("wait1", p)>> \o HandleProcessEvents)
  /\ UNCHANGED <<objVars, notifyVars, count, child, news, fdVars, thrown, starts>>

Wait1 ==
  /\ TopIs("wait1")
  /\ \/ Goto(<<FP("reap1", Top.p)>>)
     \/ /\ ~Queued(Top.p)
        /\ Active(Top.p)
        /\ \E f \in {out[Top.p], err[Top.p]} \ {NoFd} :
             /\ Readable(f)
             /\ Goto(<<FP("reap1", Top.p), F("accept"), Reading(Top.p, f)>>)
  /\ UNCHANGED <<objVars, notifyVars, count, childVars, fdVars, thrown, starts>>

Reap1 ==
  /\ TopIs("reap1")
  /\ pending' = FALSE
  /\ Goto(<<FP("notify1", Top.p)>> \o HandleProcessEvents)
  /\ UNCHANGED <<objVars, notifyVars, count, child, news, fdVars, thrown, starts>>

(* notify_process(): unlink p at the first link that leads to it.  The      *)
(* search runs off the end of a list that p is not on, or round it.         *)
Unlink(p) ==
  LET k == Min({i \in 0 .. Size : Walk[i] = p})
      q == Walk[k - 1]
  IN IF k = 0
     THEN /\ notifyList' = notifyNext[p]
          /\ notifyNext' = [notifyNext EXCEPT ![p] = NoProc]
     ELSE /\ notifyNext' = [notifyNext EXCEPT ![p] = NoProc, ![q] = notifyNext[p]]
          /\ UNCHANGED notifyList

Notify1 ==
  /\ TopIs("notify1")
  /\ \/ /\ ~Queued(Top.p)
        /\ Goto(<<>>)
        /\ UNCHANGED notifyVars
     \/ /\ Queued(Top.p) /\ Top.p \in InList
        /\ Unlink(Top.p)
        /\ Goto(IF thrown THEN <<>> ELSE <<FP("notify", Top.p)>>)
     \/ /\ Queued(Top.p) /\ Top.p \notin InList
        /\ Goto(<<F("crashed")>>)
        /\ UNCHANGED notifyVars
  /\ UNCHANGED <<objVars, count, childVars, fdVars, thrown, starts>>

(* A callback returns; any Lisp code or SIGINT may leave a throw pending,   *)
(* which the event loop handles.                                            *)
CallbackReturn ==
  /\ Depth > 0 /\ Top.op \in {"lisp", "notify"}
  /\ Goto(<<>>)
  /\ UNCHANGED <<objVars, notifyVars, count, childVars, fdVars, thrown, starts>>

Throw ==
  /\ LispRuns("throw")
  /\ thrown' = TRUE
  /\ UNCHANGED <<objVars, notifyVars, count, childVars, fdVars, stack, starts>>

HandleException ==
  /\ stack = <<>>
  /\ thrown
  /\ thrown' = FALSE
  /\ UNCHANGED <<objVars, notifyVars, count, childVars, fdVars, stack, starts>>

-----------------------------------------------------------------------------
(* Garbage collection *)

DropReference(p) ==
  /\ LispRuns("drop")
  /\ p \in held
  /\ held' = held \ {p}
  /\ UNCHANGED <<allocated, status, conn, notifyVars, count, childVars, fdVars,
                 stack, thrown, starts>>

(* process_mark_active() marks active processes; the arguments of a notify  *)
(* function and of accept-process-output-1 are roots, the variables of      *)
(* handle_process_events() and read_from_process_fd() are not.              *)
Marked ==
  held \cup {p \in allocated : Active(p)}
       \cup {stack[k].p : k \in {j \in 1 .. Depth :
                stack[j].op \in {"notify", "wait1", "reap1", "notify1", "sync"}}}

(* delete_process() on each of S: the children of the active ones are       *)
(* killed and waited for.                                                   *)
DeleteProcesses(S) ==
  LET A == {p \in S : Active(p)}
  IN /\ child' = [p \in Proc |-> IF p \in A THEN "none" ELSE child[p]]
     /\ news' = news \ A
     /\ count' = count - Cardinality(A)
     /\ files' = Closed((UNION {{out[p], err[p]} : p \in A}) \ {NoFd})
     /\ allocated' = allocated \ S

(* process_sweep(): the scan of notify_list overwrites the link it is about *)
(* to follow, so it ends at the first process that is marked; the others    *)
(* drop off the list with their links left in place.  It never ends on a    *)
(* list that comes back to an unmarked process.                             *)
MarkedAt == {k \in 0 .. Size : Walk[k] = NoProc \/ Walk[k] \in Marked}

GarbageCollect ==
  /\ LispRuns("gc")
  /\ \/ /\ MarkedAt # {}
        /\ LET kept == Walk[Min(MarkedAt)] IN
             /\ notifyList' = kept
             /\ notifyNext' = [p \in Proc |-> IF p = kept THEN NoProc ELSE notifyNext[p]]
        /\ DeleteProcesses(allocated \ Marked)
        /\ UNCHANGED stack
     \/ /\ MarkedAt = {}
        /\ Push(<<F("hung")>>)
        /\ UNCHANGED <<notifyVars, allocated, child, news, count, files>>
  /\ UNCHANGED <<held, status, conn, pending, out, err, thrown, starts>>

(* rep_processes_kill(), when the interpreter ends. *)
ProcessesKill ==
  /\ stack = <<>>
  /\ allocated # {}
  /\ DeleteProcesses(allocated)
  /\ held' = {}
  /\ Push(<<F("exited")>>)
  /\ UNCHANGED <<status, conn, notifyVars, pending, out, err, thrown, starts>>

(* The interpreter ended, crashed, is in an endless loop, or waits in the   *)
(* loop of read_synchronous_output().                                       *)
Stuck == Depth > 0 /\ Top.op \in {"exited", "hung", "crashed", "sync"} /\ UNCHANGED vars

-----------------------------------------------------------------------------
(* The children *)

ChildWrite(p) ==
  /\ child[p] = "running"
  /\ \E f \in Fd : /\ files[f].owner = p /\ files[f].writer
                   /\ files[f].unread < MaxUnread
                   /\ files' = [files EXCEPT ![f].unread = @ + 1]
  /\ UNCHANGED <<objVars, notifyVars, count, childVars, out, err, stack, thrown, starts>>

ChildExit(p) ==
  /\ ChildEnds(p)
  /\ UNCHANGED <<objVars, notifyVars, count, out, err, stack, thrown, starts>>

Finished ==
  /\ starts = MaxStarts /\ stack = <<>> /\ ~thrown /\ ~pending /\ notifyList = NoProc
  /\ \A p \in Proc : child[p] = "none"
  /\ UNCHANGED vars

-----------------------------------------------------------------------------
EventLoop == EventLoopCallback \/ EventLoopInput \/ HandleException

CCode ==
  \/ Dispatch \/ DispatchDone
  \/ \E p \in Proc : ReapStopped(p) \/ ReapDead(p)
  \/ ReapDone \/ DiedOut \/ DiedErr
  \/ ReadBlock \/ ReadWouldBlock \/ ReadEnd
  \/ SyncRead \/ SyncEof \/ SyncEnd
  \/ AcceptReturn \/ Wait1 \/ Reap1 \/ Notify1
  \/ CallbackReturn

LispCode ==
  \/ \E p \in Proc :
       \/ MakeProcess(p) \/ StartProcess(p) \/ StartFails(p) \/ CallProcess(p)
       \/ CloseProcess(p) \/ ContinueProcess(p)
       \/ \E sig \in Signals : SignalProcess(p, sig)
       \/ AcceptProcessOutput1(p) \/ DropReference(p)
       \/ \E c \in ConnTypes : SetConnectionType(p, c)
  \/ AcceptProcessOutput \/ Throw \/ GarbageCollect \/ ProcessesKill

Child == \E p \in Proc : ChildWrite(p) \/ ChildExit(p)

Next == EventLoop \/ CCode \/ LispCode \/ Child \/ Stuck \/ Finished

Spec == Init /\ [][Next]_vars

(* The interpreter's thread runs: C functions and callbacks return, the     *)
(* event loop calls back; and every child ends, stopped ones by a signal.   *)
FairSpec ==
  /\ Spec
  /\ WF_vars(CCode)
  /\ WF_vars(EventLoopCallback)
  /\ WF_vars(HandleException)
  /\ \A p \in Proc : WF_vars(ChildExit(p))

=============================================================================
