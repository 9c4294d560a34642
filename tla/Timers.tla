------------------------------- MODULE Timers -------------------------------
(***************************************************************************)
(* One-shot timers of librep (src/src/timers.c): a delta list of pending   *)
(* timers shared between Lisp code and the SIGALRM handler, one interval   *)
(* timer, and a self-pipe that brings the expiry back to the event loop.   *)
(*                                                                         *)
(* A time is one number, secs * 1000 + msecs: fix_time() keeps every       *)
(* (secs, msecs) pair normalised, so the code's lexicographic comparisons  *)
(* and its pairwise sums are those of the totals.                          *)
(*                                                                         *)
(* The loops of insert_timer() and timer_fd_handler() are one step per     *)
(* iteration.  SIGALRM is blocked while `mode' is in Blocked, so an alarm  *)
(* that expires there stays pending.                                       *)
(***************************************************************************)
EXTENDS Integers, Sequences, SequencesExt

CONSTANTS
  Timer,      \* the timer objects Lisp may allocate
  NoTimer,    \* no timer
  MaxPeriod,  \* bound on the period a Lisp call asks for
  PipeMax,    \* bound on unread wakeups in the pipe
  MaxNest     \* bound on nested activations of timer_fd_handler

ASSUME TimersAssumption ==
  /\ NoTimer \notin Timer
  /\ MaxPeriod \in Nat \ {0}
  /\ PipeMax \in Nat \ {0}
  /\ MaxNest \in Nat \ {0}

VARIABLES
  chain,      \* timer_chain, through the next field
  rel,        \* rel_secs, rel_msecs: delay after the predecessor in chain
  period,     \* secs, msecs
  fired,      \* the timers whose fired flag is set
  deleted,    \* the timers whose deleted flag is set
  allocated,  \* allocated_timers
  held,       \* timers some live Lisp value refers to
  itimer,     \* remaining time of ITIMER_REAL, 0 when it is not running
  sigalrm,    \* disposition of SIGALRM
  pending,    \* SIGALRM has been raised and not yet delivered
  pipe,       \* words written to pipe_fds[1] and not yet read
  mode,       \* what the interpreter thread is doing
  ins,        \* the timer insert_timer() works on
  ptr,        \* position of insert_timer()'s ptr in chain
  frames,     \* active timer_fd_handler calls: the timers[] array and i
  thrown      \* rep_throw_value is set

timerVars == <<chain, rel, period, fired, deleted>>
lispVars == <<allocated, held>>
kernelVars == <<itimer, sigalrm, pending>>
insVars == <<ins, ptr>>
vars == <<timerVars, lispVars, kernelVars, pipe, mode, insVars, frames, thrown>>

Modes == {"lisp", "reinsert", "insert", "read", "collect", "dispatch", "exited"}
Blocked == {"insert", "collect"}
Frame == [timers : Seq(Timer), i : Nat]

TypeOK ==
  /\ chain \in Seq(Timer)
  /\ rel \in [Timer -> Nat]
  /\ period \in [Timer -> Nat]
  /\ fired \in SUBSET Timer
  /\ deleted \in SUBSET Timer
  /\ allocated \in SUBSET Timer
  /\ held \in SUBSET Timer
  /\ itimer \in Nat
  /\ sigalrm \in {"default", "ignore", "handler"}
  /\ pending \in BOOLEAN
  /\ pipe \in 0 .. PipeMax
  /\ mode \in Modes
  /\ ins \in Timer \cup {NoTimer}
  /\ mode \in {"insert", "reinsert"} => ins \in Timer
  /\ ptr \in Nat
  /\ frames \in Seq(Frame)
  /\ mode = "dispatch" => frames # <<>>
  /\ thrown \in BOOLEAN

Init ==
  /\ chain = <<>>
  /\ rel = [t \in Timer |-> 0]
  /\ period = [t \in Timer |-> 0]
  /\ fired = {}
  /\ deleted = {}
  /\ allocated = {}
  /\ held = {}
  /\ itimer = 0
  /\ sigalrm = "default"
  /\ pending = FALSE
  /\ pipe = 0
  /\ mode = "lisp"
  /\ ins = NoTimer
  /\ ptr = 1
  /\ frames = <<>>
  /\ thrown = FALSE

-----------------------------------------------------------------------------
(* The kernel: ITIMER_REAL counts down and raises SIGALRM.  A blocked       *)
(* SIGALRM is kept even when its disposition is to ignore it; an unblocked  *)
(* one that is ignored is dropped.                                          *)

Tick ==
  /\ mode # "exited"
  /\ itimer > 0
  /\ itimer' = itimer - 1
  /\ IF itimer = 1 /\ (sigalrm = "handler" \/ mode \in Blocked)
     THEN pending' = TRUE
     ELSE UNCHANGED pending
  /\ UNCHANGED <<timerVars, lispVars, sigalrm, pipe, mode, insVars, frames, thrown>>

(* Mutant of SetupNextTimer: SIGALRM is not ignored when there is nothing   *)
(* to wait for.                                                             *)
SetupNextTimer_NoIgnore(c, r) ==
  IF c # <<>> /\ r[c[1]] > 0
  THEN /\ itimer' = r[c[1]]
       /\ sigalrm' = "handler"
       /\ UNCHANGED pending
  ELSE UNCHANGED kernelVars

(* setup_next_timer(), with c and r the chain and the delays it sees.  The  *)
(* interval timer is not stopped on the SIG_IGN path, but setting SIG_IGN   *)
(* discards a pending SIGALRM.                                              *)
SetupNextTimer(c, r) ==
  IF c # <<>> /\ r[c[1]] > 0
  THEN /\ itimer' = r[c[1]]
       /\ sigalrm' = "handler"
       /\ UNCHANGED pending
  ELSE /\ sigalrm' = "ignore"
       /\ pending' = FALSE
       /\ UNCHANGED itimer

(* Mutant of TimerSignalHandler: the scan does not stop at the first timer  *)
(* with a delay of its own.                                                 *)
TimerSignalHandler_NoStop ==
  /\ pending
  /\ sigalrm = "handler"
  /\ mode \notin Blocked \cup {"exited"}
  /\ chain # <<>>
  /\ pipe < PipeMax
  /\ pending' = FALSE
  /\ rel' = [rel EXCEPT ![chain[1]] = 0]
  /\ fired' = fired \cup {t \in ToSet(chain) : rel'[t] = 0}
  /\ pipe' = pipe + 1
  /\ UNCHANGED <<chain, period, deleted, lispVars, itimer, sigalrm, mode,
                 insVars, frames, thrown>>

(* timer_signal_handler(): the head of the chain and every timer due at the *)
(* same instant are marked fired, and a word goes down the pipe.            *)
TimerSignalHandler ==
  /\ pending
  /\ sigalrm = "handler"
  /\ mode \notin Blocked \cup {"exited"}
  /\ chain # <<>>
  /\ pipe < PipeMax
  /\ pending' = FALSE
  /\ rel' = [rel EXCEPT ![chain[1]] = 0]
  /\ fired' = fired \cup {chain[i] : i \in {k \in 1 .. Len(chain) :
                                \A j \in 2 .. k : rel[chain[j]] = 0}}
  /\ pipe' = pipe + 1
  /\ UNCHANGED <<chain, period, deleted, lispVars, itimer, sigalrm, mode,
                 insVars, frames, thrown>>

(* An unblocked SIGALRM whose disposition is SIG_IGN. *)
IgnoreSignal ==
  /\ pending
  /\ sigalrm = "ignore"
  /\ mode \notin Blocked
  /\ pending' = FALSE
  /\ UNCHANGED <<timerVars, lispVars, itimer, sigalrm, pipe, mode, insVars,
                 frames, thrown>>

-----------------------------------------------------------------------------
(* insert_timer() *)

(* The conditional at its top: block SIGALRM and start at the head, or do   *)
(* nothing for a timer with no period.  Then its flags stay as they are,    *)
(* one of fs and ds.                                                        *)
BeginInsert(t, p, fs, ds) ==
  IF p > 0
  THEN /\ mode' = "insert"
       /\ ins' = t
       /\ ptr' = 1
       /\ rel' = [rel EXCEPT ![t] = p]
       /\ fired' = fired \ {t}
       /\ deleted' = deleted \ {t}
  ELSE /\ mode' = "lisp"
       /\ ins' = NoTimer
       /\ ptr' = 1
       /\ UNCHANGED rel
       /\ fired' \in fs
       /\ deleted' \in ds

(* The condition of the search loop: the timer at ptr is due no later. *)
DueNoLater == ptr <= Len(chain) /\ rel[chain[ptr]] <= rel[ins]

(* One iteration of the search loop. *)
InsertStep ==
  /\ mode = "insert"
  /\ DueNoLater
  /\ rel' = [rel EXCEPT ![ins] = @ - rel[chain[ptr]]]
  /\ ptr' = ptr + 1
  /\ UNCHANGED <<chain, period, fired, deleted, lispVars, kernelVars, pipe,
                 mode, ins, frames, thrown>>

(* Mutant of LinkTimer: the successor keeps its old delay. *)
LinkTimer_KeepDelay ==
  /\ mode = "insert"
  /\ ~DueNoLater
  /\ chain' = InsertAt(chain, ptr, ins)
  /\ IF ptr = 1 THEN SetupNextTimer(chain', rel)
                ELSE UNCHANGED kernelVars
  /\ mode' = "lisp"
  /\ ins' = NoTimer
  /\ ptr' = 1
  /\ UNCHANGED <<rel, period, fired, deleted, lispVars, pipe, frames, thrown>>

(* The loop's end: the successor's delay becomes relative to ins, ins is    *)
(* linked in, a new head is armed, and SIGALRM is unblocked.                *)
LinkTimer ==
  /\ mode = "insert"
  /\ ~DueNoLater
  /\ rel' = IF ptr <= Len(chain)
            THEN [rel EXCEPT ![chain[ptr]] = @ - rel[ins]]
            ELSE rel
  /\ chain' = InsertAt(chain, ptr, ins)
  /\ IF ptr = 1 THEN SetupNextTimer(chain', rel')
                ELSE UNCHANGED kernelVars
  /\ mode' = "lisp"
  /\ ins' = NoTimer
  /\ ptr' = 1
  /\ UNCHANGED <<period, fired, deleted, lispVars, pipe, frames, thrown>>

(* Mutant of UnlinkTimer: the alarm is only set up when no timer is left. *)
UnlinkTimer_NoRearm(t) ==
  /\ deleted' = deleted \cup {t}
  /\ IF \E i \in 1 .. Len(chain) : chain[i] = t
     THEN \E i \in 1 .. Len(chain) :
            /\ chain[i] = t
            /\ rel' = [u \in Timer |->
                         IF u = t THEN 0
                         ELSE IF i < Len(chain) /\ u = chain[i + 1]
                              THEN rel[u] + rel[t]
                              ELSE rel[u]]
            /\ chain' = RemoveAt(chain, i)
            /\ IF Len(chain) = 1 THEN SetupNextTimer(chain', rel')
                                 ELSE UNCHANGED kernelVars
     ELSE UNCHANGED <<chain, rel, kernelVars>>

(* delete_timer(t): flag it, and if it is linked give its delay to its      *)
(* successor, unlink it and re-arm when it was the head.                    *)
UnlinkTimer(t) ==
  /\ deleted' = deleted \cup {t}
  /\ IF \E i \in 1 .. Len(chain) : chain[i] = t
     THEN \E i \in 1 .. Len(chain) :
            /\ chain[i] = t
            /\ rel' = [u \in Timer |->
                         IF u = t THEN 0
                         ELSE IF i < Len(chain) /\ u = chain[i + 1]
                              THEN rel[u] + rel[t]
                              ELSE rel[u]]
            /\ chain' = RemoveAt(chain, i)
            /\ IF i = 1 THEN SetupNextTimer(chain', rel')
                        ELSE UNCHANGED kernelVars
     ELSE UNCHANGED <<chain, rel, kernelVars>>

-----------------------------------------------------------------------------
(* The Lisp functions.  Lisp code runs in mode "lisp": the callback of the  *)
(* innermost frame, or any other code when there is no frame.  A throw may  *)
(* be pending: SIGINT sets rep_throw_value at any instant, and compiled     *)
(* code goes on calling primitives until one of them returns an error.      *)

LispRuns == mode = "lisp"

(* make-timer: insert_timer() is all that initialises the flags of the      *)
(* malloc'd object.                                                         *)
MakeTimer(t, p) ==
  /\ LispRuns
  /\ t \notin allocated
  /\ allocated' = allocated \cup {t}
  /\ held' = held \cup {t}
  /\ period' = [period EXCEPT ![t] = p]
  /\ BeginInsert(t, p, {fired \ {t}, fired \cup {t}}, {deleted \ {t}, deleted \cup {t}})
  /\ UNCHANGED <<chain, kernelVars, pipe, frames, thrown>>

(* delete-timer *)
DeleteTimer(t) ==
  /\ LispRuns
  /\ t \in held
  /\ UnlinkTimer(t)
  /\ UNCHANGED <<period, fired, lispVars, pipe, mode, insVars, frames, thrown>>

(* set-timer: delete_timer(), the new period if one is given, and then      *)
(* insert_timer().  SIGALRM is unblocked between the two.                   *)
SetTimer(t, p) ==
  /\ LispRuns
  /\ t \in held
  /\ UnlinkTimer(t)
  /\ period' = [period EXCEPT ![t] = p]
  /\ mode' = "reinsert"
  /\ ins' = t
  /\ ptr' = 1
  /\ UNCHANGED <<fired, lispVars, pipe, frames, thrown>>

SetTimerInsert ==
  /\ mode = "reinsert"
  /\ BeginInsert(ins, period[ins], {fired}, {deleted})
  /\ UNCHANGED <<chain, period, lispVars, kernelVars, pipe, frames, thrown>>

(* Lisp forgets its last reference to a timer. *)
DropReference(t) ==
  /\ LispRuns
  /\ t \in held
  /\ held' = held \ {t}
  /\ UNCHANGED <<timerVars, allocated, kernelVars, pipe, mode, insVars, frames,
                 thrown>>

(* A garbage collection: timer_mark_active() marks the chain, the frames'   *)
(* arrays are GC roots, and timer_sweep() frees what is not marked.  The    *)
(* fields of a freed timer mean nothing until make-timer() sets them again. *)
RootsOfFrames == UNION {ToSet(frames[k].timers) : k \in DOMAIN frames}

(* Mutant of Marked: timer_mark_active() is missing. *)
Marked_NoActive == held \cup RootsOfFrames

Marked == held \cup ToSet(chain) \cup RootsOfFrames

GarbageCollect ==
  /\ LispRuns
  /\ allocated' = allocated \cap Marked
  /\ allocated' # allocated
  /\ rel' = [t \in Timer |-> IF t \in allocated' THEN rel[t] ELSE 0]
  /\ period' = [t \in Timer |-> IF t \in allocated' THEN period[t] ELSE 0]
  /\ fired' = fired \cap allocated'
  /\ deleted' = deleted \cap allocated'
  /\ UNCHANGED <<chain, held, kernelVars, pipe, mode, insVars, frames, thrown>>

(* Lisp code signals an error or throws, or SIGINT arrives. *)
Throw ==
  /\ LispRuns
  /\ ~thrown
  /\ thrown' = TRUE
  /\ UNCHANGED <<timerVars, lispVars, kernelVars, pipe, mode, insVars, frames>>

(* The event loop, or a handler established by the Lisp code, takes the     *)
(* exception.                                                               *)
HandleException ==
  /\ mode = "lisp"
  /\ thrown
  /\ thrown' = FALSE
  /\ UNCHANGED <<timerVars, lispVars, kernelVars, pipe, mode, insVars, frames>>

-----------------------------------------------------------------------------
(* timer_fd_handler(), called by the event loop (a nested one when a        *)
(* callback runs it) while the pipe is readable.                            *)

FdRead ==
  /\ LispRuns
  /\ ~thrown
  /\ pipe > 0
  /\ Len(frames) < MaxNest
  /\ pipe' = pipe - 1
  /\ mode' = "read"
  /\ UNCHANGED <<timerVars, lispVars, kernelVars, insVars, frames, thrown>>

(* sigprocmask(SIG_BLOCK): from here on SIGALRM stays pending. *)
FdBlock ==
  /\ mode = "read"
  /\ mode' = "collect"
  /\ frames' = Append(frames, [timers |-> <<>>, i |-> 1])
  /\ UNCHANGED <<timerVars, lispVars, kernelVars, pipe, insVars, thrown>>

HeadFired == chain # <<>> /\ chain[1] \in fired

(* One fired timer moves from the chain to the array. *)
FdCollect ==
  /\ mode = "collect"
  /\ HeadFired
  /\ frames' = [frames EXCEPT ![Len(frames)].timers = Append(@, chain[1])]
  /\ chain' = Tail(chain)
  /\ UNCHANGED <<rel, period, fired, deleted, lispVars, kernelVars, pipe, mode,
                 insVars, thrown>>

(* Mutant of FdArm: the next timer is not armed. *)
FdArm_NoSetup ==
  /\ mode = "collect"
  /\ ~HeadFired
  /\ mode' = "dispatch"
  /\ UNCHANGED <<timerVars, lispVars, kernelVars, pipe, insVars, frames, thrown>>

(* No fired timer is left at the head: arm the next one and unblock. *)
FdArm ==
  /\ mode = "collect"
  /\ ~HeadFired
  /\ SetupNextTimer(chain, rel)
  /\ mode' = "dispatch"
  /\ UNCHANGED <<timerVars, lispVars, pipe, insVars, frames, thrown>>

Current == frames[Len(frames)]
CurrentTimer == Current.timers[Current.i]

(* Call the function of timers[i]: the callback is handed the timer.        *)
FdCall ==
  /\ mode = "dispatch"
  /\ Current.i <= Len(Current.timers)
  /\ CurrentTimer \notin deleted
  /\ mode' = "lisp"
  /\ held' = held \cup {CurrentTimer}
  /\ UNCHANGED <<timerVars, allocated, kernelVars, pipe, insVars, frames, thrown>>

(* A deleted timer is passed over.  So is the rest of the array when an     *)
(* earlier callback left a throw pending and the function is interpreted,   *)
(* since rep_apply() then returns at once; a compiled function is entered.  *)
FdSkip ==
  /\ mode = "dispatch"
  /\ Current.i <= Len(Current.timers)
  /\ CurrentTimer \in deleted \/ thrown
  /\ frames' = [frames EXCEPT ![Len(frames)].i = @ + 1]
  /\ UNCHANGED <<timerVars, lispVars, kernelVars, pipe, mode, insVars, thrown>>

(* The callback returns, normally or with a throw pending. *)
CallbackReturn ==
  /\ mode = "lisp"
  /\ frames # <<>>
  /\ mode' = "dispatch"
  /\ frames' = [frames EXCEPT ![Len(frames)].i = @ + 1]
  /\ UNCHANGED <<timerVars, lispVars, kernelVars, pipe, insVars, thrown>>

(* rep_POPGCN: back to the event loop. *)
FdReturn ==
  /\ mode = "dispatch"
  /\ Current.i > Len(Current.timers)
  /\ frames' = SubSeq(frames, 1, Len(frames) - 1)
  /\ mode' = "lisp"
  /\ UNCHANGED <<timerVars, lispVars, kernelVars, pipe, insVars, thrown>>

(* rep_dl_kill(), when the interpreter exits. *)
Kill ==
  /\ mode = "lisp"
  /\ frames = <<>>
  /\ mode' = "exited"
  /\ sigalrm' = "ignore"
  /\ pending' = FALSE
  /\ pipe' = 0
  /\ UNCHANGED <<timerVars, lispVars, itimer, insVars, frames, thrown>>

Exited == mode = "exited" /\ UNCHANGED vars

-----------------------------------------------------------------------------
LispCall ==
  \E t \in Timer :
    \/ \E p \in 0 .. MaxPeriod : MakeTimer(t, p) \/ SetTimer(t, p)
    \/ DeleteTimer(t)
    \/ DropReference(t)

Alarm == Tick \/ TimerSignalHandler \/ IgnoreSignal

InsertTimer == InsertStep \/ LinkTimer \/ SetTimerInsert

TimerFdHandler ==
  FdRead \/ FdBlock \/ FdCollect \/ FdArm \/ FdCall \/ FdSkip \/ FdReturn

Next ==
  \/ Alarm
  \/ LispCall
  \/ InsertTimer
  \/ GarbageCollect
  \/ Throw
  \/ HandleException
  \/ TimerFdHandler
  \/ CallbackReturn
  \/ Kill
  \/ Exited

Spec == Init /\ [][Next]_vars

(* The clock advances, the kernel delivers an unblocked signal, and the     *)
(* interpreter thread runs: insert_timer() and timer_fd_handler() complete, *)
(* callbacks return and the event loop gets to a readable pipe.             *)
FairSpec ==
  /\ Spec
  /\ WF_vars(Alarm)
  /\ WF_vars(InsertTimer)
  /\ WF_vars(HandleException)
  /\ WF_vars(TimerFdHandler)
  /\ WF_vars(CallbackReturn)

=============================================================================
