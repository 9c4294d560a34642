------------------------------ MODULE Sockets ------------------------------
(***************************************************************************)
(* Sockets of librep (src/src/sockets.c) and the part of the event loop    *)
(* that serves them (src/src/input.c).  A descriptor is watched, select()  *)
(* says which are ready, and handle_input() calls the handler of each in   *)
(* turn: a client is read until it has no more, every piece going to its   *)
(* stream function, and at the end of its input its sentinel is called; a  *)
(* server has its function called to accept a connection.                  *)
(*                                                                         *)
(* These functions are Lisp: they open, close, write to and wait for other *)
(* sockets, collect garbage and throw while the C code that called them    *)
(* holds descriptors and sockets.  What they may do to a socket that such  *)
(* a call is reading is the constant OwnOps.                               *)
(***************************************************************************)
EXTENDS Integers, SequencesExt

CONSTANTS
  Sock,          \* socket objects; memory is not used twice
  Fd,            \* descriptors, used again as soon as they are closed
  MaxChunk,      \* bound on the pieces a peer sends, and on connections asked
  MaxDepth,      \* bound on the calls in progress
  MaxServers,    \* bound on servers
  OwnOps,        \* "close", "write", "accept" on a socket that is being read
  None

ASSUME SocketsAssumption ==
  Fd \subseteq Nat /\ None \notin Sock \cup {"client", "server"} /\ MaxChunk \in Nat /\ MaxDepth \in Nat
  /\ OwnOps \subseteq {"close", "write", "accept"}

VARIABLES
  sock,          \* the rep_socket structures
  file,          \* the connection each descriptor stands for (kernel)
  conn,          \* what has come for each connection (kernel)
  input_actions, \* the handler of each watched descriptor, or None
  held,          \* sockets the Lisp program refers to
  stack,         \* calls in progress, the innermost last
  throwing,      \* rep_throw_value is set
  note           \* history: what has been told about each socket

vars == <<sock, file, conn, input_actions, held, stack, throwing, note>>

Unborn == [state |-> "unborn", fd |-> -1, active |-> FALSE, registered |-> FALSE,
           role |-> "client"]
Untouched == [came |-> 0, read |-> 0, eof |-> FALSE]
Silent == [got |-> <<>>, lost |-> 0, sentinel |-> 0, closed |-> FALSE]

Init ==
  /\ sock = [s \in Sock |-> Unborn]
  /\ file = [f \in Fd |-> None]
  /\ conn = [s \in Sock |-> Untouched]
  /\ input_actions = [f \in Fd |-> None]
  /\ held = {}
  /\ stack = <<>>
  /\ throwing = FALSE
  /\ note = [s \in Sock |-> Silent]

-----------------------------------------------------------------------------
(* Calls in progress *)

Frame(k, s, fd) == [k |-> k, s |-> s, fd |-> fd, rest |-> {}]
Handle(fds) == [k |-> "handle", s |-> None, fd |-> -1, rest |-> fds]
Busy == stack # <<>>
Top == Last(stack)
Lisp == {"stream", "server", "sentinel"}
\* Lisp code runs at the top level and in the functions that are called.
Runs == ~throwing /\ (Busy => Top.k \in Lisp)
Room == Len(stack) < MaxDepth

\* Sockets that client_socket_output() is reading further up the stack.
Reading == {stack[i].s : i \in {j \in 1 .. Len(stack) : stack[j].k = "read"}}
May(op, s) == Runs /\ s \in held /\ (s \in Reading => op \in OwnOps)

Active(s) == sock[s].state = "live" /\ sock[s].active
FreeFds == {f \in Fd : file[f] = None}
\* The kernel gives out the least descriptor that is free.
NewFd == CHOOSE f \in FreeFds : \A g \in FreeFds : f <= g
Unborns == {s \in Sock : sock[s].state = "unborn"}
NewSock == CHOOSE s \in Unborns : TRUE

Ready(f) ==
  LET c == conn[file[f]] IN file[f] # None /\ (c.came > c.read \/ c.eof)

-----------------------------------------------------------------------------
(* Opening and closing *)

Opened(s, fd, role) ==
  [Unborn EXCEPT !.state = "live", !.fd = fd, !.active = TRUE, !.registered = TRUE, !.role = role]

Open(s, fd, role) ==
  /\ sock' = [sock EXCEPT ![s] = Opened(s, fd, role)]
  /\ file' = [file EXCEPT ![fd] = s]
  /\ input_actions' = [input_actions EXCEPT ![fd] = role]
  /\ held' = held \cup {s}
  /\ UNCHANGED <<stack, throwing, note>>

MakeClientSocket ==
  /\ Runs /\ FreeFds # {} /\ Unborns # {}
  /\ Open(NewSock, NewFd, "client")
  /\ UNCHANGED conn

MakeServerSocket ==
  /\ Cardinality({s \in Sock : sock[s].role = "server"}) < MaxServers
  /\ Runs /\ FreeFds # {} /\ Unborns # {}
  /\ Open(NewSock, NewFd, "server")
  /\ UNCHANGED conn

\* connect(), bind() or listen() fails: the descriptor is closed again, and
\* the object, which nobody has, waits to be collected.
MakeSocketFails ==
  /\ Runs /\ FreeFds # {} /\ Unborns # {}
  /\ sock' = [sock EXCEPT ![NewSock] = [Unborn EXCEPT !.state = "live"]]
  /\ throwing' = TRUE
  /\ UNCHANGED <<file, conn, input_actions, held, stack, note>>

\* The file of a local socket is on another host, or a host has no address.
NameFails ==
  /\ Runs /\ throwing' = TRUE
  /\ UNCHANGED <<sock, file, conn, input_actions, held, stack, note>>

SocketClient == NameFails \/ MakeClientSocket
SocketServer == MakeServerSocket \/ MakeSocketFails

\* accept() on a server that is no longer ready gives nil.
SocketAccept(server) ==
  /\ Runs /\ server \in held /\ Active(server)
  /\ sock[server].role = "server" /\ conn[server].came > conn[server].read
  /\ FreeFds # {} /\ Unborns # {}
  /\ conn' = [conn EXCEPT ![server].read = @ + 1]
  /\ Open(NewSock, NewFd, "client")

\* shutdown_socket(): what is left of socket s, of the descriptors and of the
\* handlers.
ShutSock(s) == [sock EXCEPT ![s].fd = -1, ![s].active = FALSE]
ShutFile(s) == [f \in Fd |-> IF f = sock[s].fd THEN None ELSE file[f]]
\* Mutant: the descriptor is still watched.
ShutActions_Kept(s) == input_actions
ShutActions(s) == [f \in Fd |-> IF f = sock[s].fd /\ sock[s].registered THEN None ELSE input_actions[f]]
Shutdown(s) == sock' = ShutSock(s) /\ file' = ShutFile(s) /\ input_actions' = ShutActions(s)

CloseSocket(s) ==
  /\ May("close", s) /\ sock[s].active
  /\ Shutdown(s)
  /\ note' = [note EXCEPT ![s].closed = TRUE]
  /\ UNCHANGED <<conn, held, stack, throwing>>

\* A function that is called while a throw is pending: an interpreted one does
\* not run, compiled code does until it calls another function.
Called(pending) == IF pending THEN BOOLEAN ELSE {TRUE}

\* shutdown_socket_and_call_sentinel(), the last thing the innermost call does.
Sentinel(s, calls) ==
  /\ Shutdown(s)
  /\ \E runs \in Called(throwing') :
       IF runs
       THEN stack' = Append(calls, Frame("sentinel", s, -1)) /\ note' = [note EXCEPT ![s].sentinel = @ + 1]
       ELSE stack' = calls /\ note' = note

-----------------------------------------------------------------------------
(* Writing: blocking_write() ends when all is written or the write fails.   *)

WriteFails(s) ==
  /\ May("write", s) /\ Room /\ sock[s].role = "client"
  /\ throwing' = TRUE
  /\ IF sock[s].active
     THEN conn[s].eof /\ Sentinel(s, stack)
     ELSE UNCHANGED <<sock, file, input_actions, stack, note>>
  /\ UNCHANGED <<conn, held>>

-----------------------------------------------------------------------------
(* Waiting and handling *)

Watched == {f \in Fd : input_actions[f] # None}

EventLoop ==
  /\ ~Busy /\ ~throwing
  /\ LET ready == {f \in Watched : Ready(f)} IN
     stack' = IF ready = {} THEN stack ELSE <<Handle(ready)>>
  /\ UNCHANGED <<sock, file, conn, input_actions, held, throwing, note>>

\* rep_handle_input_exception(): the error is reported and forgotten.
HandleException ==
  /\ ~Busy /\ throwing
  /\ throwing' = FALSE
  /\ UNCHANGED <<sock, file, conn, input_actions, held, stack, note>>

\* accept-socket-output-1 looks at one descriptor, for no longer than a time
\* limit: with nothing there it returns.
AcceptSocketOutput(s) ==
  /\ May("accept", s) /\ Active(s) /\ Room /\ Len(stack) + 3 <= MaxDepth
  /\ sock[s].fd \in Watched /\ Ready(sock[s].fd)
  /\ stack' = Append(stack, Handle({sock[s].fd}))
  /\ UNCHANGED <<sock, file, conn, input_actions, held, throwing, note>>

Lowest(fds) == CHOOSE f \in fds : \A g \in fds : f <= g

\* Mutant: only the first ready descriptor is served.
HandleInput_First ==
  /\ Busy /\ Top.k = "handle"
  /\ IF throwing \/ Top.rest = {}
     THEN stack' = Front(stack)
     ELSE LET f == Lowest(Top.rest)
              calls == Append(Front(stack), [Top EXCEPT !.rest = {}])
              s == CHOOSE t \in Sock : sock[t].state = "live" /\ sock[t].fd = f
          IN stack' = CASE input_actions[f] = None -> calls
                        [] input_actions[f] = "client" -> Append(calls, Frame("read", s, f))
                        [] input_actions[f] = "server" -> Append(calls, Frame("server", s, -1))
  /\ UNCHANGED <<sock, file, conn, input_actions, held, throwing, note>>
\* One descriptor of the set select() gave, if it still has a handler; a throw
\* ends the loop.
HandleInput ==
  /\ Busy /\ Top.k = "handle"
  /\ IF throwing \/ Top.rest = {}
     THEN stack' = Front(stack)
     ELSE LET f == Lowest(Top.rest)
              calls == Append(Front(stack), [Top EXCEPT !.rest = @ \ {f}])
              s == CHOOSE t \in Sock : sock[t].state = "live" /\ sock[t].fd = f
          IN stack' = CASE input_actions[f] = None -> calls
                        [] input_actions[f] = "client" -> Append(calls, Frame("read", s, f))
                        [] input_actions[f] = "server" -> Append(calls, Frame("server", s, -1))
  /\ UNCHANGED <<sock, file, conn, input_actions, held, throwing, note>>

\* Mutant: the data of a read is passed on again by the next one.
ReadSome_Again ==
  LET f == Top.fd s == Top.s c == file[f] IN
  /\ Busy /\ Top.k = "read"
  /\ c # None /\ conn[c].came > conn[c].read /\ ~throwing
  /\ conn' = IF note[s].got = <<>> THEN conn ELSE [conn EXCEPT ![c].read = @ + 1]
  /\ stack' = Append(stack, Frame("stream", s, f))
  /\ note' = [note EXCEPT ![s].got = Append(@, <<c, conn[c].read + 1>>)]
  /\ UNCHANGED <<sock, file, input_actions, held, throwing>>
\* read() of the descriptor, whatever it stands for by now.  The data goes to
\* the stream of the socket the loop began with, and is lost if that does not
\* run.
ReadSome ==
  LET f == Top.fd s == Top.s c == file[f] IN
  /\ Busy /\ Top.k = "read"
  /\ c # None /\ conn[c].came > conn[c].read
  /\ conn' = [conn EXCEPT ![c].read = @ + 1]
  /\ \E runs \in Called(throwing) :
       IF runs
       THEN /\ stack' = Append(stack, Frame("stream", s, f))
            /\ note' = [note EXCEPT ![s].got = Append(@, <<c, conn[c].read + 1>>)]
       ELSE stack' = stack /\ note' = [note EXCEPT ![s].lost = @ + 1]
  /\ UNCHANGED <<sock, file, input_actions, held, throwing>>

ReadNothing ==
  LET c == file[Top.fd] IN
  /\ Busy /\ Top.k = "read"
  /\ c # None /\ conn[c].came = conn[c].read /\ ~conn[c].eof
  /\ stack' = Front(stack)
  /\ UNCHANGED <<sock, file, conn, input_actions, held, throwing, note>>

\* End of file, or an error such as a descriptor that is not open.
ReadEnd ==
  LET c == file[Top.fd] IN
  /\ Busy /\ Top.k = "read"
  /\ c # None => conn[c].came = conn[c].read /\ conn[c].eof
  /\ throwing' = throwing
  /\ Sentinel(Top.s, Front(stack))
  /\ UNCHANGED <<conn, held>>

\* A function returns, or is left by a throw or an interrupt.
LispReturns ==
  /\ Busy /\ Top.k \in Lisp
  /\ stack' = Front(stack)
  /\ UNCHANGED <<sock, file, conn, input_actions, held, throwing, note>>
LispThrows ==
  /\ Busy /\ Top.k \in Lisp /\ ~throwing
  /\ stack' = Front(stack)
  /\ throwing' = TRUE
  /\ UNCHANGED <<sock, file, conn, input_actions, held, note>>

-----------------------------------------------------------------------------
(* Memory: active sockets are marked, and those Lisp code can reach, the    *)
(* arguments of the functions that are running among them.                  *)

InCall == {stack[i].s : i \in {j \in 1 .. Len(stack) : stack[j].k \in {"server", "sentinel"}}}
Marked(refs) == {s \in Sock : Active(s)} \cup refs \cup InCall

\* The program has dropped its references to all sockets but kept.
GarbageCollect ==
  /\ Runs
  /\ \E dropped \in SUBSET held :
       LET dead == {s \in Sock : sock[s].state = "live"} \ Marked(held \ dropped) IN
       /\ dead # {} /\ dropped \subseteq dead
       /\ sock' = [s \in Sock |-> IF s \in dead THEN [sock[s] EXCEPT !.state = "freed"] ELSE sock[s]]
       /\ held' = held \ dropped
  /\ UNCHANGED <<file, conn, input_actions, stack, throwing, note>>

(* The other side, through the kernel *)

PeerSends(s) ==
  /\ s \in {file[f] : f \in Fd} /\ ~conn[s].eof /\ conn[s].came < MaxChunk
  /\ conn' = [conn EXCEPT ![s].came = @ + 1]
  /\ UNCHANGED <<sock, file, input_actions, held, stack, throwing, note>>
PeerCloses(s) ==
  /\ s \in {file[f] : f \in Fd} /\ ~conn[s].eof /\ sock[s].role = "client"
  /\ conn' = [conn EXCEPT ![s].eof = TRUE]
  /\ UNCHANGED <<sock, file, input_actions, held, stack, throwing, note>>

-----------------------------------------------------------------------------
Library == EventLoop \/ HandleException \/ HandleInput \/ ReadSome \/ ReadNothing \/ ReadEnd
Program ==
  \/ SocketClient \/ SocketServer \/ GarbageCollect \/ LispThrows
  \/ \E s \in Sock : \/ SocketAccept(s) \/ CloseSocket(s) \/ WriteFails(s) \/ AcceptSocketOutput(s)
Peer == \E s \in Sock : PeerSends(s) \/ PeerCloses(s)

Next == Library \/ LispReturns \/ Program \/ Peer

\* The library goes on, the functions it calls return, and code at the top
\* level, from where sockets may be waited for too, gives way to the event loop.
Fairness == WF_vars(Library) /\ WF_vars(LispReturns) /\ SF_vars(EventLoop)
Spec == Init /\ [][Next]_vars /\ Fairness
=============================================================================
