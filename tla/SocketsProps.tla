---------------------------- MODULE SocketsProps ----------------------------
EXTENDS Sockets

\* Every watched descriptor is open and belongs to exactly one socket, which is
\* active: socket_for_fd() never fails, whatever was closed or opened since
\* select() returned.  No socket that the program has, that is watched, or that
\* a call in progress still uses has been freed.
HandlerHasSocket ==
  /\ \A f \in Watched :
       /\ file[f] \in Sock
       /\ {s \in Sock : sock[s].state = "live" /\ sock[s].fd = f} = {file[f]}
       /\ Active(file[f])
  /\ \A s \in Sock \cap (held \cup {file[f] : f \in Watched} \cup {stack[i].s : i \in 1 .. Len(stack)}) :
       sock[s].state = "live"

\* A stream function gets what came over its own connection, each piece once
\* and in order; what is not passed on was read while a throw was pending.  The
\* sentinel is called once at most, only when the other side has closed the
\* connection, and not for a socket that the program has closed itself.
OwnData ==
  \A s \in Sock :
    LET got == note[s].got IN
    /\ \A i \in 1 .. Len(got) : got[i][1] = s
    /\ \A i \in 1 .. Len(got) - 1 : got[i][2] < got[i + 1][2]
    /\ sock[s].role = "client" => Len(got) + note[s].lost = conn[s].read
    /\ note[s].sentinel <= 1
    /\ note[s].sentinel = 1 => conn[s].eof /\ ~note[s].closed

\* Unless functions throw for ever, or one waits for ever itself, a connection
\* that the other side has closed is read to the end and shut down, however
\* many other descriptors are ready.
EofServed ==
  \/ []<>throwing
  \/ <>[]Busy
  \/ \A s \in Sock : (Active(s) /\ conn[s].eof) ~> ~Active(s)
=============================================================================
