--------------------------- MODULE SocketsProofs ---------------------------
(***************************************************************************)
(* Proofs about Sockets, for any sockets and descriptors, any amount of    *)
(* data and any nesting of calls, as long as the functions that are called *)
(* leave alone the sockets that are being read (OwnOps = {}).              *)
(***************************************************************************)
EXTENDS SocketsProps, SequenceTheorems, WellFoundedInduction, TLAPS

----------------------------------------------------------------------------
(* Descriptors and sequences *)

\* A set of descriptors that is not empty has a least one.
LEMMA Least ==
  ASSUME NEW T, T \subseteq Nat, T # {}
  PROVE  (CHOOSE f \in T : \A g \in T : f <= g) \in T
<1>1. PICK x \in T : \A y \in T : ~(<<y, x>> \in OpToRel(<, Nat))
  BY NatLessThanWellFounded, WFMin
<1>2. \A y \in T : x <= y
  <2> TAKE y \in T
  <2>1. ~(y < x)
    BY <1>1 DEF OpToRel
  <2> QED
    BY <2>1
<1> QED
  BY <1>2

\* The innermost call ends.
LEMMA FrontFacts ==
  ASSUME NEW S, NEW s \in Seq(S), s # <<>>
  PROVE  /\ Front(s) \in Seq(S)
         /\ Len(s) \in Nat \ {0}
         /\ Len(Front(s)) = Len(s) - 1
         /\ \A i \in 1 .. Len(s) - 1 : Front(s)[i] = s[i]
         /\ Last(s) = s[Len(s)]
         /\ Last(s) \in S
<1>1. Len(s) \in Nat \ {0} /\ Last(s) = s[Len(s)] /\ Last(s) \in S
  BY DEF Last
<1>2. \A i \in 1 .. Len(s) - 1 : s[i] \in S
  BY <1>1
<1> DEFINE n == Len(s) - 1
<1>3. n \in Int /\ 1 \in Int /\ n \in Nat
  BY <1>1
<1> HIDE DEF n
<1>4. /\ SubSeq(s, 1, n) \in Seq(S)
      /\ Len(SubSeq(s, 1, n)) = IF 1 <= n THEN n - 1 + 1 ELSE 0
      /\ \A i \in 1 .. n - 1 + 1 : SubSeq(s, 1, n)[i] = s[1 + i - 1]
  BY <1>2, <1>3, SubSeqProperties DEF n
<1>5. /\ Len(SubSeq(s, 1, n)) = n
      /\ \A i \in 1 .. n : SubSeq(s, 1, n)[i] = s[i]
  BY <1>3, <1>4
<1> QED
  BY <1>1, <1>4, <1>5 DEF Front, n

\* A call begins.
LEMMA AppendFacts ==
  ASSUME NEW S, NEW s \in Seq(S), NEW x \in S
  PROVE  /\ Append(s, x) \in Seq(S)
         /\ Len(Append(s, x)) = Len(s) + 1
         /\ Append(s, x)[Len(s) + 1] = x
         /\ \A i \in 1 .. Len(s) : Append(s, x)[i] = s[i]
  OBVIOUS

----------------------------------------------------------------------------
(* The inductive invariant *)

SocketRecords ==
  [state : {"unborn", "live", "freed"}, fd : Fd \cup {-1}, active : BOOLEAN, registered : BOOLEAN, role : {"client", "server"}]
Connections == [came : Nat, read : Nat, eof : BOOLEAN]
Notes == [got : Seq(Sock \X Nat), lost : Nat, sentinel : Nat, closed : BOOLEAN]
Frames == [k : {"handle", "read"} \cup Lisp, s : Sock \cup {None}, fd : Fd \cup {-1}, rest : SUBSET Fd]

\* Every variable has its type.
TypeOK ==
  /\ sock \in [Sock -> SocketRecords]
  /\ file \in [Fd -> Sock \cup {None}]
  /\ conn \in [Sock -> Connections]
  /\ input_actions \in [Fd -> {None, "client", "server"}]
  /\ held \subseteq Sock
  /\ stack \in Seq(Frames)
  /\ throwing \in BOOLEAN
  /\ note \in [Sock -> Notes]

\* Sockets sk, open descriptors fl and handlers ia agree: an open descriptor is
\* watched for the socket that has it, and only active sockets have one.
Agree(sk, fl, ia) ==
  /\ \A f \in Fd : fl[f] = None => ia[f] = None
  /\ \A f \in Fd : fl[f] # None =>
       /\ sk[fl[f]].state = "live" /\ sk[fl[f]].active /\ sk[fl[f]].registered
       /\ sk[fl[f]].fd = f
       /\ ia[f] = sk[fl[f]].role
  /\ \A s \in Sock : sk[s].fd # -1 => fl[sk[s].fd] = s
  /\ \A s \in Sock : sk[s].active => sk[s].fd # -1

\* Frame i of the calls st suits the sockets sk and the descriptors fl.
FrameOK(st, i, sk, fl) ==
  /\ st[i].k = "handle" => st[i].s = None
  /\ st[i].k = "read" =>
       /\ st[i].s \in Sock /\ st[i].fd \in Fd
       /\ fl[st[i].fd] = st[i].s
       /\ sk[st[i].s].role = "client"
  /\ st[i].k = "stream" => i > 1 /\ st[i - 1].k = "read" /\ st[i].s = st[i - 1].s
  /\ st[i].k \in {"server", "sentinel"} => st[i].s \in Sock /\ sk[st[i].s].state = "live"
  \* Ready descriptors that are still to be served were found at the top
  \* level, or there is one and it is served before anything else happens.
  /\ st[i].k = "handle" /\ st[i].rest # {} /\ i # 1 =>
       /\ i = Len(st)
       /\ \E f \in Fd : st[i].rest = {f}
       /\ \A j \in 1 .. i - 1 : st[j].k = "read" => st[j].fd \notin st[i].rest

\* No descriptor is read by two calls.
ReadOnce(st) ==
  \A i, j \in 1 .. Len(st) :
    i # j /\ st[i].k = "read" /\ st[j].k = "read" => st[i].fd # st[j].fd

Calls(st, sk, fl) == ReadOnce(st) /\ \A i \in 1 .. Len(st) : FrameOK(st, i, sk, fl)

\* What is known of socket s.
Known(s, sk, cn, nt) ==
  /\ sk.state = "unborn" => sk = Unborn /\ cn = Untouched /\ nt = Silent
  /\ \A i \in 1 .. Len(nt.got) : nt.got[i][1] = s /\ nt.got[i][2] <= cn.read
  /\ \A i \in 1 .. Len(nt.got) - 1 : nt.got[i][2] < nt.got[i + 1][2]
  /\ sk.role = "client" => Len(nt.got) + nt.lost = cn.read
  /\ nt.closed => ~sk.active
  /\ nt.sentinel # 0 => nt.sentinel = 1 /\ ~sk.active /\ cn.eof /\ ~nt.closed

IndInv ==
  /\ TypeOK
  /\ Agree(sock, file, input_actions)
  /\ \A s \in held : sock[s].state = "live"
  /\ Calls(stack, sock, file)
  /\ \A s \in Sock : Known(s, sock[s], conn[s], note[s])

\* The invariant says what is to be proved.
LEMMA IndInvSuffices == IndInv => HandlerHasSocket /\ OwnData
<1> SUFFICES ASSUME IndInv PROVE HandlerHasSocket /\ OwnData
  OBVIOUS
<1> USE SocketsAssumption
<1>1. ASSUME NEW f \in Watched
      PROVE  /\ file[f] \in Sock
             /\ {s \in Sock : sock[s].state = "live" /\ sock[s].fd = f} = {file[f]}
             /\ Active(file[f])
  <2>1. f \in Fd /\ file[f] # None /\ file[f] \in Sock
    BY DEF Watched, IndInv, Agree, TypeOK
  <2>2. Active(file[f]) /\ sock[file[f]].fd = f
    BY <2>1 DEF IndInv, Agree, Active
  <2>3. \A s \in Sock : sock[s].fd = f => s = file[f]
    BY <2>1 DEF IndInv, Agree
  <2> QED
    BY <2>1, <2>2, <2>3 DEF Active
<1>2. ASSUME NEW s \in Sock, s \in {stack[i].s : i \in 1 .. Len(stack)} PROVE sock[s].state = "live"
  <2>1. PICK i \in 1 .. Len(stack) : s = stack[i].s
    BY <1>2
  <2>2. stack[i] \in Frames /\ FrameOK(stack, i, sock, file)
    BY DEF IndInv, TypeOK, Calls
  <2>a. Agree(sock, file, input_actions)
    BY DEF IndInv
  <2>3. ASSUME NEW f \in Fd, file[f] = s PROVE sock[s].state = "live"
    <3>1. file[f] # None
      BY <2>3
    <3> QED
      BY <2>3, <2>a, <3>1 DEF Agree
  <2>4. CASE stack[i].k = "read"
    BY <2>3, <2>1, <2>2, <2>4 DEF FrameOK
  <2>5. CASE stack[i].k = "stream"
    <3>1. i - 1 \in 1 .. Len(stack) /\ stack[i - 1].k = "read" /\ stack[i - 1].s = s
      BY <2>1, <2>2, <2>5 DEF FrameOK
    <3>2. FrameOK(stack, i - 1, sock, file)
      BY <3>1 DEF IndInv, Calls
    <3> QED
      BY <2>3, <3>1, <3>2 DEF FrameOK
  <2>6. CASE stack[i].k = "handle"
    BY <2>1, <2>2, <2>6 DEF FrameOK
  <2>7. CASE stack[i].k \in {"server", "sentinel"}
    BY <2>1, <2>2, <2>7 DEF FrameOK
  <2> QED
    BY <2>2, <2>4, <2>5, <2>6, <2>7 DEF Frames, Lisp
<1>3. ASSUME NEW s \in Sock, s \in held \cup {file[f] : f \in Watched} PROVE sock[s].state = "live"
  BY <1>1, <1>3 DEF IndInv, Active
<1>4. HandlerHasSocket
  BY <1>1, <1>2, <1>3 DEF HandlerHasSocket
<1>5. OwnData
  <2> SUFFICES ASSUME NEW s \in Sock
               PROVE LET got == note[s].got IN
                     /\ \A i \in 1 .. Len(got) : got[i][1] = s
                     /\ \A i \in 1 .. Len(got) - 1 : got[i][2] < got[i + 1][2]
                     /\ sock[s].role = "client" => Len(got) + note[s].lost = conn[s].read
                     /\ note[s].sentinel <= 1
                     /\ note[s].sentinel = 1 => conn[s].eof /\ ~note[s].closed
    BY DEF OwnData
  <2>1. Known(s, sock[s], conn[s], note[s]) /\ note[s] \in Notes
    BY DEF IndInv, TypeOK
  <2> QED
    BY <2>1 DEF Known, Notes
<1> QED
  BY <1>4, <1>5

\* The socket of an open descriptor.
LEMMA OpenFacts ==
  ASSUME IndInv, NEW f \in Fd, NEW s \in Sock, file[f] = s
  PROVE  sock[s].state = "live" /\ sock[s].active /\ sock[s].fd = f
  BY SocketsAssumption DEF IndInv, Agree

----------------------------------------------------------------------------
(* Calls begin and end *)

\* The innermost call ends.
LEMMA CallsPop ==
  ASSUME NEW st \in Seq(Frames), st # <<>>, NEW sk, NEW fl, Calls(st, sk, fl)
  PROVE  Front(st) \in Seq(Frames) /\ Calls(Front(st), sk, fl)
<1> DEFINE up == Front(st)
<1>1. up \in Seq(Frames) /\ Len(st) \in Nat \ {0} /\ Len(up) = Len(st) - 1
      /\ \A i \in 1 .. Len(st) - 1 : up[i] = st[i]
  BY FrontFacts
<1> HIDE DEF up
<1>2. ReadOnce(up)
  BY <1>1 DEF Calls, ReadOnce
<1>3. ASSUME NEW i \in 1 .. Len(up) PROVE FrameOK(up, i, sk, fl)
  <2>1. i \in 1 .. Len(st) /\ i # Len(st) /\ FrameOK(st, i, sk, fl)
    BY <1>1 DEF Calls
  <2>2. up[i] = st[i] /\ (i > 1 => up[i - 1] = st[i - 1])
    BY <1>1
  <2> QED
    BY <2>1, <2>2, <1>1 DEF FrameOK
<1> QED
  BY <1>1, <1>2, <1>3 DEF Calls, up

\* Frame fr begins on the calls st, none of which has descriptors waiting to
\* be served unless it began at the top level.
LEMMA CallsPush ==
  ASSUME NEW st \in Seq(Frames), NEW fr \in Frames, NEW sk, NEW fl, Calls(st, sk, fl),
         \A i \in 1 .. Len(st) : st[i].k = "handle" /\ st[i].rest # {} => i = 1,
         FrameOK(Append(st, fr), Len(st) + 1, sk, fl),
         fr.k = "read" => \A i \in 1 .. Len(st) : st[i].k = "read" => st[i].fd # fr.fd
  PROVE  Append(st, fr) \in Seq(Frames) /\ Calls(Append(st, fr), sk, fl)
<1> DEFINE dn == Append(st, fr)
<1>1. dn \in Seq(Frames) /\ Len(dn) = Len(st) + 1 /\ dn[Len(st) + 1] = fr
      /\ \A i \in 1 .. Len(st) : dn[i] = st[i]
  BY AppendFacts
<1>2. FrameOK(dn, Len(st) + 1, sk, fl)
  OBVIOUS
<1> HIDE DEF dn
<1>3. Len(st) \in Nat
  OBVIOUS
<1>4. ReadOnce(dn)
  <2> SUFFICES ASSUME NEW i \in 1 .. Len(dn), NEW j \in 1 .. Len(dn),
                      i # j, dn[i].k = "read", dn[j].k = "read"
               PROVE  dn[i].fd # dn[j].fd
    BY DEF ReadOnce
  <2>1. CASE i \in 1 .. Len(st) /\ j \in 1 .. Len(st)
    BY <1>1, <2>1 DEF Calls, ReadOnce
  <2>2. CASE i = Len(st) + 1
    BY <1>1, <1>3, <2>2
  <2>3. CASE j = Len(st) + 1
    BY <1>1, <1>3, <2>3
  <2> QED
    BY <1>1, <1>3, <2>1, <2>2, <2>3
<1>5. ASSUME NEW i \in 1 .. Len(st) PROVE FrameOK(dn, i, sk, fl)
  <2>1. FrameOK(st, i, sk, fl) /\ dn[i] = st[i] /\ (i > 1 => dn[i - 1] = st[i - 1])
    BY <1>1, <1>3 DEF Calls
  <2> QED
    BY <2>1, <1>1, <1>3 DEF FrameOK
<1> QED
  BY <1>1, <1>2, <1>3, <1>4, <1>5 DEF Calls, dn

\* Sockets and descriptors change, but not those that the calls use.
LEMMA CallsKept ==
  ASSUME NEW st \in Seq(Frames), NEW sk, NEW fl, NEW sk2, NEW fl2, Calls(st, sk, fl),
         \A i \in 1 .. Len(st) : st[i].k = "read" => 
            fl2[st[i].fd] = fl[st[i].fd] /\ sk2[st[i].s].role = sk[st[i].s].role,
         \A i \in 1 .. Len(st) : st[i].k \in {"server", "sentinel"} => 
            sk2[st[i].s].state = sk[st[i].s].state
  PROVE  Calls(st, sk2, fl2)
  BY DEF Calls, FrameOK

\* While Lisp code runs, nothing waits to be served but at the top level.
LEMMA NothingWaits ==
  ASSUME IndInv, Runs \/ (Busy /\ Top.k \in Lisp \cup {"read"})
  PROVE  \A i \in 1 .. Len(stack) : stack[i].k = "handle" /\ stack[i].rest # {} => i = 1
<1> SUFFICES ASSUME NEW i \in 1 .. Len(stack), stack[i].k = "handle", stack[i].rest # {}, i # 1
             PROVE  FALSE
  OBVIOUS
<1>1. stack \in Seq(Frames) /\ stack # <<>>
  BY DEF IndInv, TypeOK
<1>2. FrameOK(stack, i, sock, file)
  BY DEF IndInv, Calls
<1>3. Top = stack[i]
  BY <1>1, <1>2 DEF FrameOK, Top, Last
<1> QED
  BY <1>1, <1>3 DEF Runs, Busy, Lisp

\* What a step that only begins or ends calls has to show.
LEMMA OnlyCalls ==
  ASSUME IndInv, UNCHANGED <<sock, file, conn, input_actions, held, note>>,
         throwing' \in BOOLEAN, stack' \in Seq(Frames), Calls(stack', sock, file)
  PROVE  IndInv'
<1>1. TypeOK'
  BY DEF IndInv, TypeOK
<1> QED
  BY <1>1 DEF IndInv

\* The innermost call ends, a throw may begin.
LEMMA PopStep ==
  ASSUME IndInv, Busy, stack' = Front(stack), throwing' \in BOOLEAN,
         UNCHANGED <<sock, file, conn, input_actions, held, note>>
  PROVE  IndInv'
<1>1. stack \in Seq(Frames) /\ stack # <<>> /\ Calls(stack, sock, file)
  BY DEF IndInv, TypeOK, Busy
<1>2. stack' \in Seq(Frames) /\ Calls(stack', sock, file)
  BY <1>1, CallsPop
<1> QED
  BY <1>2, OnlyCalls

----------------------------------------------------------------------------
(* Waiting and handling *)

LEMMA EventLoopStep == IndInv /\ EventLoop => IndInv'
<1> SUFFICES ASSUME IndInv, EventLoop PROVE IndInv'
  OBVIOUS
<1> DEFINE ready == {f \in Watched : Ready(f)}
           fr == Handle(ready)
<1>1. stack = <<>> /\ stack' \in {stack, <<fr>>}
  BY DEF EventLoop, Busy
<1>2. fr \in Frames /\ fr.k = "handle" /\ fr.s = None
  BY DEF Handle, Frames, Watched
<1> HIDE DEF fr
<1>3. stack' \in Seq(Frames) /\ Calls(stack', sock, file)
  <2>1. CASE stack' = stack
    BY <2>1 DEF IndInv, TypeOK
  <2>2. CASE stack' = <<fr>>
    <3>1. stack' \in Seq(Frames) /\ Len(stack') = 1 /\ stack'[1] = fr
      BY <1>2, <2>2
    <3>2. FrameOK(stack', 1, sock, file)
      BY <1>2, <3>1 DEF FrameOK
    <3> QED
      BY <3>1, <3>2 DEF Calls, ReadOnce
  <2> QED
    BY <1>1, <2>1, <2>2
<1> QED
  BY <1>3, OnlyCalls DEF EventLoop, IndInv, TypeOK

LEMMA HandleExceptionStep == IndInv /\ HandleException => IndInv'
  BY OnlyCalls DEF HandleException, IndInv, TypeOK

LEMMA NameFailsStep == IndInv /\ NameFails => IndInv'
  BY OnlyCalls DEF NameFails, IndInv, TypeOK

LEMMA ReadNothingStep == IndInv /\ ReadNothing => IndInv'
  BY PopStep DEF ReadNothing, IndInv, TypeOK

LEMMA LispReturnsStep == IndInv /\ LispReturns => IndInv'
  BY PopStep DEF LispReturns, IndInv, TypeOK

LEMMA LispThrowsStep == IndInv /\ LispThrows => IndInv'
  BY PopStep DEF LispThrows

\* The socket that is waited for is not one that is being read.
LEMMA AcceptSocketOutputStep ==
  ASSUME OwnOps = {}, IndInv, NEW s \in Sock, AcceptSocketOutput(s)
  PROVE  IndInv'
<1> DEFINE fr == Handle({sock[s].fd})
<1> USE SocketsAssumption
<1>1. stack \in Seq(Frames) /\ Calls(stack, sock, file) /\ Runs /\ s \notin Reading
  BY DEF IndInv, TypeOK, AcceptSocketOutput, May
<1>2. sock[s].fd \in Fd
  BY DEF AcceptSocketOutput, Watched
<1>3. fr \in Frames /\ fr.k = "handle" /\ fr.s = None /\ fr.rest = {sock[s].fd}
  BY <1>2 DEF Handle, Frames
<1>4. stack' = Append(stack, fr)
  BY DEF AcceptSocketOutput
<1> HIDE DEF fr
<1>5. ASSUME NEW i \in 1 .. Len(stack), stack[i].k = "read" PROVE stack[i].fd # sock[s].fd
  <2>1. stack[i].s # s
    BY <1>1, <1>5 DEF Reading
  <2>2. file[stack[i].fd] = stack[i].s
    BY <1>1, <1>5 DEF Calls, FrameOK
  <2>3. file[sock[s].fd] = s
    BY <1>2 DEF IndInv, Agree
  <2> QED
    BY <2>1, <2>2, <2>3
<1>6. FrameOK(stack', Len(stack) + 1, sock, file)
  <2>1. /\ Len(stack) \in Nat /\ Len(stack') = Len(stack) + 1
        /\ stack'[Len(stack) + 1] = fr /\ \A i \in 1 .. Len(stack) : stack'[i] = stack[i]
    BY <1>1, <1>3, <1>4, AppendFacts
  <2>2. (Len(stack) + 1) - 1 = Len(stack)
    BY <2>1
  <2>3. \A j \in 1 .. Len(stack) : stack'[j].k = "read" => stack'[j].fd \notin fr.rest
    BY <1>3, <1>5, <2>1
  <2> QED
    BY <1>2, <1>3, <2>1, <2>2, <2>3 DEF FrameOK
<1>7. stack' \in Seq(Frames) /\ Calls(stack', sock, file)
  BY <1>1, <1>3, <1>4, <1>6, CallsPush, NothingWaits
<1> QED
  BY <1>7, OnlyCalls DEF AcceptSocketOutput, IndInv, TypeOK

\* The handler that is called finds its socket, and does not read a descriptor
\* that is being read already.
LEMMA HandleInputStep == IndInv /\ HandleInput => IndInv'
<1> SUFFICES ASSUME IndInv, HandleInput PROVE IndInv'
  OBVIOUS
<1> USE SocketsAssumption
<1>1. CASE throwing \/ Top.rest = {}
  BY <1>1, PopStep DEF HandleInput, IndInv, TypeOK
<1>2. CASE ~(throwing \/ Top.rest = {})
  <2> DEFINE f == Lowest(Top.rest)
             up == Front(stack)
             top == [Top EXCEPT !.rest = @ \ {f}]
             calls == Append(up, top)
             s == CHOOSE t \in Sock : sock[t].state = "live" /\ sock[t].fd = f
  <2>1. stack \in Seq(Frames) /\ stack # <<>> /\ Calls(stack, sock, file) /\ Top.k = "handle"
    BY DEF HandleInput, IndInv, TypeOK, Busy
  <2>2. /\ up \in Seq(Frames) /\ Len(stack) \in Nat \ {0} /\ Len(up) = Len(stack) - 1
        /\ \A i \in 1 .. Len(stack) - 1 : up[i] = stack[i]
        /\ Top = stack[Len(stack)] /\ Top \in Frames
    BY <2>1, FrontFacts DEF Top
  <2>3. f \in Top.rest /\ f \in Fd
    <3>1. Top.rest \subseteq Nat /\ Top.rest # {} /\ Top.rest \subseteq Fd
      BY <1>2, <2>2 DEF Frames
    <3> QED
      BY <3>1, Least DEF Lowest
  <2>4. /\ top \in Frames /\ top.k = "handle" /\ top.s = Top.s
        /\ top.rest = Top.rest \ {f}
    BY <2>1, <2>2 DEF Frames
  <2>5. FrameOK(stack, Len(stack), sock, file)
    BY <2>1, <2>2 DEF Calls
  <2>6. /\ Top.s = None
        /\ Len(stack) # 1 => \A j \in 1 .. Len(up) : up[j].k = "read" => up[j].fd # f
        /\ Len(stack) # 1 => Top.rest \ {f} = {}
    BY <2>1, <2>2, <2>3, <2>5 DEF FrameOK
  <2>7. Calls(up, sock, file)
    BY <2>1, CallsPop
  <2>8. \A i \in 1 .. Len(up) : up[i].k = "handle" /\ up[i].rest # {} => i = 1
    <3> SUFFICES ASSUME NEW i \in 1 .. Len(up), up[i].k = "handle", up[i].rest # {}, i # 1
                 PROVE  FALSE
      OBVIOUS
    <3>1. FrameOK(stack, i, sock, file) /\ stack[i] = up[i] /\ i # Len(stack)
      BY <2>1, <2>2 DEF Calls
    <3> QED
      BY <3>1 DEF FrameOK
  <2>9. /\ calls \in Seq(Frames) /\ Len(calls) = Len(stack) /\ calls[Len(stack)] = top
        /\ \A i \in 1 .. Len(stack) - 1 : calls[i] = stack[i]
    BY <2>2, <2>4, AppendFacts
  <2>10. \/ input_actions[f] = None /\ stack' = calls
         \/ input_actions[f] = "client" /\ stack' = Append(calls, Frame("read", s, f))
         \/ input_actions[f] = "server" /\ stack' = Append(calls, Frame("server", s, -1))
    <3>1. input_actions[f] \in {None, "client", "server"}
      BY <2>3 DEF IndInv, TypeOK
    <3>2. stack' = CASE input_actions[f] = None -> calls
                     [] input_actions[f] = "client" -> Append(calls, Frame("read", s, f))
                     [] input_actions[f] = "server" -> Append(calls, Frame("server", s, -1))
      BY <1>2 DEF HandleInput
    <3> HIDE DEF calls, s, f
    <3> QED
      BY <3>1, <3>2
  <2>11. UNCHANGED <<sock, file, conn, input_actions, held, note, throwing>>
    BY DEF HandleInput
  <2> HIDE DEF f, up, top
  <2>12. Calls(calls, sock, file)
    <3>1. FrameOK(calls, Len(stack), sock, file)
      BY <2>2, <2>3, <2>4, <2>5, <2>6, <2>9 DEF FrameOK
    <3>2. calls = Append(up, top) /\ Len(stack) = Len(up) + 1
      BY <2>2
    <3> QED
      BY <2>2, <2>4, <2>7, <2>8, <3>1, <3>2, CallsPush
  <2>13. \A i \in 1 .. Len(calls) : calls[i].k = "handle" /\ calls[i].rest # {} => i = 1
    <3> TAKE i \in 1 .. Len(calls)
    <3>1. i = Len(stack) \/ (i \in 1 .. Len(up) /\ calls[i] = up[i])
      BY <2>2, <2>9
    <3> QED
      BY <2>4, <2>6, <2>8, <2>9, <3>1
  <2> HIDE DEF calls
  <2>14. ASSUME input_actions[f] # None
         PROVE  /\ s = file[f] /\ s \in Sock /\ sock[s].state = "live"
                /\ sock[s].role = input_actions[f]
    <3>1. file[f] \in Sock /\ sock[file[f]].state = "live" /\ sock[file[f]].fd = f
          /\ input_actions[f] = sock[file[f]].role
      BY <2>3, <2>14 DEF IndInv, Agree, TypeOK
    <3>2. \A t \in Sock : sock[t].fd = f => t = file[f]
      BY <2>3 DEF IndInv, Agree
    <3>3. s = file[f]
      BY <3>1, <3>2
    <3> QED
      BY <3>1, <3>3
  <2> HIDE DEF s
  <2>15. CASE input_actions[f] = None
    BY <2>9, <2>10, <2>11, <2>12, <2>15, OnlyCalls DEF IndInv, TypeOK
  <2>16. CASE input_actions[f] = "client"
    <3> DEFINE fr == Frame("read", s, f)
    <3>1. stack' = Append(calls, fr)
      BY <2>10, <2>16
    <3>2. fr \in Frames /\ fr.k = "read" /\ fr.s = s /\ fr.fd = f
      BY <2>3, <2>14, <2>16 DEF Frames, Frame
    <3> HIDE DEF fr
    <3>3. Append(calls, fr)[Len(calls) + 1] = fr
      BY <2>9, <3>2, AppendFacts
    <3>4. FrameOK(Append(calls, fr), Len(calls) + 1, sock, file)
      BY <2>3, <2>14, <2>16, <3>2, <3>3 DEF FrameOK
    <3>5. \A i \in 1 .. Len(calls) : calls[i].k = "read" => calls[i].fd # f
      BY <2>2, <2>4, <2>6, <2>9
    <3>6. stack' \in Seq(Frames) /\ Calls(stack', sock, file)
      BY <2>9, <2>12, <2>13, <3>1, <3>2, <3>4, <3>5, CallsPush
    <3> QED
      BY <2>11, <3>6, OnlyCalls DEF IndInv, TypeOK
  <2>17. CASE input_actions[f] = "server"
    <3> DEFINE fr == Frame("server", s, -1)
    <3>1. stack' = Append(calls, fr)
      BY <2>10, <2>17
    <3>2. fr \in Frames /\ fr.k = "server" /\ fr.s = s
      BY <2>3, <2>14, <2>17 DEF Frames, Frame, Lisp
    <3> HIDE DEF fr
    <3>3. Append(calls, fr)[Len(calls) + 1] = fr
      BY <2>9, <3>2, AppendFacts
    <3>4. FrameOK(Append(calls, fr), Len(calls) + 1, sock, file)
      BY <2>14, <2>17, <3>2, <3>3 DEF FrameOK
    <3>5. stack' \in Seq(Frames) /\ Calls(stack', sock, file)
      BY <2>9, <2>12, <2>13, <3>1, <3>2, <3>4, CallsPush
    <3> QED
      BY <2>11, <3>5, OnlyCalls DEF IndInv, TypeOK
  <2> QED
    BY <2>10, <2>15, <2>16, <2>17
<1> QED
  BY <1>1, <1>2
----------------------------------------------------------------------------
(* Opening *)

\* A socket is opened on a descriptor that is free; nothing is known of it yet.
LEMMA OpenStep ==
  ASSUME IndInv, Runs, FreeFds # {}, Unborns # {}, NEW role \in {"client", "server"},
         Open(NewSock, NewFd, role),
         conn' \in [Sock -> Connections],
         \A s \in Sock : sock[s].state = "unborn" => conn'[s] = conn[s],
         \A s \in Sock : Known(s, sock[s], conn'[s], note[s])
  PROVE  IndInv'
<1> DEFINE s == NewSock
           fd == NewFd
<1> USE SocketsAssumption
<1>1. s \in Sock /\ sock[s].state = "unborn"
  BY DEF Unborns, NewSock
<1>2. fd \in Fd /\ file[fd] = None
  <2>1. FreeFds \subseteq Nat /\ FreeFds # {}
    BY DEF FreeFds
  <2>2. NewFd \in FreeFds
    BY <2>1, Least DEF NewFd
  <2> QED
    BY <2>2 DEF FreeFds
<1>3. /\ sock' = [sock EXCEPT ![s] = Opened(s, fd, role)]
      /\ file' = [file EXCEPT ![fd] = s]
      /\ input_actions' = [input_actions EXCEPT ![fd] = role]
      /\ held' = held \cup {s}
      /\ UNCHANGED <<stack, throwing, note>>
  BY DEF Open
<1> HIDE DEF s, fd
<1>4. LET o == Opened(s, fd, role) IN
      /\ o \in SocketRecords
      /\ o.state = "live" /\ o.fd = fd /\ o.active /\ o.registered /\ o.role = role
  <2>1. Unborn \in SocketRecords
    BY DEF Unborn, SocketRecords
  <2> QED
    BY <1>2, <2>1 DEF Opened, SocketRecords
<1>5. TypeOK'
  BY <1>1, <1>2, <1>3, <1>4 DEF IndInv, TypeOK
<1>6. sock[s] = Unborn /\ conn'[s] = Untouched /\ note[s] = Silent
  BY <1>1 DEF IndInv, Known
<1>7. \A f \in Fd : file[f] # s
  BY <1>1 DEF IndInv, Agree
<1>8. Agree(sock', file', input_actions')
  <2>1. \A f \in Fd \ {fd} : file'[f] = file[f] /\ input_actions'[f] = input_actions[f]
    BY <1>3 DEF IndInv, TypeOK
  <2>2. \A t \in Sock \ {s} : sock'[t] = sock[t] /\ sock[t].fd # fd
    BY <1>1, <1>2, <1>3 DEF IndInv, TypeOK, Agree
  <2>3. sock'[s].fd = fd /\ sock'[s].state = "live" /\ sock'[s].active /\ sock'[s].registered
        /\ sock'[s].role = role /\ file'[fd] = s /\ input_actions'[fd] = role
    BY <1>1, <1>2, <1>3, <1>4 DEF IndInv, TypeOK
  <2>4. \A f \in Fd \ {fd} : file[f] \in Sock \ {s} \/ file[f] = None
    BY <1>7 DEF IndInv, TypeOK
  <2>5. \A t \in Sock : sock[t].fd \in Fd \cup {-1}
    BY DEF IndInv, TypeOK, SocketRecords
  <2>6. \A f \in Fd : file'[f] = None => input_actions'[f] = None
    BY <1>1, <2>1, <2>3 DEF IndInv, Agree
  <2>7. ASSUME NEW f \in Fd, file'[f] # None
        PROVE  /\ sock'[file'[f]].state = "live" /\ sock'[file'[f]].active /\ sock'[file'[f]].registered
               /\ sock'[file'[f]].fd = f
               /\ input_actions'[f] = sock'[file'[f]].role
    <3>1. CASE f = fd
      BY <2>3, <3>1
    <3>2. CASE f # fd
      <4>1. file[f] \in Sock \ {s} /\ file'[f] = file[f] /\ input_actions'[f] = input_actions[f]
            /\ sock'[file[f]] = sock[file[f]]
        BY <2>1, <2>2, <2>4, <2>7, <3>2
      <4> QED
        BY <2>7, <4>1 DEF IndInv, Agree
    <3> QED
      BY <3>1, <3>2
  <2>8. ASSUME NEW t \in Sock
        PROVE  (sock'[t].fd # -1 => file'[sock'[t].fd] = t) /\ (sock'[t].active => sock'[t].fd # -1)
    <3>1. CASE t = s
      BY <1>2, <2>3, <3>1
    <3>2. CASE t # s
      <4>1. sock'[t] = sock[t] /\ sock[t].fd # fd
        BY <2>2, <3>2
      <4>2. sock[t].fd # -1 => file'[sock[t].fd] = file[sock[t].fd]
        BY <2>1, <2>5, <4>1
      <4> QED
        BY <4>1, <4>2 DEF IndInv, Agree
    <3> QED
      BY <3>1, <3>2
  <2> QED
    BY <2>6, <2>7, <2>8 DEF Agree
<1>9. \A t \in held' : sock'[t].state = "live"
  BY <1>1, <1>3, <1>4 DEF IndInv, TypeOK
<1>10. Calls(stack', sock', file')
  <2>1. ASSUME NEW i \in 1 .. Len(stack), stack[i].k = "read"
        PROVE  file'[stack[i].fd] = file[stack[i].fd] /\ sock'[stack[i].s].role = sock[stack[i].s].role
    <3>1. stack[i].s \in Sock /\ stack[i].fd \in Fd /\ file[stack[i].fd] = stack[i].s
      BY <2>1 DEF IndInv, Calls, FrameOK
    <3>2. file \in [Fd -> Sock \cup {None}] /\ sock \in [Sock -> SocketRecords]
      BY DEF IndInv, TypeOK
    <3>3. stack[i].fd # fd
      BY ONLY <1>2, <3>1, SocketsAssumption
    <3>4. stack[i].s # s
      BY ONLY <1>7, <3>1
    <3> QED
      BY ONLY <1>3, <3>1, <3>2, <3>3, <3>4
  <2>2. ASSUME NEW i \in 1 .. Len(stack), stack[i].k \in {"server", "sentinel"}
        PROVE  sock'[stack[i].s].state = sock[stack[i].s].state
    <3>1. stack[i].s \in Sock /\ sock[stack[i].s].state = "live"
      BY <2>2 DEF IndInv, Calls, FrameOK
    <3> QED
      BY <1>1, <1>3, <3>1 DEF IndInv, TypeOK
  <2>3. stack \in Seq(Frames) /\ Calls(stack, sock, file)
    BY DEF IndInv, TypeOK
  <2>4. Calls(stack, sock', file')
    BY <2>1, <2>2, <2>3, CallsKept
  <2> QED
    BY <1>3, <2>4
<1>11. \A t \in Sock : Known(t, sock'[t], conn'[t], note'[t])
  <2> TAKE t \in Sock
  <2>1. CASE t = s
    <3>1. sock'[t] = Opened(s, fd, role) /\ note'[t] = Silent
      BY <1>1, <1>3, <1>6, <2>1 DEF IndInv, TypeOK
    <3> QED
      BY <1>4, <1>6, <2>1, <3>1 DEF Known, Silent, Untouched
  <2>2. CASE t # s
    BY <1>1, <1>3, <2>2 DEF IndInv, TypeOK
  <2> QED
    BY <2>1, <2>2
<1> QED
  BY <1>5, <1>8, <1>9, <1>10, <1>11 DEF IndInv

LEMMA MakeClientSocketStep == IndInv /\ MakeClientSocket => IndInv'
<1> SUFFICES ASSUME IndInv, MakeClientSocket PROVE IndInv'
  OBVIOUS
<1>1. conn' = conn /\ conn \in [Sock -> Connections] /\ \A s \in Sock : Known(s, sock[s], conn[s], note[s])
  BY DEF MakeClientSocket, IndInv, TypeOK
<1> QED
  BY <1>1, OpenStep DEF MakeClientSocket

LEMMA MakeServerSocketStep == IndInv /\ MakeServerSocket => IndInv'
<1> SUFFICES ASSUME IndInv, MakeServerSocket PROVE IndInv'
  OBVIOUS
<1>1. conn' = conn /\ conn \in [Sock -> Connections] /\ \A s \in Sock : Known(s, sock[s], conn[s], note[s])
  BY DEF MakeServerSocket, IndInv, TypeOK
<1> QED
  BY <1>1, OpenStep DEF MakeServerSocket

LEMMA SocketAcceptStep ==
  ASSUME IndInv, NEW server \in Sock, SocketAccept(server)
  PROVE  IndInv'
<1>1. conn[server] \in Connections /\ note[server] \in Notes /\ conn \in [Sock -> Connections]
  BY DEF IndInv, TypeOK
<1>2. conn' = [conn EXCEPT ![server].read = @ + 1]
  BY DEF SocketAccept
<1>3. conn' \in [Sock -> Connections]
  BY <1>1, <1>2 DEF Connections
<1>4. \A s \in Sock : sock[s].state = "unborn" => conn'[s] = conn[s]
  BY <1>1, <1>2 DEF SocketAccept, Active
<1>5. ASSUME NEW s \in Sock PROVE Known(s, sock[s], conn'[s], note[s])
  <2>1. CASE s # server
    BY <1>1, <1>2, <2>1 DEF IndInv
  <2>2. CASE s = server
    <3>1. sock[s].role = "server" /\ sock[s].state = "live"
      BY <2>2 DEF SocketAccept, Active
    <3>2. conn'[s].read = conn[s].read + 1 /\ conn'[s].eof = conn[s].eof
      BY <1>1, <1>2, <2>2 DEF Connections
    <3>3. Known(s, sock[s], conn[s], note[s])
      BY DEF IndInv
    <3>4. conn[s].read \in Nat /\ note[s].got \in Seq(Sock \X Nat)
      BY <1>1, <2>2 DEF Connections, Notes
    <3>5. \A i \in 1 .. Len(note[s].got) : note[s].got[i][2] \in Nat
      BY <3>4
    <3> QED
      BY <3>1, <3>2, <3>3, <3>4, <3>5 DEF Known
  <2> QED
    BY <2>1, <2>2
<1> QED
  BY <1>3, <1>4, <1>5, OpenStep DEF SocketAccept
\* The object of a socket that could not be opened has no descriptor.
LEMMA MakeSocketFailsStep == IndInv /\ MakeSocketFails => IndInv'
<1> SUFFICES ASSUME IndInv, MakeSocketFails PROVE IndInv'
  OBVIOUS
<1> USE SocketsAssumption
<1> DEFINE s == NewSock
           o == [Unborn EXCEPT !.state = "live"]
<1>1. s \in Sock /\ sock[s].state = "unborn"
  BY DEF MakeSocketFails, Unborns, NewSock
<1>2. /\ sock' = [sock EXCEPT ![s] = o]
      /\ UNCHANGED <<file, conn, input_actions, held, stack, note>>
      /\ throwing' \in BOOLEAN
  BY DEF MakeSocketFails
<1>3. /\ o \in SocketRecords
      /\ o.state = "live" /\ o.fd = -1 /\ ~o.active /\ o.role = "client"
  BY DEF Unborn, SocketRecords
<1> HIDE DEF s, o
<1>4. TypeOK'
  BY <1>2, <1>3 DEF IndInv, TypeOK
<1>5. /\ sock'[s] = o
      /\ \A t \in Sock \ {s} : sock'[t] = sock[t]
      /\ sock[s] = Unborn /\ conn[s] = Untouched /\ note[s] = Silent
  BY <1>1, <1>2 DEF IndInv, TypeOK, Known
<1>6. \A f \in Fd : file[f] # s
  BY <1>1 DEF IndInv, Agree
<1>7. Agree(sock', file', input_actions')
  <2>1. \A f \in Fd : file[f] # None => file[f] \in Sock \ {s}
    BY <1>6 DEF IndInv, TypeOK
  <2> QED
    BY <1>2, <1>3, <1>5, <2>1 DEF IndInv, Agree
<1>8. \A t \in held' : sock'[t].state = "live"
  BY <1>1, <1>2, <1>5 DEF IndInv, TypeOK
<1>9. Calls(stack', sock', file')
  <2>1. ASSUME NEW i \in 1 .. Len(stack), stack[i].k = "read"
        PROVE  sock'[stack[i].s].role = sock[stack[i].s].role
    <3>1. stack[i].s \in Sock /\ stack[i].fd \in Fd /\ file[stack[i].fd] = stack[i].s
      BY <2>1 DEF IndInv, Calls, FrameOK
    <3> QED
      BY <1>5, <1>6, <3>1
  <2>2. ASSUME NEW i \in 1 .. Len(stack), stack[i].k \in {"server", "sentinel"}
        PROVE  sock'[stack[i].s].state = sock[stack[i].s].state
    <3>1. stack[i].s \in Sock /\ sock[stack[i].s].state = "live"
      BY <2>2 DEF IndInv, Calls, FrameOK
    <3> QED
      BY <1>1, <1>5, <3>1
  <2>3. stack \in Seq(Frames) /\ Calls(stack, sock, file)
    BY DEF IndInv, TypeOK
  <2>4. Calls(stack, sock', file)
    BY <2>1, <2>2, <2>3, CallsKept
  <2> QED
    BY <1>2, <2>4
<1>10. \A t \in Sock : Known(t, sock'[t], conn'[t], note'[t])
  <2> TAKE t \in Sock
  <2>1. CASE t = s
    BY <1>2, <1>3, <1>5, <2>1 DEF Known, Silent, Untouched
  <2>2. CASE t # s
    BY <1>2, <1>5, <2>2 DEF IndInv
  <2> QED
    BY <2>1, <2>2
<1> QED
  BY <1>4, <1>7, <1>8, <1>9, <1>10 DEF IndInv

----------------------------------------------------------------------------
(* Closing *)

\* shutdown_socket(): the socket is no longer active, its descriptor is closed
\* and not watched, and the other sockets and descriptors are as before.
LEMMA ShutdownFacts ==
  ASSUME IndInv, NEW s \in Sock, sock[s].active, Shutdown(s)
  PROVE  /\ sock' \in [Sock -> SocketRecords]
         /\ file' \in [Fd -> Sock \cup {None}]
         /\ input_actions' \in [Fd -> {None, "client", "server"}]
         /\ sock[s].state = "live"
         /\ Agree(sock', file', input_actions')
         /\ \A t \in Sock : sock'[t].state = sock[t].state /\ sock'[t].role = sock[t].role
         /\ \A t \in Sock \ {s} : sock'[t] = sock[t]
         /\ ~sock'[s].active
         /\ \A f \in Fd : file[f] # s => file'[f] = file[f]
<1> USE SocketsAssumption
<1> DEFINE fd == sock[s].fd
<1>1. sock \in [Sock -> SocketRecords] /\ file \in [Fd -> Sock \cup {None}]
      /\ input_actions \in [Fd -> {None, "client", "server"}]
  BY DEF IndInv, TypeOK
<1>2. fd # -1 /\ fd \in Fd /\ file[fd] = s
  BY <1>1 DEF IndInv, Agree, SocketRecords
<1>3. sock[s].state = "live" /\ sock[s].registered
  <2>1. Agree(sock, file, input_actions) /\ file[fd] # None
    BY <1>2 DEF IndInv
  <2> HIDE DEF fd
  <2> QED
    BY <1>2, <2>1 DEF Agree
<1>4. /\ sock' = [sock EXCEPT ![s].fd = -1, ![s].active = FALSE]
      /\ file' = [f \in Fd |-> IF f = fd THEN None ELSE file[f]]
      /\ input_actions' = [f \in Fd |-> IF f = fd THEN None ELSE input_actions[f]]
  BY <1>3 DEF Shutdown, ShutSock, ShutFile, ShutActions
<1>5. sock' \in [Sock -> SocketRecords] /\ file' \in [Fd -> Sock \cup {None}]
      /\ input_actions' \in [Fd -> {None, "client", "server"}]
  BY <1>1, <1>4 DEF SocketRecords
<1>6. /\ \A t \in Sock \ {s} : sock'[t] = sock[t]
      /\ sock'[s].state = sock[s].state /\ sock'[s].role = sock[s].role
      /\ ~sock'[s].active /\ sock'[s].fd = -1
  BY <1>1, <1>4 DEF SocketRecords
<1>7. \A f \in Fd : f # fd => file[f] # s
  BY <1>1, <1>2 DEF IndInv, Agree
<1>8. \A t \in Sock : sock[t].fd = fd => t = s
  BY <1>2 DEF IndInv, Agree
<1>9. \A t \in Sock : sock[t].fd \in Fd \cup {-1}
  BY <1>1 DEF SocketRecords
<1> HIDE DEF fd
<1>10. Agree(sock', file', input_actions')
  <2>1. \A f \in Fd : file'[f] = None => input_actions'[f] = None
    BY <1>4 DEF IndInv, Agree
  <2>2. ASSUME NEW f \in Fd, file'[f] # None
        PROVE  /\ sock'[file'[f]].state = "live" /\ sock'[file'[f]].active /\ sock'[file'[f]].registered
               /\ sock'[file'[f]].fd = f
               /\ input_actions'[f] = sock'[file'[f]].role
    <3>1. f # fd /\ file'[f] = file[f] /\ input_actions'[f] = input_actions[f]
      BY <1>4, <2>2
    <3>2. file[f] \in Sock \ {s}
      BY <1>1, <1>7, <2>2, <3>1
    <3>3. Agree(sock, file, input_actions)
      BY DEF IndInv
    <3>4. /\ sock[file[f]].state = "live" /\ sock[file[f]].active /\ sock[file[f]].registered
          /\ sock[file[f]].fd = f
          /\ input_actions[f] = sock[file[f]].role
      BY <2>2, <3>1, <3>3 DEF Agree
    <3>5. sock'[file[f]] = sock[file[f]]
      BY <1>6, <3>2
    <3> QED
      BY <3>1, <3>4, <3>5
  <2>3. ASSUME NEW t \in Sock
        PROVE  (sock'[t].fd # -1 => file'[sock'[t].fd] = t) /\ (sock'[t].active => sock'[t].fd # -1)
    <3>1. CASE t = s
      BY <1>6, <3>1
    <3>2. CASE t # s
      <4>1. sock'[t] = sock[t] /\ sock[t].fd # fd
        BY <1>6, <1>8, <3>2
      <4>2. sock[t].fd # -1 => file'[sock[t].fd] = file[sock[t].fd]
        BY <1>4, <1>9, <4>1
      <4> QED
        BY <4>1, <4>2 DEF IndInv, Agree
    <3> QED
      BY <3>1, <3>2
  <2> QED
    BY <2>1, <2>2, <2>3 DEF Agree
<1> QED
  BY <1>2, <1>3, <1>4, <1>5, <1>6, <1>10

\* A socket is shut down while the calls st, none of which reads it, remain.
LEMMA ShutdownCalls ==
  ASSUME IndInv, NEW s \in Sock, sock[s].active, Shutdown(s),
         NEW st \in Seq(Frames), Calls(st, sock, file),
         \A i \in 1 .. Len(st) : st[i].k = "read" => st[i].s # s
  PROVE  Calls(st, sock', file')
<1>1. /\ \A t \in Sock : sock'[t].state = sock[t].state /\ sock'[t].role = sock[t].role
      /\ \A f \in Fd : file[f] # s => file'[f] = file[f]
  BY ShutdownFacts
<1>2. ASSUME NEW i \in 1 .. Len(st), st[i].k = "read"
      PROVE  file'[st[i].fd] = file[st[i].fd] /\ sock'[st[i].s].role = sock[st[i].s].role
  BY <1>1, <1>2 DEF Calls, FrameOK
<1>3. ASSUME NEW i \in 1 .. Len(st), st[i].k \in {"server", "sentinel"}
      PROVE  sock'[st[i].s].state = sock[st[i].s].state
  BY <1>1, <1>3 DEF Calls, FrameOK
<1> QED
  BY <1>2, <1>3, CallsKept

LEMMA CloseSocketStep ==
  ASSUME OwnOps = {}, IndInv, NEW s \in Sock, CloseSocket(s)
  PROVE  IndInv'
<1>1. sock[s].active /\ Shutdown(s) /\ s \notin Reading
      /\ note' = [note EXCEPT ![s].closed = TRUE]
      /\ UNCHANGED <<conn, held, stack, throwing>>
  BY DEF CloseSocket, May
<1>2. stack \in Seq(Frames) /\ Calls(stack, sock, file)
  BY DEF IndInv, TypeOK
<1>3. Calls(stack, sock', file')
  BY <1>1, <1>2, ShutdownCalls DEF Reading
<1>4. /\ note' \in [Sock -> Notes]
      /\ \A t \in Sock \ {s} : note'[t] = note[t]
      /\ note'[s].got = note[s].got /\ note'[s].lost = note[s].lost
      /\ note'[s].sentinel = note[s].sentinel /\ note'[s].closed
  BY <1>1 DEF IndInv, TypeOK, Notes
<1>5. TypeOK'
  BY <1>1, <1>2, <1>4, ShutdownFacts DEF IndInv, TypeOK
<1>6. \A t \in held' : sock'[t].state = "live"
  BY <1>1, ShutdownFacts DEF IndInv, TypeOK
<1>7. ASSUME NEW t \in Sock PROVE Known(t, sock'[t], conn'[t], note'[t])
  <2>1. Known(t, sock[t], conn[t], note[t])
    BY DEF IndInv
  <2>2. CASE t # s
    BY <1>1, <1>4, <2>1, <2>2, ShutdownFacts
  <2>3. CASE t = s
    <3>1. sock'[t].role = sock[t].role /\ sock'[t].state = "live" /\ ~sock'[t].active /\ conn'[t] = conn[t]
      BY <1>1, <2>3, ShutdownFacts
    <3> QED
      BY <1>1, <1>4, <2>1, <2>3, <3>1 DEF Known
  <2> QED
    BY <2>2, <2>3
<1> QED
  BY <1>1, <1>3, <1>5, <1>6, <1>7, ShutdownFacts DEF IndInv

\* An active socket whose other side is closed is shut down and its sentinel
\* called, on calls none of which reads it.
LEMMA SentinelStep ==
  ASSUME IndInv, NEW s \in Sock, sock[s].active, conn[s].eof,
         NEW st \in Seq(Frames), Calls(st, sock, file),
         \A i \in 1 .. Len(st) : st[i].k = "read" => st[i].s # s,
         \A i \in 1 .. Len(st) : st[i].k = "handle" /\ st[i].rest # {} => i = 1,
         Sentinel(s, st), throwing' \in BOOLEAN, UNCHANGED <<conn, held>>
  PROVE  IndInv'
<1> DEFINE fr == Frame("sentinel", s, -1)
<1>1. Shutdown(s) /\ \/ stack' = Append(st, fr) /\ note' = [note EXCEPT ![s].sentinel = @ + 1]
                     \/ stack' = st /\ note' = note
  BY DEF Sentinel
<1>2. Calls(st, sock', file')
  BY <1>1, ShutdownCalls
<1>3. fr \in Frames /\ fr.k = "sentinel" /\ fr.s = s
  BY DEF Frames, Frame, Lisp
<1> HIDE DEF fr
<1>4. sock[s].state = "live" /\ \A t \in Sock : sock'[t].state = sock[t].state
  BY <1>1, ShutdownFacts
<1>5. FrameOK(Append(st, fr), Len(st) + 1, sock', file')
  <2>1. Append(st, fr)[Len(st) + 1] = fr
    BY <1>3, AppendFacts
  <2> QED
    BY <1>3, <1>4, <2>1 DEF FrameOK
<1>6. Append(st, fr) \in Seq(Frames) /\ Calls(Append(st, fr), sock', file')
  BY <1>2, <1>3, <1>5, CallsPush
<1>7. stack' \in Seq(Frames) /\ Calls(stack', sock', file')
  BY <1>1, <1>2, <1>6
<1>8. /\ note' \in [Sock -> Notes]
      /\ \A t \in Sock \ {s} : note'[t] = note[t]
      /\ note'[s].got = note[s].got /\ note'[s].lost = note[s].lost
      /\ note'[s].sentinel \in {note[s].sentinel, note[s].sentinel + 1} /\ note'[s].closed = note[s].closed
  <2>1. note \in [Sock -> Notes]
    BY DEF IndInv, TypeOK
  <2>2. CASE note' = note
    BY <2>1, <2>2
  <2>3. CASE note' = [note EXCEPT ![s].sentinel = @ + 1]
    <3> DEFINE n == [note[s] EXCEPT !.sentinel = @ + 1]
    <3>1. n \in Notes /\ n.got = note[s].got /\ n.lost = note[s].lost /\ n.closed = note[s].closed
          /\ n.sentinel = note[s].sentinel + 1
      <4>1. note[s] \in Notes /\ note[s].sentinel + 1 \in Nat
        BY <2>1 DEF Notes
      <4> QED
        BY <4>1 DEF Notes
    <3>2. note' = [note EXCEPT ![s] = n]
      BY <2>3
    <3> HIDE DEF n
    <3> QED
      BY <2>1, <3>1, <3>2
  <2> QED
    BY <1>1, <2>2, <2>3
<1>9. TypeOK'
  BY <1>1, <1>7, <1>8, ShutdownFacts DEF IndInv, TypeOK
<1>10. \A t \in held' : sock'[t].state = "live"
  BY <1>4 DEF IndInv, TypeOK
<1>11. ASSUME NEW t \in Sock PROVE Known(t, sock'[t], conn'[t], note'[t])
  <2>1. Known(t, sock[t], conn[t], note[t])
    BY DEF IndInv
  <2>2. CASE t # s
    BY <1>1, <1>8, <2>1, <2>2, ShutdownFacts
  <2>3. CASE t = s
    <3>1. sock'[t].role = sock[t].role /\ sock'[t].state = "live" /\ ~sock'[t].active /\ conn'[t] = conn[t]
      BY <1>1, <1>4, <2>3, ShutdownFacts
    <3>2. note[s].sentinel = 0 /\ ~note[s].closed
      BY <2>1, <2>3 DEF Known
    <3> QED
      BY <1>8, <2>1, <2>3, <3>1, <3>2 DEF Known
  <2> QED
    BY <2>2, <2>3
<1> QED
  BY <1>1, <1>7, <1>9, <1>10, <1>11, ShutdownFacts DEF IndInv

LEMMA WriteFailsStep ==
  ASSUME OwnOps = {}, IndInv, NEW s \in Sock, WriteFails(s)
  PROVE  IndInv'
<1>1. Runs /\ s \notin Reading /\ throwing' \in BOOLEAN /\ UNCHANGED <<conn, held>>
  BY DEF WriteFails, May
<1>2. stack \in Seq(Frames) /\ Calls(stack, sock, file)
  BY DEF IndInv, TypeOK
<1>3. CASE sock[s].active
  BY <1>1, <1>2, <1>3, NothingWaits, SentinelStep DEF WriteFails, Reading
<1>4. CASE ~sock[s].active
  BY <1>1, <1>2, <1>4, OnlyCalls DEF WriteFails
<1> QED
  BY <1>3, <1>4
\* The socket whose input ends is read by the innermost call and by no other.
LEMMA ReadEndStep == IndInv /\ ReadEnd => IndInv'
<1> SUFFICES ASSUME IndInv, ReadEnd PROVE IndInv'
  OBVIOUS
<1> USE SocketsAssumption
<1> DEFINE s == Top.s
           fd == Top.fd
           up == Front(stack)
<1>1. stack \in Seq(Frames) /\ stack # <<>> /\ Calls(stack, sock, file) /\ Top.k = "read"
  BY DEF ReadEnd, IndInv, TypeOK, Busy
<1>2. /\ up \in Seq(Frames) /\ Len(stack) \in Nat \ {0} /\ Len(up) = Len(stack) - 1
      /\ \A i \in 1 .. Len(stack) - 1 : up[i] = stack[i]
      /\ Top = stack[Len(stack)] /\ Top \in Frames
  BY <1>1, FrontFacts DEF Top
<1>3. s \in Sock /\ fd \in Fd /\ file[fd] = s
  BY <1>1, <1>2 DEF Calls, FrameOK
<1>4. sock[s].active /\ conn[s].eof /\ Sentinel(s, up) /\ throwing' = throwing /\ UNCHANGED <<conn, held>>
  <2>1. sock[s].active
    BY <1>3, OpenFacts
  <2>2. s # None
    BY <1>3
  <2> QED
    BY <1>3, <2>1, <2>2 DEF ReadEnd
<1>5. Calls(up, sock, file)
  BY <1>1, CallsPop
<1>6. ASSUME NEW i \in 1 .. Len(up), up[i].k = "read" PROVE up[i].s # s
  <2>1. i \in 1 .. Len(stack) /\ i # Len(stack) /\ stack[i] = up[i] /\ Len(stack) \in 1 .. Len(stack)
    BY <1>2
  <2>2. stack[i].fd # stack[Len(stack)].fd
    BY <1>1, <1>2, <1>6, <2>1 DEF Calls, ReadOnce
  <2>3. up[i].fd \in Fd /\ file[up[i].fd] = up[i].s /\ up[i].s \in Sock
    BY <1>5, <1>6 DEF Calls, FrameOK
  <2>4. up[i].fd = sock[up[i].s].fd /\ fd = sock[s].fd
    BY <1>3, <2>3, OpenFacts
  <2> QED
    BY <1>2, <2>1, <2>2, <2>4
<1>7. \A i \in 1 .. Len(up) : up[i].k = "handle" /\ up[i].rest # {} => i = 1
  BY <1>1, <1>2, NothingWaits DEF Busy
<1> HIDE DEF s, up
<1> QED
  BY <1>2, <1>3, <1>4, <1>5, <1>6, <1>7, SentinelStep DEF IndInv, TypeOK

----------------------------------------------------------------------------
(* Data *)

\* What is read comes from the connection of the socket that is being read.
LEMMA ReadSomeStep == IndInv /\ ReadSome => IndInv'
<1> SUFFICES ASSUME IndInv, ReadSome PROVE IndInv'
  OBVIOUS
<1> USE SocketsAssumption
<1> DEFINE s == Top.s
           fd == Top.fd
           fr == Frame("stream", s, fd)
<1>1. stack \in Seq(Frames) /\ stack # <<>> /\ Calls(stack, sock, file) /\ Top.k = "read"
  BY DEF ReadSome, IndInv, TypeOK, Busy
<1>2. Len(stack) \in Nat \ {0} /\ Top = stack[Len(stack)] /\ Top \in Frames
  BY <1>1, FrontFacts DEF Top
<1>3. s \in Sock /\ fd \in Fd /\ file[fd] = s /\ sock[s].role = "client"
  BY <1>1, <1>2 DEF Calls, FrameOK
<1>4. sock[s].state = "live"
  BY <1>3, OpenFacts
<1>5. /\ conn' = [conn EXCEPT ![s].read = @ + 1]
      /\ \/ /\ stack' = Append(stack, fr)
            /\ note' = [note EXCEPT ![s].got = Append(@, <<s, conn[s].read + 1>>)]
         \/ stack' = stack /\ note' = [note EXCEPT ![s].lost = @ + 1]
      /\ UNCHANGED <<sock, file, input_actions, held, throwing>>
  BY <1>3 DEF ReadSome
<1>6. fr \in Frames /\ fr.k = "stream" /\ fr.s = s
  BY <1>3 DEF Frames, Frame, Lisp
<1> HIDE DEF s, fd, fr
<1>7. stack' \in Seq(Frames) /\ Calls(stack', sock, file)
  <2>1. CASE stack' = stack
    BY <1>1, <2>1
  <2>2. CASE stack' = Append(stack, fr)
    <3>1. stack'[Len(stack) + 1] = fr /\ stack'[Len(stack)] = Top
      BY <1>1, <1>2, <1>6, <2>2, AppendFacts
    <3>2. (Len(stack) + 1) - 1 = Len(stack) /\ Len(stack) + 1 > 1
      BY <1>2
    <3>3. FrameOK(stack', Len(stack) + 1, sock, file)
      BY <1>1, <1>6, <3>1, <3>2 DEF FrameOK, s
    <3> QED
      BY <1>1, <1>6, <2>2, <3>3, CallsPush, NothingWaits DEF Busy
  <2> QED
    BY <1>5, <2>1, <2>2
<1>8. conn[s] \in Connections /\ note[s] \in Notes /\ conn \in [Sock -> Connections] /\ note \in [Sock -> Notes]
  BY <1>3 DEF IndInv, TypeOK
<1>9. /\ conn' \in [Sock -> Connections]
      /\ \A t \in Sock \ {s} : conn'[t] = conn[t]
      /\ conn'[s].read = conn[s].read + 1 /\ conn'[s].eof = conn[s].eof
      /\ conn[s].read \in Nat
  <2> DEFINE c == [conn[s] EXCEPT !.read = @ + 1]
  <2>1. c \in Connections /\ c.read = conn[s].read + 1 /\ c.eof = conn[s].eof /\ conn[s].read \in Nat
    BY <1>8 DEF Connections
  <2>2. conn' = [conn EXCEPT ![s] = c]
    BY <1>5
  <2> HIDE DEF c
  <2> QED
    BY <1>3, <1>8, <2>1, <2>2
<1>10. /\ note' \in [Sock -> Notes]
       /\ \A t \in Sock \ {s} : note'[t] = note[t]
       /\ note'[s].sentinel = note[s].sentinel /\ note'[s].closed = note[s].closed
       /\ \/ note'[s].got = Append(note[s].got, <<s, conn[s].read + 1>>) /\ note'[s].lost = note[s].lost
          \/ note'[s].got = note[s].got /\ note'[s].lost = note[s].lost + 1
  <2>1. CASE note' = [note EXCEPT ![s].got = Append(@, <<s, conn[s].read + 1>>)]
    <3>1. Append(note[s].got, <<s, conn[s].read + 1>>) \in Seq(Sock \X Nat)
      BY <1>3, <1>8, <1>9 DEF Notes
    <3> QED
      BY <1>3, <1>8, <2>1, <3>1 DEF Notes
  <2>2. CASE note' = [note EXCEPT ![s].lost = @ + 1]
    <3> DEFINE n == [note[s] EXCEPT !.lost = @ + 1]
    <3>1. n \in Notes /\ n.got = note[s].got /\ n.lost = note[s].lost + 1 /\ n.closed = note[s].closed
          /\ n.sentinel = note[s].sentinel
      <4>1. note[s].lost + 1 \in Nat
        BY <1>8 DEF Notes
      <4> QED
        BY <1>8, <4>1 DEF Notes
    <3>2. note' = [note EXCEPT ![s] = n]
      BY <2>2
    <3> HIDE DEF n
    <3> QED
      BY <1>3, <1>8, <3>1, <3>2
  <2> QED
    BY <1>5, <2>1, <2>2
<1>11. TypeOK'
  BY <1>5, <1>7, <1>9, <1>10 DEF IndInv, TypeOK
<1>12. ASSUME NEW t \in Sock PROVE Known(t, sock'[t], conn'[t], note'[t])
  <2>1. Known(t, sock[t], conn[t], note[t])
    BY DEF IndInv
  <2>2. CASE t # s
    BY <1>5, <1>9, <1>10, <2>1, <2>2
  <2>3. CASE t = s
    <3> DEFINE got == note[s].got
    <3>1. got \in Seq(Sock \X Nat) /\ note[s].lost \in Nat
      BY <1>8 DEF Notes
    <3>2. got \in Seq(Sock \X Nat) /\ Len(got) \in Nat /\ note[s].lost \in Nat
          /\ \A i \in 1 .. Len(got) : got[i][2] \in Nat
      <4> HIDE DEF got
      <4>1. \A i \in 1 .. Len(got) : got[i] \in Sock \X Nat
        BY <3>1
      <4> QED
        BY <3>1, <4>1
    <3>3. Len(got) + note[s].lost = conn[s].read
      BY <1>3, <2>1, <2>3 DEF Known
    <3>4. CASE note'[s].got = got /\ note'[s].lost = note[s].lost + 1
      <4>1. Len(note'[s].got) + note'[s].lost = conn'[s].read
        <5> HIDE DEF got
        <5> QED
          BY <1>9, <3>2, <3>4, <3>3
      <4>2. \A i \in 1 .. Len(got) : got[i][1] = s /\ got[i][2] <= conn'[s].read
        <5>1. \A i \in 1 .. Len(got) : got[i][1] = s /\ got[i][2] <= conn[s].read
          BY <2>1, <2>3 DEF Known
        <5> HIDE DEF got
        <5> QED
          BY <1>9, <3>2, <5>1
      <4> QED
        BY <1>4, <1>5, <1>9, <1>10, <2>1, <2>3, <3>4, <4>1, <4>2 DEF Known
    <3>5. CASE note'[s].got = Append(got, <<s, conn[s].read + 1>>) /\ note'[s].lost = note[s].lost
      <4> DEFINE new == note'[s].got
      <4>1. /\ Len(new) = Len(got) + 1
            /\ \A i \in 1 .. Len(got) : new[i] = got[i]
            /\ new[Len(got) + 1] = <<s, conn[s].read + 1>>
        <5>1. <<s, conn[s].read + 1>> \in Sock \X Nat
          BY <1>3, <1>8 DEF Connections
        <5> HIDE DEF got
        <5>2. /\ Len(Append(got, <<s, conn[s].read + 1>>)) = Len(got) + 1
              /\ Append(got, <<s, conn[s].read + 1>>)[Len(got) + 1] = <<s, conn[s].read + 1>>
              /\ \A i \in 1 .. Len(got) : Append(got, <<s, conn[s].read + 1>>)[i] = got[i]
          BY ONLY <3>2, <5>1, AppendFacts
        <5> QED
          BY ONLY <3>5, <5>2 DEF new
      <4> HIDE DEF new, got
      <4>2. \A i \in 1 .. Len(got) : got[i][1] = s /\ got[i][2] <= conn[s].read
        BY <2>1, <2>3 DEF Known, got
      <4>3. \A i \in 1 .. Len(new) : new[i][1] = s /\ new[i][2] <= conn[s].read + 1
        BY <1>9, <3>2, <4>1, <4>2
      <4>4. \A i \in 1 .. Len(got) - 1 : got[i][2] < got[i + 1][2]
        BY <2>1, <2>3 DEF Known, got
      <4>5. ASSUME NEW i \in 1 .. Len(new) - 1 PROVE new[i][2] < new[i + 1][2]
        <5>1. CASE i = Len(got)
          <6>1. new[i] = got[i] /\ new[i + 1] = <<s, conn[s].read + 1>> /\ i \in 1 .. Len(got)
            BY <4>1, <5>1
          <6>2. got[i][2] <= conn[s].read /\ got[i][2] \in Nat /\ conn[s].read \in Nat
            BY <1>9, <3>2, <4>2, <6>1
          <6> QED
            BY ONLY <6>1, <6>2
        <5>2. CASE i # Len(got)
          <6>1. i \in 1 .. Len(got) - 1 /\ i + 1 \in 1 .. Len(got)
            BY <3>2, <4>1, <5>2
          <6> QED
            BY <4>1, <4>4, <6>1
        <5> QED
          BY <5>1, <5>2
      <4>6. Len(new) + note'[s].lost = conn[s].read + 1
        <5>1. note'[s].lost = note[s].lost
          BY <3>5
        <5>2. Len(got) \in Nat /\ note[s].lost \in Nat /\ Len(new) = Len(got) + 1
          BY <3>2, <4>1
        <5>3. Len(got) + note[s].lost = conn[s].read
          BY <3>3 DEF got
        <5> QED
          BY <5>1, <5>2, <5>3
      <4>7. conn'[s].read = conn[s].read + 1
        BY <1>9
      <4>8. /\ \A i \in 1 .. Len(note'[s].got) :
                 note'[s].got[i][1] = s /\ note'[s].got[i][2] <= conn'[s].read
            /\ \A i \in 1 .. Len(note'[s].got) - 1 : note'[s].got[i][2] < note'[s].got[i + 1][2]
            /\ Len(note'[s].got) + note'[s].lost = conn'[s].read
        BY ONLY <4>3, <4>5, <4>6, <4>7 DEF new
      <4>9. /\ sock'[s].state # "unborn"
            /\ note'[s].closed => ~sock'[s].active
            /\ note'[s].sentinel # 0 => /\ note'[s].sentinel = 1 /\ ~sock'[s].active
                                        /\ conn'[s].eof /\ ~note'[s].closed
        BY <1>4, <1>5, <1>9, <1>10, <2>1, <2>3 DEF Known
      <4> QED
        BY ONLY <2>3, <4>8, <4>9 DEF Known
    <3> QED
      BY <1>10, <3>4, <3>5
  <2> QED
    BY <2>2, <2>3
<1> QED
  BY <1>5, <1>7, <1>11, <1>12 DEF IndInv

\* Data comes, or the other side is closed, for a socket that is open.
LEMMA PeerStep == IndInv /\ Peer => IndInv'
<1> SUFFICES ASSUME IndInv, NEW s \in Sock, PeerSends(s) \/ PeerCloses(s) PROVE IndInv'
  BY DEF Peer
<1> USE SocketsAssumption
<1>1. conn \in [Sock -> Connections]
  BY DEF IndInv, TypeOK
<1>2. sock[s].state = "live"
  BY DEF PeerSends, PeerCloses, IndInv, Agree
<1>3. UNCHANGED <<sock, file, input_actions, held, stack, throwing, note>>
  BY DEF PeerSends, PeerCloses
<1>4. /\ conn' \in [Sock -> Connections]
      /\ \A t \in Sock \ {s} : conn'[t] = conn[t]
      /\ conn'[s].read = conn[s].read /\ (conn[s].eof => conn'[s].eof)
  <2>1. CASE PeerSends(s)
    <3> DEFINE c == [conn[s] EXCEPT !.came = @ + 1]
    <3>1. c \in Connections /\ c.read = conn[s].read /\ c.eof = conn[s].eof
      BY <1>1 DEF Connections
    <3>2. conn' = [conn EXCEPT ![s] = c]
      BY <2>1 DEF PeerSends
    <3> HIDE DEF c
    <3> QED
      BY <1>1, <3>1, <3>2
  <2>2. CASE PeerCloses(s)
    BY <1>1, <2>2 DEF PeerCloses, Connections
  <2> QED
    BY <2>1, <2>2
<1>5. TypeOK'
  BY <1>3, <1>4 DEF IndInv, TypeOK
<1>6. ASSUME NEW t \in Sock PROVE Known(t, sock'[t], conn'[t], note'[t])
  <2>1. Known(t, sock[t], conn[t], note[t])
    BY DEF IndInv
  <2>2. CASE t # s
    BY <1>3, <1>4, <2>1, <2>2
  <2>3. CASE t = s
    BY <1>2, <1>3, <1>4, <2>1, <2>3 DEF Known
  <2> QED
    BY <2>2, <2>3
<1> QED
  BY <1>3, <1>5, <1>6 DEF IndInv

----------------------------------------------------------------------------
(* Memory *)

\* What is freed is not active, not held and not the argument of a function
\* that is running.
LEMMA GarbageCollectStep == IndInv /\ GarbageCollect => IndInv'
<1> SUFFICES ASSUME IndInv, GarbageCollect PROVE IndInv'
  OBVIOUS
<1> USE SocketsAssumption
<1>1. PICK dropped \in SUBSET held :
        LET dead == {s \in Sock : sock[s].state = "live"} \ Marked(held \ dropped) IN
        /\ dropped \subseteq dead
        /\ sock' = [s \in Sock |-> IF s \in dead THEN [sock[s] EXCEPT !.state = "freed"] ELSE sock[s]]
        /\ held' = held \ dropped
  BY DEF GarbageCollect
<1> DEFINE dead == {s \in Sock : sock[s].state = "live"} \ Marked(held \ dropped)
<1>2. UNCHANGED <<file, conn, input_actions, stack, throwing, note>>
  BY DEF GarbageCollect
<1>3. sock' = [s \in Sock |-> IF s \in dead THEN [sock[s] EXCEPT !.state = "freed"] ELSE sock[s]]
      /\ held' = held \ dropped
  BY <1>1
<1>4. \A s \in dead : ~sock[s].active /\ s \notin held' /\ s \notin InCall /\ s \in Sock /\ sock[s].state = "live"
  BY <1>3 DEF Marked, Active
<1> HIDE DEF dead
<1>5. sock \in [Sock -> SocketRecords]
  BY DEF IndInv, TypeOK
<1>6. \A s \in Sock : /\ sock'[s] \in SocketRecords
                      /\ sock'[s].fd = sock[s].fd /\ sock'[s].active = sock[s].active
                      /\ sock'[s].registered = sock[s].registered /\ sock'[s].role = sock[s].role
                      /\ sock'[s].state = IF s \in dead THEN "freed" ELSE sock[s].state
                      /\ s \notin dead => sock'[s] = sock[s]
  BY <1>3, <1>5 DEF SocketRecords
<1>7. sock' \in [Sock -> SocketRecords]
  BY <1>3, <1>6
<1>8. TypeOK'
  BY <1>2, <1>3, <1>7 DEF IndInv, TypeOK
<1>9. Agree(sock', file', input_actions')
  <2>1. \A f \in Fd : file[f] # None => file[f] \in Sock /\ file[f] \notin dead
    BY <1>4 DEF IndInv, Agree, TypeOK
  <2> QED
    BY <1>2, <1>6, <2>1 DEF IndInv, Agree
<1>10. \A s \in held' : sock'[s].state = "live"
  BY <1>3, <1>4, <1>6 DEF IndInv, TypeOK
<1>11. Calls(stack', sock', file')
  <2>1. ASSUME NEW i \in 1 .. Len(stack), stack[i].k = "read"
        PROVE  sock'[stack[i].s].role = sock[stack[i].s].role
    BY <1>6, <2>1 DEF IndInv, Calls, FrameOK
  <2>2. ASSUME NEW i \in 1 .. Len(stack), stack[i].k \in {"server", "sentinel"}
        PROVE  sock'[stack[i].s].state = sock[stack[i].s].state
    <3>1. stack[i].s \in Sock /\ stack[i].s \in InCall
      BY <2>2 DEF IndInv, Calls, FrameOK, InCall
    <3> QED
      BY <1>4, <1>6, <3>1
  <2>3. stack \in Seq(Frames) /\ Calls(stack, sock, file)
    BY DEF IndInv, TypeOK
  <2>4. Calls(stack, sock', file)
    BY <2>1, <2>2, <2>3, CallsKept
  <2> QED
    BY <1>2, <2>4
<1>12. ASSUME NEW s \in Sock PROVE Known(s, sock'[s], conn'[s], note'[s])
  <2>1. Known(s, sock[s], conn[s], note[s])
    BY DEF IndInv
  <2>2. CASE s \notin dead
    BY <1>2, <1>6, <2>1, <2>2
  <2>3. CASE s \in dead
    BY <1>2, <1>6, <2>1, <2>3 DEF Known
  <2> QED
    BY <2>2, <2>3
<1> QED
  BY <1>8, <1>9, <1>10, <1>11, <1>12 DEF IndInv

----------------------------------------------------------------------------
(* Theorems *)

LEMMA InitHolds == Init => IndInv
<1> SUFFICES ASSUME Init PROVE IndInv
  OBVIOUS
<1> USE DEF Init
<1>1. Unborn \in SocketRecords /\ Untouched \in Connections
  BY DEF Unborn, SocketRecords, Untouched, Connections
<1>2. Silent \in Notes
  BY DEF Silent, Notes
<1>3. TypeOK
  <2>1. stack \in Seq(Frames)
    OBVIOUS
  <2> QED
    BY <1>1, <1>2, <2>1 DEF TypeOK
<1>4. Agree(sock, file, input_actions)
  BY DEF Agree, Unborn
<1>5. Calls(stack, sock, file)
  BY DEF Calls, ReadOnce
<1>6. \A s \in Sock : Known(s, sock[s], conn[s], note[s])
  BY DEF Known, Unborn, Untouched, Silent
<1> QED
  BY <1>3, <1>4, <1>5, <1>6 DEF IndInv

LEMMA NextHolds ==
  ASSUME OwnOps = {}, IndInv, [Next]_vars PROVE IndInv'
<1>1. CASE Library
  BY <1>1, EventLoopStep, HandleExceptionStep, HandleInputStep, ReadSomeStep, ReadNothingStep, ReadEndStep
  DEF Library
<1>2. CASE LispReturns
  BY <1>2, LispReturnsStep
<1>3. CASE Program
  BY <1>3, NameFailsStep, MakeClientSocketStep, MakeServerSocketStep, MakeSocketFailsStep,
     GarbageCollectStep, LispThrowsStep, SocketAcceptStep, CloseSocketStep, WriteFailsStep,
     AcceptSocketOutputStep
  DEF Program, SocketClient, SocketServer
<1>4. CASE Peer
  BY <1>4, PeerStep
<1>5. CASE UNCHANGED vars
  BY <1>5 DEF vars, IndInv, TypeOK
<1> QED
  BY <1>1, <1>2, <1>3, <1>4, <1>5 DEF Next

LEMMA Inductive == ASSUME OwnOps = {} PROVE Spec => []IndInv
<1>1. IndInv /\ [Next]_vars => IndInv'
  BY NextHolds
<1> QED
  BY <1>1, InitHolds, PTL DEF Spec

\* Every variable keeps its type.
THEOREM TypeCorrect == ASSUME OwnOps = {} PROVE Spec => []TypeOK
<1>1. IndInv => TypeOK
  BY DEF IndInv
<1> QED
  BY <1>1, Inductive, PTL

\* handle_input() finds an active socket for every descriptor that is still
\* watched, and no socket that is watched, held or used by a call is freed.
THEOREM SocketFound == ASSUME OwnOps = {} PROVE Spec => []HandlerHasSocket
  BY Inductive, IndInvSuffices, PTL

\* Every stream function gets the data of its own connection, each piece once
\* and in order, and every sentinel is called at most once, after the end.
THEOREM DataOwned == ASSUME OwnOps = {} PROVE Spec => []OwnData
  BY Inductive, IndInvSuffices, PTL
============================================================================
