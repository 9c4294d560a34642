---------------------------- MODULE FileObjects ----------------------------
(***************************************************************************)
(* The rest of files.c: rename-file and copy-file, which are given two     *)
(* names and so up to two handlers, file objects from open-file to         *)
(* close-file or the sweep, and the functions that are called when a file  *)
(* has input.                                                              *)
(***************************************************************************)
EXTENDS Files

------------------------------------------------------------------------------
\* rename-file and copy-file.

Found(op, v) == IF v.k = "null" THEN "0" ELSE rep_get_file_handler(op, v.v)
NewName(v, s) == IF v.k = "name" THEN v.v ELSE s

\* A handler stores and moves data as the primitives do.
TwoNames(op, a, b, kept) == IF op = "rename-file" THEN rep_rename_file(fs, a, b) ELSE rep_copy_file(fs, a, b, kept)

\* The two handlers are known, FR has the names made local where that can be.
Both(fr) ==
  LET below == Tail(stack) IN
  IF fr.h = "0" \/ fr.g = "0" THEN Return(Null) /\ UNCHANGED <<fs, throwing, blocked>>
  ELSE CASE fr.h = NoHandler /\ fr.g = NoHandler ->
         \E kept \in {0, 9} :
           LET p == TwoNames(fr.fn, fr.a, fr.b, kept)
           IN /\ Return(p.v)
              /\ fs' = p.fs
              /\ throwing' = (throwing \/ p.v.k = "null")
              /\ UNCHANGED blocked
    [] fr.h = fr.g /\ fr.h \in Handler ->
         rep_call_file_handler(below, fr.h, fr.fn, fr) /\ UNCHANGED <<fs, throwing>>
    [] fr.h # fr.g /\ fr.h \in Handler \cup {NoHandler} /\ fr.g \in Handler \cup {NoHandler} /\ fr.fn = "rename-file" ->
         Return(Null) /\ throwing' = TRUE /\ UNCHANGED <<fs, blocked>>
    [] fr.h = NoHandler /\ fr.g \in Handler /\ fr.fn = "copy-file" ->
         rep_call_file_handler(below, fr.g, "copy-file-from-local-fs", fr) /\ UNCHANGED <<fs, throwing>>
    [] fr.g = NoHandler /\ fr.h \in Handler /\ fr.fn = "copy-file" ->
         rep_call_file_handler(below, fr.h, "copy-file-to-local-fs", fr) /\ UNCHANGED <<fs, throwing>>
    [] OTHER ->
         /\ rep_call_file_handler(<<[fr EXCEPT !.pc = "half"]>> \o below, fr.h, "copy-file-to-local-fs",
                                  [fr EXCEPT !.b = Temp])
         /\ UNCHANGED <<fs, throwing>>

\* From one handler to the other over a temporary file, which stays when the
\* first half fails.
RemoteStep ==
  \/ /\ Top.pc = "half" /\ ret # NoValue
     /\ IF ret.k = "null" THEN Return(Null) /\ UNCHANGED blocked
        ELSE rep_call_file_handler(<<[Top EXCEPT !.pc = "done"]>> \o Tail(stack), Top.g, "copy-file-from-local-fs",
                                   [Top EXCEPT !.a = Temp])
     /\ UNCHANGED <<fs, throwing>>
  \/ /\ Top.pc = "done" /\ ret # NoValue
     /\ fs' = [fs EXCEPT ![Temp] = Absent]
     /\ Return(ret)
     /\ UNCHANGED <<throwing, blocked>>

\* rep_localise_and_get_handler() for each of the names.
TwoNameStep ==
  /\ ~crashed /\ stack # <<>> /\ Top.fn \in {"rename-file", "copy-file"}
  /\ LET first == [Top EXCEPT !.pc = "local-b", !.a = NewName(ret, @), !.h = Found(Top.fn, ret)]
         second == [Top EXCEPT !.b = NewName(ret, @), !.g = Found(Top.fn, ret)]
         same == UNCHANGED <<fs, throwing, blocked>>
     IN \/ /\ Top.pc = "start"
           /\ Enter([Top EXCEPT !.pc = "local-a"], Frame("local-file-name", Top.a, <<>>)) /\ same
        \/ /\ Top.pc = "local-a" /\ ret # NoValue
           /\ IF ret.k = "nil" THEN Enter([Top EXCEPT !.pc = "expand-a"], Frame("expand-file-name", Top.a, <<>>))
              ELSE Enter(first, Frame("local-file-name", Top.b, <<>>))
           /\ same
        \/ /\ Top.pc = "expand-a" /\ ret # NoValue
           /\ Enter(first, Frame("local-file-name", Top.b, <<>>)) /\ same
        \/ /\ Top.pc = "local-b" /\ ret # NoValue
           /\ IF ret.k = "nil"
              THEN Enter([Top EXCEPT !.pc = "expand-b"], Frame("expand-file-name", Top.b, <<>>)) /\ same
              ELSE Both(second)
        \/ Top.pc = "expand-b" /\ ret # NoValue /\ Both(second)
        \/ RemoteStep
  /\ UNCHANGED <<file, fh, inputs, held, program, asked, crashed>>

RenameFile(s, d) == Call("rename-file", s, d)
CopyFile(s, d) == Call("copy-file", s, d)

------------------------------------------------------------------------------
\* File objects.

Fresh == {f \in File : file[f].state = "unborn"}
NewFile == CHOOSE f \in Fresh : TRUE
FreeFd == {d \in Fd : fh[d].mode = "closed"}

\* What stdio still holds goes to the file; a device keeps nothing.
Flushed(d, in) ==
  IF fh[d].path \in Path THEN [in EXCEPT ![fh[d].path].data = @ \o fh[d].buf] ELSE in

\* fopen() fails where there is no such file or no descriptor; the new object
\* is then garbage.
Fopen(s, mode) ==
  LET to == SysFollow(fs, s)
      can == /\ FreeFd # {}
             /\ IF mode = "read" THEN SysNode(fs, to).kind = "file"
                ELSE SysCanMake(fs, to) /\ SysNode(fs, to).kind \in {"none", "file"}
      d == Min(FreeFd)
      data == IF mode = "write" THEN <<>> ELSE fs[to].data
  IN IF ~can
     THEN /\ file' = [file EXCEPT ![NewFile] = Unbound]
          /\ throwing' = TRUE
          /\ Return(Null)
          /\ UNCHANGED <<fs, fh>>
     ELSE /\ file' = [file EXCEPT ![NewFile] =
                        [Unbound EXCEPT !.name = s, !.handler = "t", !.fd = d, !.bogus = mode = "write",
                                        !.line = IF mode = "write" THEN 0 ELSE 1]]
          /\ fh' = [fh EXCEPT ![d] = [path |-> to, pos |-> IF mode = "append" THEN Len(data) ELSE 0, mode |-> mode,
                                      buf |-> <<>>]]
          /\ fs' = IF mode = "read" THEN fs ELSE [fs EXCEPT ![to] = Regular(data)]
          /\ Return(FileV(NewFile))
          /\ UNCHANGED throwing

OpenStep ==
  /\ InC("open-file")
  /\ \/ /\ Top.pc = "start"
        /\ Enter([Top EXCEPT !.pc = "expanded"], Frame("expand-file-name", Top.a, <<>>))
        /\ UNCHANGED <<fs, file, fh, throwing, blocked>>
     \/ /\ Top.pc = "expanded" /\ ret # NoValue
        /\ LET fr == [Top EXCEPT !.a = ret.v, !.pc = "opened"]
               h == rep_get_file_handler("open-file", ret.v)
           IN CASE ret.k = "null" -> Return(Null) /\ UNCHANGED <<fs, file, fh, throwing, blocked>>
                [] ret.k # "null" /\ h # NoHandler ->
                     /\ rep_call_file_handler(<<fr>> \o Tail(stack), h, "open-file", fr)
                     /\ UNCHANGED <<fs, file, fh, throwing>>
                [] OTHER -> Fresh # {} /\ Fopen(ret.v, Top.b) /\ UNCHANGED blocked
     \/ /\ Top.pc = "opened" /\ ret # NoValue
        /\ file' = IF ret.k = "file" THEN [file EXCEPT ![ret.v].name = Top.a] ELSE file
        /\ Return(ret)
        /\ UNCHANGED <<fs, fh, throwing, blocked>>
  /\ UNCHANGED <<inputs, held, program, asked, crashed>>

OpenFile(s, mode) == Fresh # {} /\ Call("open-file", s, mode)

MakeFileFromStream(s, stream, h) ==
  /\ Calls("make-file-from-stream", <<>>, <<>>)
  /\ Fresh # {}
  /\ file' = [file EXCEPT ![NewFile] = [Unbound EXCEPT !.name = s, !.handler = "h", !.by = h, !.stream = stream]]
  /\ ret' = FileV(NewFile)
  /\ UNCHANGED <<fs, fh, inputs, stack, throwing, blocked, held, crashed>>

\* stdin-file, stdout-file and stderr-file: D is open from the start.
StdFile(d) ==
  /\ Calls("stdout-file", <<>>, <<>>)
  /\ Fresh # {}
  /\ LET old == {f \in File : file[f].state = "live" /\ file[f].std /\ file[f].fd = d}
     IN IF old # {} THEN ret' = FileV(CHOOSE f \in old : TRUE) /\ UNCHANGED file
        ELSE /\ file' = [file EXCEPT ![NewFile] = [Unbound EXCEPT !.name = <<"<">>, !.handler = "t", !.fd = d,
                                                                  !.std = TRUE]]
             /\ ret' = FileV(NewFile)
  /\ UNCHANGED <<fs, fh, inputs, stack, throwing, blocked, held, crashed>>

\* The loop of set-input-handler that takes a handler off the list goes on
\* from the pointer it has just changed: through the null pointer where the
\* handler was the last.
Unhandled(d) ==
  LET at == {i \in DOMAIN inputs : inputs[i].fd = d}
  IN IF at = {} THEN inputs' = inputs /\ crashed' = FALSE
     ELSE /\ inputs' = RemoveAt(inputs, Min(at))
          /\ crashed' = (at = {Len(inputs)})

\* FUNCTION reads F, so it refers to it.
SetInputHandler(f, on) ==
  /\ Calls("set-input-handler", <<>>, <<>>)
  /\ f \in held
  /\ LET d == file[f].fd
         at == {i \in DOMAIN inputs : inputs[i].fd = d}
     IN CASE ~Local(f) -> throwing' = TRUE /\ ret' = Null /\ UNCHANGED <<inputs, crashed>>
          [] Local(f) /\ on ->
               /\ inputs' = IF at # {} THEN [inputs EXCEPT ![Min(at)].f = f] ELSE <<[fd |-> d, f |-> f]>> \o inputs
               /\ ret' = Value("t")
               /\ UNCHANGED <<throwing, crashed>>
          [] OTHER -> Unhandled(d) /\ ret' = Value("nil") /\ UNCHANGED throwing
  /\ UNCHANGED <<fs, file, fh, stack, blocked, held>>

\* input_handler_callback(), from the event loop.
InputReady(d) ==
  LET at == {i \in DOMAIN inputs : inputs[i].fd = d} IN
  /\ InLisp /\ stack = <<>> /\ at # {} /\ program.calls > 0
  /\ program' = [program EXCEPT !.calls = @ - 1]
  /\ stack' = <<[Frame("input", <<>>, <<>>) EXCEPT !.f = inputs[Min(at)].f]>>
  /\ UNCHANGED <<fs, file, fh, inputs, ret, throwing, blocked, held, asked, crashed>>

Unbind(f) == [file EXCEPT ![f].name = <<>>, ![f].handler = "nil", ![f].by = NoHandler, ![f].fd = NoFd,
                          ![f].stream = "nil"]
Signalled == throwing' = TRUE /\ ret' = Null

CloseLocal(f) ==
  LET d == file[f].fd IN
  /\ Unhandled(d)
  /\ fs' = Flushed(d, fs)
  /\ IF file[f].std THEN fh' = [fh EXCEPT ![d].path = <<>>, ![d].pos = 0, ![d].buf = <<>>] /\ UNCHANGED file
     ELSE fh' = [fh EXCEPT ![d] = Closed] /\ file' = Unbind(f)

CloseFile(f) ==
  /\ Calls("close-file", <<>>, <<>>)
  /\ f \in held
  /\ LET fr == [Frame("close-file", <<>>, <<>>) EXCEPT !.f = f]
     IN CASE file[f].name = <<>> -> Signalled /\ UNCHANGED <<fs, file, fh, inputs, stack, blocked, crashed>>
          [] file[f].name # <<>> /\ ~Local(f) ->
               /\ rep_call_file_handler(<<fr>> \o stack, file[f].by, "close-file", fr)
               /\ UNCHANGED <<fs, file, fh, inputs, throwing, crashed>>
          [] OTHER -> CloseLocal(f) /\ ret' = Value("t") /\ UNCHANGED <<stack, throwing, blocked>>
  /\ UNCHANGED held

\* The handler is back, with a value or a throw.
CloseStep ==
  /\ InC("close-file") /\ ret # NoValue
  /\ file' = Unbind(Top.f)
  /\ Return(Value("t"))
  /\ UNCHANGED <<fs, fh, inputs, throwing, blocked, held, program, asked, crashed>>

FlushFile(f) ==
  /\ Calls("flush-file", <<>>, <<>>)
  /\ f \in held
  /\ LET fr == [Frame("flush-file", <<>>, <<>>) EXCEPT !.f = f]
         d == file[f].fd
     IN CASE file[f].name = <<>> -> Signalled /\ UNCHANGED <<fs, fh, stack, blocked>>
          [] file[f].name # <<>> /\ ~Local(f) ->
               rep_call_file_handler(<<fr>> \o stack, file[f].by, "flush-file", fr) /\ UNCHANGED <<fs, fh, throwing>>
          [] OTHER -> /\ fs' = Flushed(d, fs)
                      /\ fh' = [fh EXCEPT ![d].buf = <<>>]
                      /\ ret' = FileV(f)
                      /\ UNCHANGED <<stack, throwing, blocked>>
  /\ UNCHANGED <<file, inputs, held, crashed>>

FlushStep ==
  /\ InC("flush-file") /\ ret # NoValue
  /\ Return(FileV(Top.f))
  /\ UNCHANGED <<fs, file, fh, inputs, throwing, blocked, held, program, asked, crashed>>

------------------------------------------------------------------------------
\* Lisp code and the collector.

WithStreams(S) == S \cup {file[f].stream : f \in S}
Marked_NoInput ==
  LET roots == held \cup (UNION {{stack[i].f, stack[i].s, stack[i].d} : i \in DOMAIN stack})
                    \cup {f \in File : file[f].state = "live" /\ file[f].std}
  IN WithStreams(WithStreams(roots \cap File) \cap File) \cap File
Marked ==
  LET roots == held \cup (UNION {{stack[i].f, stack[i].s, stack[i].d} : i \in DOMAIN stack})
                    \cup {f \in File : file[f].state = "live" /\ file[f].std}
                    \cup {inputs[i].f : i \in DOMAIN inputs}
  IN WithStreams(WithStreams(roots \cap File) \cap File) \cap File

\* file_sweep(): an open local file is closed, and so written out.
file_sweep ==
  LET dead == {f \in File : file[f].state = "live"} \ Marked
      shut == {file[f].fd : f \in {g \in dead : Local(g) /\ ~file[g].std}}
  IN /\ file' = [f \in File |-> IF f \in dead THEN [Unbound EXCEPT !.state = "freed"] ELSE file[f]]
     /\ fh' = [d \in Fd |-> IF d \in shut THEN Closed ELSE fh[d]]
     /\ fs' = [p \in Path |-> LET ds == {d \in shut : fh[d].path = p}
                              IN IF ds = {} THEN fs[p] ELSE Flushed(Min(ds), fs)[p]]

GarbageCollect ==
  /\ InLisp
  /\ "gc" \in program.ops \cup program.inner
  /\ \E f \in File : file[f].state = "live" /\ f \notin Marked
  /\ file_sweep
  /\ UNCHANGED <<inputs, stack, ret, throwing, blocked, held, program, asked, crashed>>

Drop(f) ==
  /\ InLisp
  /\ "gc" \in program.ops \cup program.inner
  /\ f \in held
  /\ held' = held \ {f}
  /\ UNCHANGED <<fs, file, fh, inputs, stack, ret, throwing, blocked, program, asked, crashed>>

\* A value comes back to Lisp code, or a throw, which it catches.
LispGets ==
  /\ ~crashed /\ ret # NoValue /\ (stack # <<>> => Top.fn \in LispFrames)
  /\ ret' = NoValue
  /\ throwing' = FALSE
  /\ held' = IF ret.k = "file" THEN held \cup {ret.v} ELSE held
  /\ asked' = IF stack = <<>> THEN [asked EXCEPT !.v = ret] ELSE asked
  /\ UNCHANGED <<fs, file, fh, inputs, stack, blocked, program, crashed>>

\* A function throws, or does not catch what was thrown to it.
LispThrows ==
  /\ ~crashed /\ stack # <<>> /\ Top.fn \in {"handler", "input"} /\ (ret # NoValue => throwing)
  /\ Ends(IF Top.fn = "input" THEN Value("-") ELSE Null)
  /\ throwing' = (Top.fn # "input")
  /\ UNCHANGED <<fs, file, fh, inputs, held, program, asked, crashed>>

\* A handler has done what its operation asks for.
Answers(op, a, b) ==
  CASE op = "file-name-absolute?" -> {[v |-> Value("t"), fs |-> fs]}
    [] op \in PlainOps \ {"file-name-absolute?"} -> {[v |-> PlainPrimitive(op, a), fs |-> fs]}
    [] op = "expand-file-name" -> {[v |-> NameV(rep_expand_file_name(a)), fs |-> fs]}
    [] op = "local-file-name" -> {[v |-> v, fs |-> fs] : v \in {Value("nil")} \cup
                                   IF SysNode(fs, a).kind = "link" THEN {NameV(fs[a].to)} ELSE {}}
    [] op \in NameOps \ {"local-file-name"} -> {Primitive(op, a, b)}
    [] op \in {"rename-file", "copy-file", "copy-file-to-local-fs", "copy-file-from-local-fs"} ->
         {TwoNames(op, a, b, 9)}
    [] op = "open-file" -> {[v |-> FileV(f), fs |-> fs] : f \in held}
    [] OTHER -> {[v |-> Value("t"), fs |-> fs]}

LispReturns ==
  /\ InLisp /\ stack # <<>> /\ Top.fn \in {"handler", "input"}
  /\ IF Top.fn = "input" THEN Ends(NoValue) /\ UNCHANGED fs
     ELSE \E x \in Answers(Top.pc, Top.a, Top.b) :
            /\ x.v.k # "null"
            /\ Ends(x.v)
            /\ fs' = x.fs
  /\ UNCHANGED <<file, fh, inputs, throwing, held, program, asked, crashed>>
=============================================================================
