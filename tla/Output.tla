------------------------------- MODULE Output -------------------------------
(***************************************************************************)
(* The rest of streams.c: writing, format, and string output streams; the  *)
(* position in a file; and programs that use files and streams.            *)
(***************************************************************************)
EXTENDS Streams

CONSTANTS
  Written,         \* what programs write: sequences of bytes
  Chars,           \* characters they write
  Modess,          \* permissions they set
  PadMax           \* 256 in the code: the most padding that format writes

\* A function that writes PARTS, each with one rep_stream_puts().
Puts1(fn, d, parts) == [Frame(fn, <<>>, <<>>) EXCEPT !.d = d, !.buf = parts]

\* byte-write of a byte and of a string, write of a character; print, prin1
\* and princ of an object that has the text S.
ByteWrite(d, s) == CallStream(Puts1("byte-write", d, <<s>>))
WriteChar(d, c) == CallStream(Puts1("write", d, <<utf32_to_utf8_1(c)>>))
PrintOn(d, s) == CallStream(Puts1("print", d, <<<<Newline>>, s>>))
Princ(d, s) == CallStream(Puts1("princ", d, <<s>>))

\* A byte, and the newline of print, goes through rep_stream_putc().  write tells characters, and
\* all of them tell nothing when there was an error.
WriteStep ==
  /\ ~crashed /\ stack # <<>> /\ Top.fn \in {"byte-write", "write", "print", "princ"}
  /\ IF Top.buf # <<>>
     THEN LET fr == [Top EXCEPT !.buf = Tail(@), !.pc = "put"]
              s == Top.buf[1]
          IN /\ IF Len(s) = 1 /\ Top.pc = "start" /\ Top.fn \in {"byte-write", "print"} THEN rep_stream_putc(fr, s[1]) ELSE rep_stream_puts(fr, s)
             /\ UNCHANGED <<file, note>>
     ELSE /\ Finish(IF Top.fn = "write" /\ ret.v > 0 THEN IntV(1) ELSE ret, <<>>)
          /\ UNCHANGED <<file, fh, strm, throwing>>
  /\ UNCHANGED unseen
  /\ Elsewhere

------------------------------------------------------------------------------
\* format.

\* An item of a format string: a literal, or a conversion with its flags, its
\* width, and the number of its argument if it names one.
Literal(s) == [conv |-> "literal", raw |-> s, left |-> FALSE, trunc |-> FALSE, zero |-> FALSE, lead |-> <<>>,
               width |-> 0, pos |-> 0]
Conv(c) == [Literal(<<37, 63>>) EXCEPT !.conv = c]

Minus == 45
PadBytes(it, n) == [i \in 1 .. Min({n, PadMax}) |-> IF it.zero THEN 48 ELSE 32]

\* What string_out writes for the text S, one sequence for each call.
string_out(it, s) ==
  LET lead == IF it.lead # <<>> /\ (s # <<>> => s[1] # Minus) THEN it.lead ELSE <<>>
      len == Len(s) + Len(lead)
      first == IF lead = <<>> THEN <<>> ELSE <<lead>>
      cut == it.width - Len(lead)
      pad == PadBytes(it, it.width - len)
  IN IF it.width = 0 \/ len >= it.width
     THEN first \o <<IF it.trunc /\ cut >= 0 THEN SubSeq(s, 1, cut) ELSE s>>
     ELSE IF it.left THEN first \o <<s, pad>> ELSE <<pad>> \o first \o <<s>>

\* The calls for a conversion of VAL; nothing for what is no number.
Converted(it, val) ==
  CASE it.conv \in {"d", "x", "o", "b"} -> IF val.k = "int" THEN string_out(it, val.text) ELSE <<>>
    [] it.conv \in {"s", "hook"} ->
         IF val.k # "string" \/ (it.left /\ it.width = 0) THEN <<val.text>> ELSE string_out(it, val.text)
    [] it.conv = "S" -> IF val.k = "string" THEN <<<<34>> \o val.text \o <<34>>>> ELSE <<val.text>>
    [] it.conv = "c" -> <<val.text>>
    [] it.conv = "B" -> <<val.text>>

WrongType(it, val) ==
  \/ it.conv = "c" /\ val.k # "char"
  \/ it.conv = "B" /\ val.k # "int"
  \/ it.conv = "unknown"

\* Text of the format string from item I on, as it stands.
RawFrom(items, i) == FlattenSeq([j \in 1 .. Len(items) - i + 1 |-> items[i + j - 1].raw])

\* With no stream the output goes to a new string.
Format(d, items, args) ==
  /\ CallStream([Frame("format", items, args) EXCEPT !.d = IF d = "nil" THEN "fmt" ELSE d, !.n = 1, !.arg = 1,
                                                     !.pc = "next"])

Exit ==
  /\ Return(Null)
  /\ throwing' = TRUE
  /\ note' = IF Len(stack) > 1 THEN note ELSE [note EXCEPT !.end = TRUE, !.threw = TRUE]
  /\ strm' = [strm EXCEPT !["fmt"] = EmptyString]

Goto(fr) == stack' = <<fr>> \o Tail(stack) /\ ret' = NoValue

NextItem ==
  LET it == Top.a[Top.n]
      arg == IF it.pos > 0 THEN it.pos ELSE Top.arg
      to(pc, out) == Goto([Top EXCEPT !.pc = pc, !.buf = out, !.n = @ + 1, !.arg = arg + 1])
  IN CASE Top.n > Len(Top.a) ->
            /\ Return(IF throwing THEN Null ELSE Bytes(strm["fmt"].data))
            /\ note' = IF Len(stack) > 1 THEN note
                       ELSE [note EXCEPT !.bytes = strm["fmt"].data, !.end = TRUE, !.threw = throwing]
            /\ strm' = [strm EXCEPT !["fmt"] = EmptyString]
            /\ UNCHANGED throwing
       [] Top.n <= Len(Top.a) /\ it.conv = "literal" ->
            /\ Goto([Top EXCEPT !.pc = "literal", !.buf = <<it.raw>>, !.n = @ + 1])
            /\ UNCHANGED <<throwing, note, strm>>
       [] Top.n <= Len(Top.a) /\ it.conv = "%" ->
            /\ Goto([Top EXCEPT !.pc = "converted", !.buf = <<<<37>>>>, !.n = @ + 1])
            /\ UNCHANGED <<throwing, note, strm>>
       [] OTHER ->
            IF arg > Len(Top.b) THEN Exit
            ELSE IF WrongType(it, Top.b[arg]) THEN Exit
            ELSE IF it.conv = "hook"
            THEN /\ Apply([Top EXCEPT !.pc = "hooked", !.arg = arg], "hook", <<>>, {})
                 /\ UNCHANGED <<throwing, note, strm>>
            ELSE to("converted", Converted(it, Top.b[arg])) /\ UNCHANGED <<throwing, note, strm>>

\* One call of rep_stream_puts() after the other; then an error ends it: after
\* a literal at once, after a conversion with the rest of the format string
\* written as it is.
FormatStep ==
  /\ InC("format")
  /\ \/ /\ Top.pc = "next"
        /\ NextItem
        /\ UNCHANGED fh
     \/ /\ Top.pc = "hooked" /\ ret # NoValue
        /\ IF throwing THEN Exit
           ELSE /\ Goto([Top EXCEPT !.pc = "converted", !.n = @ + 1, !.arg = @ + 1,
                                    !.buf = Converted(Top.a[Top.n], [k |-> "string", text |-> ret.v])])
                /\ UNCHANGED <<throwing, note, strm>>
        /\ UNCHANGED fh
     \/ /\ Top.pc \in {"literal", "converted", "tail"}
        /\ IF Top.buf # <<>>
           THEN rep_stream_puts([Top EXCEPT !.buf = Tail(@)], Top.buf[1]) /\ UNCHANGED note
           ELSE /\ CASE ~throwing -> Goto([Top EXCEPT !.pc = "next"]) /\ UNCHANGED <<throwing, note, strm>>
                     [] throwing /\ Top.pc = "converted" ->
                          /\ Goto([Top EXCEPT !.pc = "tail", !.buf = <<RawFrom(Top.a, Top.n)>>])
                          /\ UNCHANGED <<throwing, note, strm>>
                     [] OTHER -> Exit
                /\ UNCHANGED fh
  /\ UNCHANGED <<file, unseen>>
  /\ Elsewhere

------------------------------------------------------------------------------
\* Functions as streams, and as format hooks.

LispFunctionReturns ==
  /\ InLisp /\ stack # <<>> /\ Top.fn = "function"
  /\ LET pos == strm["fun"].pos
         data == strm["fun"].data
         back(v, fun) == Return(v) /\ strm' = [strm EXCEPT !["fun"] = fun]
     IN CASE Top.pc = "get" /\ pos >= Len(data) -> back(Eof, strm["fun"]) /\ UNCHANGED file
          [] Top.pc = "get" /\ pos < Len(data) ->
               back(Byte(data[pos + 1]), [strm["fun"] EXCEPT !.pos = @ + 1]) /\ Counted(Top.chain, data[pos + 1], 1)
          [] Top.pc = "unget" -> back(Byte(Top.buf[1]), [strm["fun"] EXCEPT !.pos = @ - 1]) /\ UNCHANGED file
          [] Top.pc = "put" ->
               back(IntV(Len(Top.buf)), [strm["fun"] EXCEPT !.got = @ \o Top.buf]) /\ UNCHANGED file
          [] OTHER -> back(Bytes(<<104>>), strm["fun"]) /\ UNCHANGED file
  /\ UNCHANGED <<fh, throwing, unseen, note>>
  /\ Elsewhere

LispFunctionThrows ==
  /\ ~crashed /\ stack # <<>> /\ Top.fn = "function" /\ (ret # NoValue => throwing)
  /\ Return(IF Top.pc = "get" THEN Eof ELSE IntV(0))
  /\ throwing' = TRUE
  /\ UNCHANGED <<file, fh, strm, unseen, note>>
  /\ Elsewhere

------------------------------------------------------------------------------
\* String output streams, the position in a file, silent errors.

GetOutputStreamString ==
  /\ Calls("get-output-stream-string", <<>>, <<>>)
  /\ ret' = Bytes(strm["out"].data)
  /\ strm' = [strm EXCEPT !["out"] = EmptyString]
  /\ note' = IF stack = <<>> THEN NoNote ELSE note
  /\ UNCHANGED <<fs, file, fh, inputs, stack, throwing, blocked, held, crashed, unseen>>

\* The line number is known again at the start of the file; it is set before
\* the seek is tried.  Programs seek in files that they read.
SeekFile(f, where, n) ==
  /\ Calls("seek-file", <<>>, <<>>)
  /\ f \in held
  /\ Local(f) => fh[file[f].fd].mode = "read"
  /\ LET d == file[f].fd
         pos == IF where = "start" THEN n ELSE IF where = "end" THEN Len(Data(f)) + n ELSE Pos(f) + n
         home == where = "start" /\ n = 0
     IN IF ~Local(f)
        THEN /\ IF file[f].by = NoHandler THEN Signalled /\ UNCHANGED <<stack, blocked>>
                ELSE /\ rep_call_file_handler(stack, file[f].by, "seek-file",
                                              [Frame("seek-file", <<>>, <<>>) EXCEPT !.f = f])
                     /\ UNCHANGED throwing
             /\ UNCHANGED <<file, fh, unseen>>
        ELSE /\ file' = [file EXCEPT ![f].bogus = ~home, ![f].line = IF home THEN 1 ELSE @]
             /\ unseen' = IF home THEN [unseen EXCEPT ![f] = 0] ELSE unseen
             /\ fh' = IF pos >= 0 THEN [fh EXCEPT ![d].pos = pos] ELSE fh
             /\ ret' = IF pos >= 0 THEN Value("t") ELSE IF file[f].silent THEN Value("nil") ELSE Null
             /\ throwing' = (pos < 0 /\ ~file[f].silent)
             /\ UNCHANGED <<stack, blocked>>
  /\ note' = IF stack = <<>> THEN NoNote ELSE note
  /\ UNCHANGED <<fs, inputs, held, crashed, strm>>

SetFileIgnoreErrors(f, on) ==
  /\ Calls("set-file-ignore-errors", <<>>, <<>>)
  /\ f \in held
  /\ file' = [file EXCEPT ![f].silent = on]
  /\ ret' = Value("undefined")
  /\ UNCHANGED <<fs, fh, inputs, stack, throwing, blocked, held, crashed, strm, unseen, note>>

------------------------------------------------------------------------------
\* Programs.

Init ==
  /\ program \in Programs
  /\ fs = program.fs
  /\ file = program.files
  /\ fh = program.open
  /\ held = {f \in File : file[f].state = "live"}
  /\ inputs = <<>> /\ stack = <<>> /\ ret = NoValue /\ throwing = FALSE /\ crashed = FALSE
  /\ blocked = [op \in Op |-> <<>>]
  /\ asked = NoCall
  /\ strm = [in |-> [data |-> Source, pos |-> 0], fun |-> [data |-> Source, pos |-> 0, got |-> <<>>],
             out |-> EmptyString, fmt |-> EmptyString]
  /\ unseen = [f \in File |-> 0]
  /\ note = NoNote

NameCalls ==
  \E s \in program.names :
    \/ FileNameAbsolute(s) \/ FileNameNondirectory(s) \/ FileNameDirectory(s) \/ FileNameAsDirectory(s)
    \/ DirectoryFileName(s) \/ ExpandFileName(s) \/ LocalFileName(s) \/ CanonicalFileName(s)
    \/ DeleteFile(s) \/ MakeDirectory(s) \/ DeleteDirectory(s)
    \/ FileReadable(s) \/ FileWritable(s) \/ FileExists(s) \/ FileRegular(s) \/ FileDirectory(s) \/ FileSymlink(s)
    \/ FileOwner(s) \/ FileNlinks(s) \/ FileSize(s) \/ FileModes(s) \/ FileModesAsString(s) \/ FileModtime(s)
    \/ DirectoryFiles(s) \/ ReadSymlink(s)
    \/ \E m \in Modess : SetFileModes(s, m)
    \/ \E d \in program.names : MakeSymlink(s, d) \/ RenameFile(s, d) \/ CopyFile(s, d)
    \/ \E mode \in {"read", "write", "append"} : OpenFile(s, mode)
    \/ \E stream \in {"in", "fun"}, h \in Handler : Matches(h, s) /\ MakeFileFromStream(s, stream, h)

FileCalls ==
  \/ StdFile(1)
  \/ \E f \in held : CloseFile(f) \/ FlushFile(f) \/ \E on \in BOOLEAN : SetInputHandler(f, on)
  \/ \E d \in Fd : InputReady(d)
  \/ GarbageCollect \/ \E f \in held : Drop(f)
  \/ LispGets \/ LispThrows \/ LispReturns

FileSteps ==
  PlainStep \/ ExpandStep \/ NameStep \/ TwoNameStep \/ OpenStep \/ CloseStep \/ FlushStep

Sources == {"in", "fun", "nil"} \cup held
Sinks == {"out", "fun", "nil", "t"} \cup held

StreamCalls ==
  \/ \E s \in Sources : \/ ReadByte(s) \/ PeekByte(s) \/ ReadChar(s) \/ ReadLine(s)
                         \/ \E n \in 0 .. 2 : ReadBytes(s, n)
                         \/ \E d \in Sinks : CopyStream(s, d)
  \/ \E d \in Sinks, s \in Written : ByteWrite(d, s) \/ PrintOn(d, s) \/ Princ(d, s)
  \/ \E d \in Sinks, c \in Chars : WriteChar(d, c)
  \/ \E d \in Sinks, x \in Formats : Format(d, x[1], x[2])
  \/ GetOutputStreamString
  \/ \E f \in held, where \in {"start", "end", "here"}, n \in {-1, 0, 1} : SeekFile(f, where, n)
  \/ \E f \in held, on \in BOOLEAN : SetFileIgnoreErrors(f, on)

StreamSteps == ReadStep \/ CopyStep \/ WriteStep \/ FormatStep \/ LispFunctionReturns \/ LispFunctionThrows

Next ==
  \/ /\ (MayCall /\ NameCalls) \/ FileCalls \/ FileSteps
     /\ note' = IF stack = <<>> THEN NoNote ELSE note
     /\ UNCHANGED <<strm, unseen>>
  \/ MayCall /\ StreamCalls
  \/ StreamSteps

Spec == Init /\ [][Next]_<<filesVars, streamsVars>>
=============================================================================
