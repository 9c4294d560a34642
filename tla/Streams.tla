------------------------------- MODULE Streams -------------------------------
(***************************************************************************)
(* Streams (streams.c).  A stream is a file, a string that is read, a      *)
(* string that is written, a function, t, or nil for the standard one.  A  *)
(* file that is not local passes everything on to the stream it is bound   *)
(* to.  Functions are Lisp code and may do anything in between.            *)
(***************************************************************************)
EXTENDS FileObjects, Utf8

CONSTANTS
  Source,          \* what the input string and the function have to offer
  SmallCap,        \* 16 in the code: buffers of strings start at twice this
  CopyBuf,         \* 4095 in the code: how much copy-stream collects
  Formats          \* pairs of a format string, as a sequence of items, and arguments

VARIABLES
  strm,            \* the string and function streams
  unseen,          \* ghost: newlines that read-line has read from a file
  note             \* ghost: the program's last call of a stream function: what it read and whether it is back;
                   \* `mixed': a function has written to the same stream meanwhile

streamsVars == <<strm, unseen, note>>

Newline == 10
Byte(c) == [k |-> "byte", v |-> c]
Eof == Value("eof")
IntV(n) == [k |-> "int", v |-> n]
Bytes(s) == [k |-> "bytes", v |-> s]

\* data of a string, the capacity in the cons, and the bytes allocated
EmptyString == [data |-> <<>>, cap |-> 0, size |-> 1]
NoNote == [op |-> "", src |-> "nil", dst |-> "nil", at |-> 0, had |-> 0, n |-> 0, items |-> <<>>, args |-> <<>>,
           bytes |-> <<>>, end |-> FALSE, threw |-> FALSE, mixed |-> FALSE]

StandardInput == "in"
StandardOutput == "out"

------------------------------------------------------------------------------
\* Which object a stream reads from or writes to in the end.

Deref(s, std) == IF s = "nil" THEN std ELSE s
Way(s, std, Passes(_)) ==
  LET way[i \in 0 .. Cardinality(File)] ==
        IF i = 0 THEN Deref(s, std)
        ELSE IF way[i - 1] \in File /\ Passes(way[i - 1]) THEN Deref(file[way[i - 1]].stream, std) ELSE way[i - 1]
  IN way
Bound(f) == file[f].name # <<>> /\ ~Local(f)
NotLocal(f) == ~Local(f)
Base(s, std) == Way(s, std, Bound)[Cardinality(File)]
Chain(s, std) == {Way(s, std, Bound)[i] : i \in 0 .. Cardinality(File)} \cap File

Data(b) == IF b \in File THEN (IF fh[file[b].fd].mode = "read" THEN fs[fh[file[b].fd].path].data ELSE <<>>)
           ELSE strm[b].data
Pos(b) == IF b \in File THEN fh[file[b].fd].pos ELSE strm[b].pos

Moved(b, n) ==
  IF b \in File THEN fh' = [fh EXCEPT ![file[b].fd].pos = @ + n] /\ UNCHANGED strm
  ELSE strm' = [strm EXCEPT ![b].pos = @ + n] /\ UNCHANGED fh
\* Every file on the way counts lines.
Counted(chain, c, n) ==
  file' = [f \in File |-> IF f \in chain /\ c = Newline THEN [file[f] EXCEPT !.line = @ + n] ELSE file[f]]

Resume(fr, v) == stack' = <<fr>> \o Tail(stack) /\ ret' = v
Apply(fr, pc, buf, chain) ==
  /\ stack' = <<[Frame("function", <<>>, <<>>) EXCEPT !.pc = pc, !.buf = buf, !.chain = chain], fr>> \o Tail(stack)
  /\ ret' = NoValue

------------------------------------------------------------------------------
\* One byte in, one byte back, some bytes out.  FR is the caller to resume.

rep_stream_getc(fr) ==
  LET b == Base(fr.s, StandardInput)
      chain == Chain(fr.s, StandardInput)
  IN CASE b \in File /\ file[b].name = <<>> -> Resume(fr, Eof) /\ UNCHANGED <<file, fh, strm>>
       [] b = "fun" /\ throwing -> Resume(fr, Eof) /\ UNCHANGED <<file, fh, strm>>
       [] b = "fun" /\ ~throwing -> Apply(fr, "get", <<>>, chain) /\ UNCHANGED <<file, fh, strm>>
       [] OTHER ->
            IF Pos(b) >= Len(Data(b)) THEN Resume(fr, Eof) /\ UNCHANGED <<file, fh, strm>>
            ELSE LET c == Data(b)[Pos(b) + 1]
                 IN Resume(fr, Byte(c)) /\ Moved(b, 1) /\ Counted(chain, c, 1)

\* That a file is closed is not looked at here: its stream is then nil, the
\* standard input.
rep_stream_ungetc_Lost(fr, c) == Resume(fr, Byte(c)) /\ UNCHANGED <<file, fh, strm>>
rep_stream_ungetc(fr, c) ==
  LET way == Way(fr.s, StandardInput, NotLocal)
      b == way[Cardinality(File)]
  IN IF b = "fun"
     THEN IF throwing THEN Resume(fr, Byte(c)) /\ UNCHANGED <<file, fh, strm>>
          ELSE Apply(fr, "unget", <<c>>, {}) /\ Counted({way[i] : i \in DOMAIN way}, c, -1) /\ UNCHANGED <<fh, strm>>
     ELSE Resume(fr, Byte(c)) /\ Moved(b, -1) /\ Counted({way[i] : i \in DOMAIN way}, c, -1)

\* A string that is written grows to twice its capacity until there is room
\* for the bytes and the null after them.
Grown_Exact(str, more) ==
  LET need == Len(str.data) + more
      cap == IF str.cap < SmallCap THEN 2 * SmallCap ELSE 2 * str.cap
  IN IF str.cap < need THEN [str EXCEPT !.cap = cap, !.size = cap + 1] ELSE str
Grown(str, more) ==
  LET need == Len(str.data) + more + 1
      first == IF str.cap < SmallCap THEN 2 * SmallCap ELSE 2 * str.cap
      fits == {i \in 0 .. need : first * 2 ^ i > need}
      cap == first * 2 ^ Min(fits)
  IN IF str.cap <= need THEN [str EXCEPT !.cap = cap, !.size = cap + 1] ELSE str

\* rep_stream_putc() has room for one byte, and grows only once.
GrownByOne(str) ==
  LET cap == IF str.cap < SmallCap THEN 2 * SmallCap ELSE 2 * str.cap
  IN IF Len(str.data) + 1 >= str.cap THEN [str EXCEPT !.cap = cap, !.size = cap + 1] ELSE str

Puts(fr, data, room(_)) ==
  LET b == Base(fr.d, StandardOutput)
      chain == Chain(fr.d, StandardOutput)
      \* those that are told of less than was asked for, and signal an error
      loud == {f \in chain : ~file[f].silent}
  IN CASE b \in File /\ file[b].name = <<>> ->
            Resume(fr, IntV(0)) /\ throwing' = TRUE /\ UNCHANGED <<fh, strm>>
       [] b \in File /\ file[b].name # <<>> ->
            \E n \in {0} \cup IF fh[file[b].fd].mode = "read" THEN {} ELSE {Len(data)} :
              /\ fh' = [fh EXCEPT ![file[b].fd].buf = @ \o SubSeq(data, 1, n)]
              /\ Resume(fr, IntV(n))
              /\ throwing' = (throwing \/ (n < Len(data) /\ loud # {}))
              /\ UNCHANGED strm
       [] b = "fun" /\ throwing -> Resume(fr, IntV(0)) /\ UNCHANGED <<fh, strm, throwing>>
       [] b = "fun" /\ ~throwing -> Apply(fr, "put", data, chain) /\ UNCHANGED <<fh, strm, throwing>>
       [] b = "t" -> Resume(fr, IntV(Len(data))) /\ UNCHANGED <<fh, strm, throwing>>
       [] b = "in" -> Resume(fr, IntV(0)) /\ throwing' = TRUE /\ UNCHANGED <<fh, strm>>
       [] OTHER ->
            /\ strm' = [strm EXCEPT ![b] = [room(strm[b]) EXCEPT !.data = @ \o data]]
            /\ Resume(fr, IntV(Len(data)))
            /\ UNCHANGED <<fh, throwing>>

rep_stream_putc(fr, c) == Puts(fr, <<c>>, GrownByOne)
rep_stream_puts(fr, data) == LET room(str) == Grown(str, Len(data)) IN Puts(fr, data, room)

------------------------------------------------------------------------------
\* Calls and ends of stream functions.

CallStream(fr) ==
  /\ Calls(fr.fn, <<>>, <<>>)
  /\ stack' = <<fr>> \o stack
  /\ note' = IF stack # <<>> THEN [note EXCEPT !.mixed = @ \/ Base(fr.d, StandardOutput) = note.dst]
             ELSE LET src == Base(fr.s, StandardInput)
                      dst == Base(fr.d, StandardOutput)
                  IN [NoNote EXCEPT !.op = fr.fn, !.n = fr.n, !.items = fr.a, !.args = fr.b,
                                    !.src = src,
                                    !.at = IF src \in {"in", "fun"} \/ (src \in File /\ Local(src)) THEN Pos(src) ELSE 0,
                                    !.dst = dst, !.had = IF dst = "out" THEN Len(strm[dst].data) ELSE 0]
  /\ UNCHANGED <<fs, file, fh, inputs, ret, throwing, blocked, held, crashed, strm, unseen>>

Input(fn, s, n) == [Frame(fn, <<>>, <<>>) EXCEPT !.s = s, !.n = n]

\* The function returns V, which stands for BYTES.
Finish(v, bytes) ==
  /\ Return(IF throwing THEN Null ELSE v)
  /\ note' = IF Len(stack) > 1 THEN note ELSE [note EXCEPT !.bytes = bytes, !.end = TRUE, !.threw = throwing]

Abandon ==
  /\ Return(Null)
  /\ note' = IF Len(stack) > 1 THEN note ELSE [note EXCEPT !.end = TRUE, !.threw = TRUE]

\* rep_TEST_INT: the user may interrupt.
Interrupts == IF "interrupt" \in program.ops THEN BOOLEAN ELSE {FALSE}

Elsewhere == UNCHANGED <<fs, inputs, blocked, held, program, asked, crashed>>

------------------------------------------------------------------------------
\* Reading.

ReadByte(s) == CallStream(Input("read-byte", s, 0))
PeekByte(s) == CallStream(Input("peek-byte", s, 0))
ReadChar(s) == CallStream(Input("read-char", s, 0))
ReadBytes(s, n) == CallStream(Input("read-bytes", s, n))
ReadLine(s) == CallStream(Input("read-line", s, 0))
CopyStream(s, d) == CallStream([Input("copy-stream", s, 0) EXCEPT !.d = d])

\* fread() and getline() on a local file; getline() does not count the line.
LocalRead ==
  LET b == Top.s
      rest == SubSeq(Data(b), Pos(b) + 1, Len(Data(b)))
      lines == {i \in DOMAIN rest : rest[i] = Newline}
      n == IF Top.fn = "read-bytes" THEN Min({Top.n, Len(rest)})
           ELSE IF lines = {} THEN Len(rest) ELSE Min(lines)
      got == SubSeq(rest, 1, n)
  IN /\ Moved(b, n)
     /\ Finish(IF n = 0 THEN Value("nil") ELSE Bytes(got), got)
     /\ file' = IF Top.fn = "read-bytes" THEN [file EXCEPT ![b].bogus = TRUE] ELSE file
     /\ unseen' = IF Top.fn = "read-line" /\ lines # {} THEN [unseen EXCEPT ![b] = @ + 1] ELSE unseen

Direct == Top.fn \in {"read-bytes", "read-line"} /\ Top.s \in File /\ Local(Top.s)

\* What a byte, or the end, does to the function that asked for it.
GotByte(c) ==
  LET buf == Append(Top.buf, c) IN
  CASE Top.fn = "read-byte" -> Finish(Byte(c), buf) /\ UNCHANGED <<file, fh, strm>>
    [] Top.fn = "peek-byte" -> rep_stream_ungetc([Top EXCEPT !.pc = "back", !.buf = buf], c) /\ UNCHANGED note
    [] Top.fn = "read-char" ->
         IF Len(buf) = utf8_code_point_size(buf[1]) THEN Finish(IntV(CodePoint(buf)), buf) /\ UNCHANGED <<file, fh, strm>>
         ELSE Resume([Top EXCEPT !.buf = buf, !.pc = "get"], NoValue) /\ UNCHANGED <<file, fh, strm, note>>
    [] Top.fn = "read-bytes" ->
         IF Len(buf) = Top.n THEN Finish(Bytes(buf), buf) /\ UNCHANGED <<file, fh, strm>>
         ELSE Resume([Top EXCEPT !.buf = buf, !.pc = "get"], NoValue) /\ UNCHANGED <<file, fh, strm, note>>
    [] Top.fn = "read-line" ->
         IF c = Newline THEN Finish(Bytes(buf), buf) /\ UNCHANGED <<file, fh, strm>>
         ELSE Resume([Top EXCEPT !.buf = buf, !.pc = "get"], NoValue) /\ UNCHANGED <<file, fh, strm, note>>

\* EOF, or a function that threw: in the middle of a character the bytes read
\* so far are dropped.
GotEof ==
  LET all == IF Top.fn \in {"read-bytes", "read-line"} THEN Top.buf ELSE <<>>
  IN Finish(IF all = <<>> THEN Value("nil") ELSE Bytes(all), all) /\ UNCHANGED <<file, fh, strm>>

ReadStep ==
  /\ ~crashed /\ stack # <<>> /\ Top.fn \in {"read-byte", "peek-byte", "read-char", "read-bytes", "read-line"}
  /\ \/ /\ Top.pc \in {"start", "get"} /\ ret = NoValue
        /\ IF Direct THEN LocalRead
           ELSE IF Top.fn = "read-bytes" /\ Top.n = 0 THEN GotEof /\ UNCHANGED unseen
           ELSE rep_stream_getc([Top EXCEPT !.pc = "got"]) /\ UNCHANGED <<note, unseen>>
     \/ /\ Top.pc = "got" /\ ret # NoValue
        /\ IF ret.k = "eof" THEN GotEof ELSE GotByte(ret.v)
        /\ UNCHANGED unseen
     \/ /\ Top.pc = "back" /\ ret # NoValue
        /\ Finish(Byte(Top.buf[1]), Top.buf)
        /\ UNCHANGED <<file, fh, strm, unseen>>
  /\ UNCHANGED throwing
  /\ Elsewhere

\* copy-stream: what was collected is written when there is no more, or no
\* more room, and lost when an interrupt is seen first.
CopyStep ==
  /\ InC("copy-stream")
  /\ \/ /\ Top.pc \in {"start", "get"} /\ ret = NoValue
        /\ rep_stream_getc([Top EXCEPT !.pc = "got"])
        /\ UNCHANGED <<note, throwing>>
     \/ /\ Top.pc = "got" /\ ret # NoValue
        /\ IF ret.k = "eof"
           THEN rep_stream_puts([Top EXCEPT !.pc = "done"], Top.buf) /\ UNCHANGED <<file, note>>
           ELSE IF Len(Top.buf) = CopyBuf
           THEN /\ rep_stream_puts([Top EXCEPT !.pc = "put", !.buf = <<ret.v>>, !.n = @ + 1], Top.buf)
                /\ UNCHANGED <<file, note>>
           ELSE \E int \in Interrupts :
                  /\ throwing' = (throwing \/ int)
                  /\ IF int THEN Abandon
                     ELSE /\ Resume([Top EXCEPT !.pc = "get", !.buf = Append(@, ret.v), !.n = @ + 1], NoValue)
                          /\ UNCHANGED note
                  /\ UNCHANGED <<file, fh, strm>>
     \/ /\ Top.pc = "put" /\ ret # NoValue
        /\ IF throwing THEN Abandon ELSE Resume([Top EXCEPT !.pc = "get"], NoValue) /\ UNCHANGED note
        /\ UNCHANGED <<file, fh, strm, throwing>>
     \/ /\ Top.pc = "done" /\ ret # NoValue
        /\ Finish(IntV(Top.n), <<>>)
        /\ UNCHANGED <<file, fh, strm, throwing>>
  /\ UNCHANGED unseen
  /\ Elsewhere
=============================================================================
