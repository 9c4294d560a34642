------------------------------- MODULE MCFiles -------------------------------
EXTENDS FilesProps

CONSTANTS h1, h2, f1, f2, f3

a == <<"/", "a">>
b == <<"/", "b">>
dir == <<"/", "d">>
da == <<"/", "d", "/", "a">>
h == <<"/", "h">>
k == <<"/", "k">>
hk == <<"/", "h", "k">>
hl == <<"/", "h", "l">>
rel == <<"a">>

MCPath == {a, b, dir, da, h, k, hk, hl, <<"/", "t">>}
MCTemp == <<"/", "t">>
MCDefault == dir
MCName == {a, b, dir, da, h, k, hk, hl, rel}
MCHandler == {h1, h2}
MCAlist == <<h1, h2>>
MCMatches(x, s) == (IF x = h1 THEN "h" ELSE "k") \in Range(s)
MCFile == {f1, f2, f3}
MCFd == {1, 3, 4}
MCSource == <<66, 10, 226, 130, 172>>
MCModess == {{<<0, "r">>, <<1, "s">>, <<1, "x">>}}
MCWritten == {<<65>>, <<66, 10, 66, 66, 66, 66, 66>>}
MCChars == {65, 228, 8364}

\* Format strings and their arguments: every conversion, flags, widths shorter
\* and longer than the text and than PadMax, named arguments, too few and
\* unfit arguments.
Str == [k |-> "string", text |-> <<65, 66>>]
Neg == [k |-> "int", text |-> <<45, 49>>]
Seven == [k |-> "int", text |-> <<55>>]
Chr == [k |-> "char", text |-> <<67>>]
Text == Literal(<<120>>)
MCFormats ==
  {<< <<Text, Conv("s"), Text>>, <<Str>> >>,
   << <<Conv("%"), Text>>, <<>> >>,
   << <<Conv("S"), Conv("c"), Conv("B")>>, <<Str, Chr, Seven>> >>,
   << <<[Conv("s") EXCEPT !.width = 4], [Conv("s") EXCEPT !.width = 3, !.left = TRUE], Text>>, <<Str, Str>> >>,
   << <<[Conv("s") EXCEPT !.width = 1, !.trunc = TRUE], [Conv("s") EXCEPT !.width = 1]>>, <<Str, Str>> >>,
   << <<[Conv("d") EXCEPT !.width = 3, !.lead = <<43>>], [Conv("x") EXCEPT !.width = 2, !.lead = <<43>>]>>, <<Neg, Seven>> >>,
   << <<[Conv("d") EXCEPT !.width = 3, !.zero = TRUE], [Conv("o") EXCEPT !.width = 9], Conv("b")>>, <<Seven, Seven, Str>> >>,
   << <<[Conv("s") EXCEPT !.pos = 2], Conv("s"), [Conv("s") EXCEPT !.pos = 1]>>, <<Neg, Seven, Str>> >>,
   << <<Conv("hook"), Conv("s"), Text>>, <<Str, Seven>> >>,
   << <<Conv("s"), Conv("d"), Text>>, <<Str>> >>,
   << <<Text, Conv("c")>>, <<Str>> >>}

------------------------------------------------------------------------------
\* The programs.

NoFiles == [f \in MCFile |-> Unborn]
JustStd == [d \in MCFd |-> IF d = 1 THEN [Closed EXCEPT !.mode = "device"] ELSE Closed]
BaseFs ==
  [p \in MCPath |-> CASE p = a -> Regular(<<65, 10>>)
                      [] p = da -> Regular(<<66>>)
                      [] p = dir -> Directory
                      [] p = h -> Regular(<<67>>)
                      [] p = hk -> Regular(<<68>>)
                      [] p = hl -> Link(a)
                      [] OTHER -> Absent]
Program(ops, inner, names, calls, nest) ==
  [fs |-> BaseFs, files |-> NoFiles, open |-> JustStd, ops |-> ops, inner |-> inner, names |-> names,
   calls |-> calls, nest |-> nest]

NameTexts == UNION {[1 .. n -> {"/", ".", "a"}] : n \in 0 .. 5}
Reading == {"read-byte", "peek-byte", "read-char", "read-bytes", "read-line"}
Writing == {"byte-write", "write", "print", "princ"}
LocalFile == [Unbound EXCEPT !.name = a, !.handler = "t", !.fd = 3]
BoundTo(s) == [Unbound EXCEPT !.name = h, !.handler = "h", !.by = h1, !.stream = s]
Opened(mode) == [JustStd EXCEPT ![3] = [path |-> a, pos |-> 0, mode |-> mode, buf |-> <<>>]]

NamesProgram == Program(PlainOps \cup {"expand-file-name"}, {}, NameTexts, 1, 0)
DispatchProgram == Program({"expand-file-name", "file-exists?", "file-name-directory"},
                           {"expand-file-name", "file-exists?", "local-file-name"}, {rel, h, hk, k}, 3, 2)
HandlerProgram ==
  Program(PlainOps \cup NameOps \cup {"make-file-from-stream", "stdout-file", "set-input-handler", "close-file", "flush-file"},
          {"file-exists?"}, {h, hk}, 2, 1)
LocalProgram == Program(NameOps \cup {"rename-file", "copy-file"}, {}, {a, b, dir, da}, 2, 0)
CopyProgram == Program({"copy-file", "rename-file"}, {"file-exists?"}, {rel, a, h, k, hl, b}, 2, 1)
ObjectsProgram ==
  Program({"open-file", "close-file", "set-input-handler", "gc"}, {"open-file", "close-file", "gc"}, {a, h}, 4, 1)
CallbackProgram ==
  [Program({"read-byte", "princ", "gc"}, {"close-file", "gc"}, {}, 2, 1) EXCEPT
     !.files = [x \in MCFile |-> IF x = f1 THEN LocalFile ELSE IF x = f2 THEN BoundTo("fun") ELSE BoundTo(f1)],
     !.open = Opened("append")]
ReadProgram ==
  [Program(Reading \cup {"seek-file"}, {"byte-write"}, {}, 3, 1) EXCEPT
     !.fs[a].data = <<65, 10, 195, 164, 66>>,
     !.files = [x \in MCFile |-> IF x = f1 THEN [LocalFile EXCEPT !.bogus = FALSE, !.line = 1]
                                                      ELSE IF x = f2 THEN BoundTo("fun") ELSE BoundTo(f1)],
     !.open = Opened("read")]
WriteProgram ==
  [Program(Writing \cup {"copy-stream", "interrupt", "get-output-stream-string", "set-file-ignore-errors", "flush-file"},
           {"byte-write"}, {}, 2, 1) EXCEPT
     !.files = [x \in MCFile |-> IF x = f1 THEN LocalFile ELSE IF x = f2 THEN BoundTo("fun") ELSE BoundTo(f1)],
     !.open = Opened("write")]
FormatProgram ==
  [Program({"format"}, {"byte-write"}, {}, 2, 1) EXCEPT
     !.files = [x \in MCFile |-> IF x = f1 THEN LocalFile ELSE Unborn],
     !.open = Opened("write")]

MCPrograms ==
  {NamesProgram, DispatchProgram, HandlerProgram, LocalProgram, CopyProgram, ObjectsProgram, CallbackProgram, ReadProgram,
   WriteProgram, FormatProgram}
=============================================================================
