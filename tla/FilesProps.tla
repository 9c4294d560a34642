---------------------------- MODULE FilesProps ----------------------------
EXTENDS Output

------------------------------------------------------------------------------
\* Names.

\* What a name means: whether it starts at the root, and the components to go
\* down from there once "." and ".." are followed.
Split(s) ==
  LET starts == {i \in DOMAIN s : s[i] # "/" /\ (i > 1 => s[i - 1] = "/")}
      end(i) == Min({j \in i .. Len(s) : s[j] = "/"} \cup {Len(s) + 1})
      from == SetToSortSeq(starts, <)
  IN [k \in DOMAIN from |-> SubSeq(s, from[k], end(from[k]) - 1)]
Go(abs, at, c) ==
  CASE c = <<".">> -> at
    [] c # <<".">> /\ c # <<".", ".">> -> Append(at, c)
    [] OTHER -> IF Last(<<c>> \o at) # c THEN Front(at) ELSE IF abs THEN at ELSE Append(at, c)
Place(s) ==
  LET abs == rep_file_name_absolute_p(s)
      go(at, c) == Go(abs, at, c)
  IN [abs |-> abs, at |-> FoldLeft(go, <<>>, Split(s))]

\* A name that expand-file-name returns is absolute and free of ".", ".." and
\* empty components, and leads where the given name leads from
\* *default-directory*; file-name-directory and file-name-nondirectory take a
\* name apart at its last slash; file-name-as-directory and
\* directory-file-name keep what the name means; canonical-file-name gives the
\* name of what a link points to.
NamesRight ==
  asked.v.k = "name" =>
    LET s == asked.a
        v == asked.v.v
        n == Len(s) - Len(v)
    IN CASE asked.op = "expand-file-name" ->
              LET full == IF rep_file_name_absolute_p(s) THEN s ELSE Default \o <<"/">> \o s
              IN /\ Place(v) = Place(full)
                 /\ Split(v) = Place(v).at
                 /\ \A i \in 1 .. Len(v) - 1 : ~(v[i] = "/" /\ v[i + 1] = "/")
         [] asked.op = "file-name-directory" ->
              /\ v = SubSeq(s, 1, Len(v))
              /\ v # <<>> => Last(v) = "/"
              /\ \A i \in Len(v) + 1 .. Len(s) : s[i] # "/"
         [] asked.op = "file-name-nondirectory" ->
              /\ v = SubSeq(s, n + 1, Len(s))
              /\ n > 0 => s[n] = "/"
              /\ \A i \in DOMAIN v : v[i] # "/"
         [] asked.op \in {"file-name-as-directory", "directory-file-name"} -> Place(v) = Place(s)
         [] asked.op = "canonical-file-name" -> v = Where(s)
         [] OTHER -> TRUE

\* rep_blocked_ops[] is exactly what is in progress: for every operation the
\* handlers that are at it, the innermost first, whatever was thrown; and no
\* handler is asked for an operation on a name that it is at already, so one
\* that calls the operation again reaches the next handler and in the end the
\* primitive.  (The halves of a copy are found under copy-file, and those on
\* file objects by the object.)
HandlerFrames(s, op) == {i \in DOMAIN s : s[i].fn = "handler" /\ s[i].pc = op}
\* The entries of b are the handlers of the frames of s that are at op, in
\* the order of the frames.
Lists(b, s, op) ==
  \E at \in [DOMAIN b -> DOMAIN s] :
    /\ \A i, j \in DOMAIN b : i < j => at[i] < at[j]
    /\ {at[i] : i \in DOMAIN b} = HandlerFrames(s, op)
    /\ \A i \in DOMAIN b : b[i] = s[at[i]].h
LookedUp == PlainOps \cup NameOps \cup {"expand-file-name", "open-file", "rename-file", "copy-file"}
BlockedExact ==
  \A op \in Op :
    /\ Lists(blocked[op], stack, op)
    /\ op \in LookedUp => IsInjective(blocked[op])

\* When copy-file has returned without an error the destination holds what the
\* source held when it was called, the source still does, and no temporary file
\* is left, whichever of the two names handlers are responsible for and however
\* they make them local.  A file copied to itself is the exception: it is empty.
CopyFaithful ==
  asked.op = "copy-file" /\ asked.v.k = "t" /\ asked.from # asked.to =>
    /\ SysNode(fs, asked.to).data = asked.data
    /\ SysNode(fs, asked.from).data = asked.data
    /\ fs[Temp] = Absent

------------------------------------------------------------------------------
\* File objects.

\* File objects fl and C files o as programs find them, and keep them: a local
\* object has a C file, of its own unless it stands for one that is open from
\* the start; a C file that open-file has opened has an object; and an object
\* is bound to a file only where that file is bound to nothing itself, as those
\* are that the file handlers make, each over a local copy.
OpenModes == {"read", "write", "append"}
Typed(fl, o) ==
  /\ DOMAIN fl = File /\ \A f \in File : DOMAIN Unbound \subseteq DOMAIN fl[f]
  /\ DOMAIN o = Fd /\ \A d \in Fd : DOMAIN Closed \subseteq DOMAIN o[d]
Holds(fl, o) ==
  \A f \in File : fl[f].state = "live" =>
    /\ fl[f].handler = "t" => /\ fl[f].fd \in Fd
                              /\ fl[f].stream = "nil"
                              /\ o[fl[f].fd].mode \in IF fl[f].std THEN {"device"} ELSE OpenModes
    /\ fl[f].std => fl[f].handler = "t"
OwnFile(fl, f) == fl[f].state = "live" /\ fl[f].handler = "t" /\ ~fl[f].std
Alone(fl) == \A f, g \in File : OwnFile(fl, f) /\ OwnFile(fl, g) /\ fl[f].fd = fl[g].fd => f = g
Owner(fl, o) == \A d \in Fd : o[d].mode \in OpenModes => \E f \in File : OwnFile(fl, f) /\ fl[f].fd = d
Shallow(fl) ==
  \A f \in File : fl[f].stream \in File => fl[fl[f].stream].stream = "nil" /\ fl[fl[f].stream].state # "unborn"
Sound(fl, o) ==
  Typed(fl, o) /\ Holds(fl, o) /\ Alone(fl) /\ Owner(fl, o) /\ Shallow(fl) /\ o[1].mode = "device"

ASSUME ProgramsAssumption ==
  /\ IsFiniteSet(File)
  /\ File \cap {NoFile, "nil", "in", "out", "fun", "t", "fmt"} = {}
  /\ Fd \subseteq Nat /\ 1 \in Fd
  /\ \A p \in Programs : Sound(p.files, p.open)

LiveLocal == {f \in File : file[f].state = "live" /\ Local(f)}
InUse ==
  File \cap (held \cup UNION {{stack[i].f, stack[i].s, stack[i].d} \cup stack[i].chain : i \in DOMAIN stack})

\* Every local file object has an open C file of its own, every C file that
\* open-file has opened has a file object, which the sweep will close, every
\* input handler watches the file that it was set for, and no file object that
\* Lisp code or a call in progress uses has been freed, whoever closed what in
\* the meantime.
FilesOwned ==
  /\ \A f \in LiveLocal : fh[file[f].fd].mode # "closed"
  /\ \A d \in Fd : fh[d].mode \in {"read", "write", "append"}
                     => Cardinality({f \in LiveLocal : file[f].fd = d}) = 1
  /\ \A i \in DOMAIN inputs : inputs[i].f \in LiveLocal /\ file[inputs[i].f].fd = inputs[i].fd
  /\ \A f \in InUse : file[f].state = "live"

------------------------------------------------------------------------------
\* Streams.

Readable(b) == b \in {"in", "fun"} \/ b \in LiveLocal
Lines(s) == Cardinality({i \in DOMAIN s : s[i] = Newline})

ReadOps == {"read-byte", "peek-byte", "read-char", "read-bytes", "read-line"}

\* What a function that reads returns is what its stream held from the position
\* where it was, as much as it promises and no more: the next call goes on
\* after it, or at the same byte after peek-byte, through however many files
\* the bytes came; a character is read as the one that was written.  And the line number of a local file, where it is not marked
\* as unknown, is that of the position, less the lines that read-line took.
ReadRight ==
  /\ note.end /\ ~note.threw /\ Readable(note.src) /\ note.op \in ReadOps =>
       LET rest == SubSeq(Data(note.src), note.at + 1, Len(Data(note.src)))
           n == Len(note.bytes)
           some == CASE note.op \in {"read-byte", "peek-byte"} -> {1}
                     [] note.op = "read-char" -> IF rest = <<>> THEN {} ELSE {utf8_code_point_size(rest[1])}
                     [] note.op = "read-bytes" -> {note.n}
                     [] note.op = "read-line" -> {i \in DOMAIN rest : rest[i] = Newline}
           most == Min({Len(rest)} \cup some)
       IN /\ note.bytes = SubSeq(rest, 1, n)
          /\ n = most \/ (note.op = "read-char" /\ n = 0 /\ ~(some \subseteq 0 .. Len(rest)))
          /\ Pos(note.src) = note.at + (IF note.op = "peek-byte" THEN 0 ELSE most)
          /\ note.op = "read-char" => \A c \in Chars : note.bytes = utf32_to_utf8_1(c) => ret = IntV(c)
  /\ \A f \in LiveLocal :
       fh[file[f].fd].mode = "read" /\ ~file[f].bogus =>
         file[f].line + unseen[f] = 1 + Lines(SubSeq(Data(f), 1, Pos(f)))

\* What format is to write: every conversion with its own argument, or the one
\* it names, at least as wide as asked for and never cut unless asked for.
Field(it, s) ==
  LET body == (IF s # <<>> /\ s[1] = Minus THEN <<>> ELSE it.lead) \o s
      pad == [i \in 1 .. Min({it.width - Len(body), PadMax}) |-> IF it.zero THEN 48 ELSE 32]
  IN IF Len(body) >= it.width THEN (IF it.trunc THEN SubSeq(body, 1, it.width) ELSE body)
     ELSE IF it.left THEN body \o pad ELSE pad \o body
TextOf(it, arg) ==
  CASE it.conv = "hook" -> Field(it, <<104>>)
    [] it.conv = "S" /\ arg.k = "string" -> <<34>> \o arg.text \o <<34>>
    [] it.conv = "s" /\ arg.k = "string" -> Field(it, arg.text)
    [] it.conv \in {"d", "x", "o", "b"} -> IF arg.k = "int" THEN Field(it, arg.text) ELSE <<>>
    [] OTHER -> arg.text
Rendered(items, args) ==
  LET put(st, it) ==
        CASE it.conv = "literal" -> [st EXCEPT !.out = @ \o it.raw]
          [] it.conv = "%" -> [st EXCEPT !.out = Append(@, 37)]
          [] OTHER -> LET i == IF it.pos > 0 THEN it.pos ELSE st.next
                      IN [next |-> i + 1, out |-> st.out \o TextOf(it, args[i])]
  IN FoldLeft(put, [next |-> 1, out |-> <<>>], items).out

\* What is written to a string arrives there whole and in order: the result of
\* format is the rendering of its arguments however they were written, and
\* copy-stream brings over all that was left to read (unless a function called
\* meanwhile writes to the same string); and the string that is
\* being written always has room for its bytes and the null after them.
WrittenRight ==
  /\ \A b \in {"out", "fmt"} : Len(strm[b].data) + 1 <= strm[b].size
  /\ note.end /\ ~note.threw /\ ~note.mixed /\ note.dst \in {"out", "fmt"} =>
       LET new == IF note.dst = "fmt" THEN note.bytes ELSE SubSeq(strm["out"].data, note.had + 1, Len(strm["out"].data))
       IN /\ note.op = "format" => new = Rendered(note.items, note.args)
          /\ note.op = "copy-stream" /\ Readable(note.src) =>
               /\ new = SubSeq(Data(note.src), note.at + 1, Len(Data(note.src)))
               /\ Pos(note.src) = note.at + Len(new)
=============================================================================
