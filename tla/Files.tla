------------------------------- MODULE Files -------------------------------
(***************************************************************************)
(* Files and file handlers (files.c).  An operation on a file name expands *)
(* the name, looks for the first handler of *file-handler-alist* that      *)
(* matches it and is not at this operation already, and calls it or the    *)
(* primitive of local-files.c.  Handlers are Lisp code: they call further  *)
(* operations, return, throw, and collect garbage.                         *)
(*                                                                         *)
(* The stack has one frame for each C function and each Lisp function in   *)
(* progress, the innermost first; `ret' is the value just returned to the  *)
(* topmost one, or NoValue while it runs.                                  *)
(***************************************************************************)
EXTENDS LocalFiles

CONSTANTS
  Handler,       \* file handlers
  Alist,         \* *file-handler-alist*: a sequence of handlers
  Matches(_, _), \* whether a handler's regexp matches a name
  File,          \* file objects
  Fd,            \* descriptors
  Name,          \* names that programs use
  Temp,          \* the name that make-temp-name makes, not in Name
  Default,       \* *default-directory*
  Programs,      \* what programs may do, see `program'
  NoHandler, NoFile, NoFd

ASSUME FilesAssumption ==
  /\ Alist \in Seq(Handler)
  /\ NoHandler \notin Handler
  /\ Temp \in Path \ Name

VARIABLES
  fs,            \* the local file system, and what the handlers store
  file,          \* file objects
  fh,            \* open C files
  inputs,        \* input_handlers, the newest first
  stack, ret,
  throwing,      \* rep_throw_value is set
  blocked,       \* rep_blocked_ops: for each operation the handlers at it
  held,          \* file objects that Lisp code has
  program,       \* [ops, inner: what the program and its functions call; names: with which names;
                 \*  calls: how often; nest: how deep]
  asked,         \* ghost: the program's last call, and what it got
  crashed        \* the process has died

filesVars == <<fs, file, fh, inputs, stack, ret, throwing, blocked, held, program, asked, crashed>>

\* Operations on names that are not expanded first, those that are, and those
\* on file objects.
PlainOps == {"file-name-absolute?", "file-name-nondirectory", "file-name-directory", "file-name-as-directory",
             "directory-file-name"}
NameOps == {"local-file-name", "canonical-file-name", "delete-file", "make-directory", "delete-directory",
            "file-readable?", "file-writable?", "file-exists?", "file-regular?", "file-directory?", "file-symlink?",
            "file-owner?", "file-nlinks", "file-size", "file-modes", "set-file-modes", "file-modes-as-string",
            "file-modtime", "directory-files", "read-symlink", "make-symlink"}
Op == PlainOps \cup NameOps \cup
      {"expand-file-name", "open-file", "close-file", "flush-file", "seek-file", "rename-file", "copy-file",
       "copy-file-to-local-fs", "copy-file-from-local-fs"}

NoValue == Value("-")
Null == Value("null")
FileV(f) == [k |-> "file", v |-> f]
NoCall == [op |-> "", a |-> <<>>, from |-> <<>>, to |-> <<>>, data |-> <<>>, v |-> NoValue]

\* name, handler ("nil", "t" for a local file, or a handler), file.fh or
\* file.stream, and the flags and the line number
Unbound == [state |-> "live", name |-> <<>>, handler |-> "nil", by |-> NoHandler, fd |-> NoFd, stream |-> "nil",
            std |-> FALSE, bogus |-> TRUE, silent |-> FALSE, line |-> 0]
Unborn == [Unbound EXCEPT !.state = "unborn"]
Local(f) == file[f].handler = "t"
Closed == [path |-> <<>>, pos |-> 0, mode |-> "closed", buf |-> <<>>]

------------------------------------------------------------------------------
\* Frames.

Frame(fn, a, b) == [fn |-> fn, pc |-> "start", a |-> a, b |-> b, h |-> NoHandler, g |-> NoHandler, f |-> NoFile,
                    s |-> "nil", d |-> "nil", buf |-> <<>>, n |-> 0, arg |-> 0, chain |-> {}]
Top == stack[1]
LispFrames == {"handler", "input", "function"}
InLisp == ~crashed /\ ret = NoValue /\ (stack # <<>> => Top.fn \in LispFrames)
InC(fn) == ~crashed /\ stack # <<>> /\ Top.fn = fn
Depth == Cardinality({i \in DOMAIN stack : stack[i].fn \in LispFrames})

\* The file that a name stands for.
Where(s) == SysFollow(fs, rep_expand_file_name(IF rep_file_name_absolute_p(s) THEN s ELSE rep_file_name_as_directory(Default) \o s))

\* Lisp code calls a function of the library.
MayCall == InLisp /\ program.calls > 0 /\ Depth <= program.nest
Calls(op, a, b) ==
  /\ MayCall
  /\ op \in IF stack = <<>> THEN program.ops ELSE program.inner
  /\ program' = [program EXCEPT !.calls = @ - 1]
  /\ asked' = IF stack # <<>> THEN asked
              ELSE IF op = "copy-file"
              THEN [NoCall EXCEPT !.op = op, !.a = a, !.from = Where(a), !.to = Where(b), !.data = SysStat(fs, Where(a)).data]
              ELSE [NoCall EXCEPT !.op = op, !.a = a]

Call(op, a, b) ==
  /\ Calls(op, a, b)
  /\ stack' = <<Frame(op, a, b)>> \o stack
  /\ UNCHANGED <<fs, file, fh, inputs, ret, throwing, blocked, held, crashed>>

Return(v) ==
  /\ stack' = Tail(stack)
  /\ ret' = v

Enter(fr, callee) ==
  /\ stack' = <<callee, fr>> \o Tail(stack)
  /\ ret' = NoValue

------------------------------------------------------------------------------
\* Handlers.

\* While a throw is pending only the first entry is looked at.
rep_get_file_handler(op, s) ==
  LET seen == IF throwing THEN 1 ELSE Len(Alist)
      fit == {i \in DOMAIN Alist : i <= seen /\ Matches(Alist[i], s) /\ ~Contains(blocked[op], Alist[i])}
  IN IF fit = {} THEN NoHandler ELSE Alist[Min(fit)]

\* rep_call_file_handler(): a function called while a throw is pending returns
\* at once.
rep_call_file_handler(below, h, op, fr) ==
  IF throwing
  THEN /\ stack' = below
       /\ ret' = Null
       /\ UNCHANGED blocked
  ELSE /\ stack' = <<[fr EXCEPT !.fn = "handler", !.pc = op, !.h = h]>> \o below
       /\ ret' = NoValue
       /\ blocked' = [blocked EXCEPT ![op] = <<h>> \o @]

\* A Lisp function ends and rep_call_file_handler() pops its operation.
Ends_Throw(v) ==
  /\ Return(v)
  /\ blocked' = IF Top.fn = "handler" /\ v.k # "null" THEN [blocked EXCEPT ![Top.pc] = Tail(@)] ELSE blocked
Ends(v) ==
  /\ Return(v)
  /\ blocked' = IF Top.fn = "handler" THEN [blocked EXCEPT ![Top.pc] = Tail(@)] ELSE blocked

------------------------------------------------------------------------------
\* Functions of a name that is not expanded, and expand-file-name.

PlainPrimitive(op, s) ==
  CASE op = "file-name-absolute?" -> Bool(rep_file_name_absolute_p(s))
    [] op = "file-name-nondirectory" -> NameV(rep_file_name_nondirectory(s))
    [] op = "file-name-directory" -> NameV(rep_file_name_directory(s))
    [] op = "file-name-as-directory" -> NameV(rep_file_name_as_directory(s))
    [] op = "directory-file-name" -> NameV(rep_directory_file_name(s))

PlainStep ==
  /\ ~crashed /\ stack # <<>> /\ Top.fn \in PlainOps
  /\ LET h == rep_get_file_handler(Top.fn, Top.a)
     IN IF h # NoHandler THEN rep_call_file_handler(Tail(stack), h, Top.fn, Top)
        ELSE Return(PlainPrimitive(Top.fn, Top.a)) /\ UNCHANGED blocked
  /\ UNCHANGED <<fs, file, fh, inputs, throwing, held, program, asked, crashed>>

Expanded(s) ==
  LET h == rep_get_file_handler("expand-file-name", s)
  IN IF h # NoHandler THEN rep_call_file_handler(Tail(stack), h, "expand-file-name", [Top EXCEPT !.a = s])
     ELSE Return(NameV(rep_expand_file_name(s))) /\ UNCHANGED blocked

\* Fexpand_file_name(): a throw in file-name-as-directory is not looked at.
ExpandStep ==
  /\ InC("expand-file-name")
  /\ \/ /\ Top.pc = "start"
        /\ Enter([Top EXCEPT !.pc = "absolute"], Frame("file-name-absolute?", Top.a, <<>>))
        /\ UNCHANGED blocked
     \/ /\ Top.pc = "absolute"
        /\ ret # NoValue
        /\ CASE ret.k = "null" -> Return(Null) /\ UNCHANGED blocked
             [] ret.k = "nil" ->
                  /\ Enter([Top EXCEPT !.pc = "directory"], Frame("file-name-as-directory", Default, <<>>))
                  /\ UNCHANGED blocked
             [] OTHER -> Expanded(Top.a)
     \/ /\ Top.pc = "directory"
        /\ ret # NoValue
        /\ Expanded(IF ret.k = "name" THEN InDirectory(ret.v, Top.a) ELSE Top.a)
  /\ UNCHANGED <<fs, file, fh, inputs, throwing, held, program, asked, crashed>>

FileNameAbsolute(s) == Call("file-name-absolute?", s, <<>>)
FileNameNondirectory(s) == Call("file-name-nondirectory", s, <<>>)
FileNameDirectory(s) == Call("file-name-directory", s, <<>>)
FileNameAsDirectory(s) == Call("file-name-as-directory", s, <<>>)
DirectoryFileName(s) == Call("directory-file-name", s, <<>>)
ExpandFileName(s) == Call("expand-file-name", s, <<>>)

------------------------------------------------------------------------------
\* Functions of one expanded name.

Primitive(op, s, b) ==
  CASE op = "local-file-name" -> [v |-> NameV(s), fs |-> fs]
    [] op = "canonical-file-name" -> [v |-> NameV(rep_canonical_file_name(s, SysFollow(fs, s))), fs |-> fs]
    [] op = "delete-file" -> rep_delete_file(fs, s)
    [] op = "make-directory" -> rep_make_directory(fs, s)
    [] op = "delete-directory" -> rep_delete_directory(fs, s)
    [] op = "file-readable?" -> rep_file_readable_p(fs, s)
    [] op = "file-writable?" -> rep_file_writable_p(fs, s)
    [] op = "file-exists?" -> rep_file_exists_p(fs, s)
    [] op = "file-regular?" -> rep_file_regular_p(fs, s)
    [] op = "file-directory?" -> rep_file_directory_p(fs, s)
    [] op = "file-symlink?" -> rep_file_symlink_p(fs, s)
    [] op = "file-owner?" -> rep_file_owner_p(fs, s)
    [] op = "file-nlinks" -> rep_file_nlinks(fs, s)
    [] op = "file-size" -> rep_file_size(fs, s)
    [] op = "file-modes" -> rep_file_modes(fs, s)
    [] op = "set-file-modes" -> rep_set_file_modes(fs, s, b)
    [] op = "file-modes-as-string" -> rep_file_modes_string(fs, s)
    [] op = "file-modtime" -> rep_file_modtime(fs, s)
    [] op = "directory-files" -> rep_directory_files(fs, s)
    [] op = "read-symlink" -> rep_read_symlink(fs, s)
    [] op = "make-symlink" -> rep_make_symlink(fs, s, b)

\* rep_expand_and_get_handler(), and the handler or the primitive.
NameStep ==
  /\ ~crashed /\ stack # <<>> /\ Top.fn \in NameOps
  /\ \/ /\ Top.pc = "start"
        /\ Enter([Top EXCEPT !.pc = "expanded"], Frame("expand-file-name", Top.a, <<>>))
        /\ UNCHANGED <<fs, throwing, blocked>>
     \/ /\ Top.pc = "expanded"
        /\ ret # NoValue
        /\ LET h == rep_get_file_handler(Top.fn, ret.v)
               p == Primitive(Top.fn, ret.v, Top.b)
           IN CASE ret.k = "null" -> Return(Null) /\ UNCHANGED <<fs, throwing, blocked>>
                [] ret.k # "null" /\ h # NoHandler ->
                     /\ rep_call_file_handler(Tail(stack), h, Top.fn, [Top EXCEPT !.a = ret.v])
                     /\ UNCHANGED <<fs, throwing>>
                [] OTHER ->
                     /\ Return(p.v)
                     /\ fs' = p.fs
                     /\ throwing' = (throwing \/ p.v.k = "null")
                     /\ UNCHANGED blocked
  /\ UNCHANGED <<file, fh, inputs, held, program, asked, crashed>>

LocalFileName(s) == Call("local-file-name", s, <<>>)
CanonicalFileName(s) == Call("canonical-file-name", s, <<>>)
DeleteFile(s) == Call("delete-file", s, <<>>)
MakeDirectory(s) == Call("make-directory", s, <<>>)
DeleteDirectory(s) == Call("delete-directory", s, <<>>)
FileReadable(s) == Call("file-readable?", s, <<>>)
FileWritable(s) == Call("file-writable?", s, <<>>)
FileExists(s) == Call("file-exists?", s, <<>>)
FileRegular(s) == Call("file-regular?", s, <<>>)
FileDirectory(s) == Call("file-directory?", s, <<>>)
FileSymlink(s) == Call("file-symlink?", s, <<>>)
FileOwner(s) == Call("file-owner?", s, <<>>)
FileNlinks(s) == Call("file-nlinks", s, <<>>)
FileSize(s) == Call("file-size", s, <<>>)
FileModes(s) == Call("file-modes", s, <<>>)
SetFileModes(s, m) == Call("set-file-modes", s, m)
FileModesAsString(s) == Call("file-modes-as-string", s, <<>>)
FileModtime(s) == Call("file-modtime", s, <<>>)
DirectoryFiles(s) == Call("directory-files", s, <<>>)
ReadSymlink(s) == Call("read-symlink", s, <<>>)
MakeSymlink(s, c) == Call("make-symlink", s, c)
=============================================================================
