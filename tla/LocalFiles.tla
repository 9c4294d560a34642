----------------------------- MODULE LocalFiles -----------------------------
(***************************************************************************)
(* The file operations of local-files.c on a small file system.  The       *)
(* system calls (Sys...) are external and modelled by what the code relies *)
(* on: each gives the new file system, or fails and leaves the old one.    *)
(* A primitive returns [v, fs]: its value and the file system after it; a  *)
(* value "null" is a signalled error.                                      *)
(***************************************************************************)
EXTENDS FileNames

CONSTANT Path          \* the names, fully expanded, that the file system may hold

\* permissions: who they are for (0: owner, 1: group, 2: others) and "r", "w",
\* "x", or "s" for the set-user, set-group and sticky bits
Modes == (0 .. 2) \X {"r", "w", "x", "s"}
Absent == [kind |-> "none", data |-> <<>>, modes |-> {}, to |-> <<>>]
Regular(d) == [Absent EXCEPT !.kind = "file", !.data = d, !.modes = {<<0, "r">>, <<0, "w">>}]
Directory == [Absent EXCEPT !.kind = "dir", !.modes = {<<0, "r">>, <<0, "w">>, <<0, "x">>}]
Link(p) == [Absent EXCEPT !.kind = "link", !.to = p]

Value(k) == [k |-> k, v |-> <<>>]
NameV(s) == [k |-> "name", v |-> s]
Bool(b) == Value(IF b THEN "t" ELSE "nil")

------------------------------------------------------------------------------
\* System calls.

SysNode(fs, s) == IF s \in Path THEN fs[s] ELSE Absent
\* links point to names that are no links
SysFollow(fs, s) == LET n == SysNode(fs, s) IN IF n.kind = "link" THEN n.to ELSE s
SysStat(fs, s) == SysNode(fs, SysFollow(fs, s))
SysCanMake(fs, s) ==
  /\ s \in Path
  /\ LET dir == rep_directory_file_name(rep_file_name_directory(s))
     IN dir = <<"/">> \/ SysStat(fs, dir).kind = "dir"
SysEntries(fs, s) == {p \in Path : fs[p].kind # "none" /\ rep_file_name_directory(p) = rep_file_name_as_directory(s)}
SysEmpty(fs, s) == SysEntries(fs, s) = {}
SysRename(fs, s, d) ==
  LET n == SysNode(fs, s)
      o == SysNode(fs, d)
  IN /\ n.kind # "none"
     /\ SysCanMake(fs, d)
     /\ IF n.kind = "dir" THEN SysEmpty(fs, s) /\ (o.kind = "none" \/ (o.kind = "dir" /\ SysEmpty(fs, d)))
                          ELSE o.kind # "dir"

------------------------------------------------------------------------------
\* Primitives.

Done(fs) == [v |-> Value("t"), fs |-> fs]
Failed(fs) == [v |-> Value("null"), fs |-> fs]
Try(ok, fs, new) == IF ok THEN Done(new) ELSE Failed(fs)
Answer(fs, v) == [v |-> v, fs |-> fs]

rep_delete_file(fs, s) == Try(SysNode(fs, s).kind \in {"file", "link"}, fs, [fs EXCEPT ![s] = Absent])

rep_rename_file(fs, s, d) ==
  Try(SysRename(fs, s, d), fs, IF s = d THEN fs ELSE [fs EXCEPT ![d] = fs[s], ![s] = Absent])

rep_make_directory(fs, s) == Try(SysCanMake(fs, s) /\ SysNode(fs, s).kind = "none", fs, [fs EXCEPT ![s] = Directory])

rep_delete_directory(fs, s) == Try(SysNode(fs, s).kind = "dir" /\ SysEmpty(fs, s), fs, [fs EXCEPT ![s] = Absent])

\* Mutant of rep_copy_file: the name of the destination is not followed.
rep_copy_file_Unlinked(fs, s, d, kept) ==
  LET from == SysFollow(fs, s)
  IN IF SysNode(fs, from).kind # "file" THEN Failed(fs)
     ELSE IF ~SysCanMake(fs, d) \/ SysNode(fs, d).kind = "dir" THEN Failed(fs)
     ELSE Done([fs EXCEPT ![d] = Regular(fs[from].data)])

\* The destination is cut to nothing, gets the modes of the source, and then
\* what is read from it: of a file copied to itself nothing is left.  KEPT is
\* how much is copied before an error.
rep_copy_file(fs, s, d, kept) ==
  LET from == SysFollow(fs, s)
      to == SysFollow(fs, d)
      opened == [fs EXCEPT ![to] = [Regular(<<>>) EXCEPT !.modes = fs[from].modes]]
      data == opened[from].data
  IN IF SysNode(fs, from).kind \notin {"file", "dir"} THEN Failed(fs)
     ELSE IF ~SysCanMake(fs, to) \/ SysNode(fs, to).kind = "dir" THEN Failed(fs)
     ELSE IF fs[from].kind = "dir" THEN Failed(opened)
     ELSE IF kept < Len(data) THEN Failed([opened EXCEPT ![to].data = SubSeq(data, 1, kept)])
     ELSE Done([opened EXCEPT ![to].data = data])

Access(fs, s, m) == SysStat(fs, s).kind # "none" /\ <<0, m>> \in SysStat(fs, s).modes
rep_file_readable_p(fs, s) == Answer(fs, Bool(Access(fs, s, "r")))
rep_file_writable_p(fs, s) == Answer(fs, Bool(Access(fs, s, "w")))
rep_file_exists_p(fs, s) == Answer(fs, Bool(SysStat(fs, s).kind # "none"))
rep_file_regular_p(fs, s) == Answer(fs, Bool(SysStat(fs, s).kind = "file"))
rep_file_directory_p(fs, s) == Answer(fs, Bool(SysStat(fs, s).kind = "dir"))
rep_file_symlink_p(fs, s) == Answer(fs, Bool(SysNode(fs, s).kind = "link"))

\* What stat() tells, or nil; one link, and one owner who is the user.
Stat(fs, s, v) == Answer(fs, IF SysStat(fs, s).kind = "none" THEN Value("nil") ELSE v)
rep_file_owner_p(fs, s) == Stat(fs, s, Value("t"))
rep_file_nlinks(fs, s) == Stat(fs, s, [k |-> "int", v |-> 1])
rep_file_size(fs, s) == Stat(fs, s, [k |-> "int", v |-> Len(SysStat(fs, s).data)])
rep_file_modes(fs, s) == Stat(fs, s, [k |-> "modes", v |-> SysStat(fs, s).modes])
\* the time of a file that does not exist is zero
rep_file_modtime(fs, s) == Answer(fs, [k |-> "int", v |-> IF SysStat(fs, s).kind = "none" THEN 0 ELSE 1])

rep_set_file_modes(fs, s, m) ==
  LET to == SysFollow(fs, s)
  IN IF SysNode(fs, to).kind = "none" THEN Failed(fs)
     ELSE Answer([fs EXCEPT ![to].modes = m], [k |-> "modes", v |-> m])

\* Ten characters: the kind, and for each of the three groups the letters of
\* its bits, where the third position tells "x" with, and without, the special
\* bit of the group.
rep_file_modes_as_string(kind, modes) ==
  LET has(i, m) == <<i, m>> \in modes
      third(i) == CASE has(i, "s") /\ has(i, "x") -> IF i < 2 THEN "s" ELSE "t"
                    [] has(i, "s") -> IF i < 2 THEN "S" ELSE "T"
                    [] has(i, "x") -> "x"
                    [] OTHER -> "-"
      group(i) == <<IF has(i, "r") THEN "r" ELSE "-", IF has(i, "w") THEN "w" ELSE "-", third(i)>>
  IN <<CASE kind = "dir" -> "d" [] kind = "link" -> "l" [] OTHER -> "-">> \o group(0) \o group(1) \o group(2)
rep_file_modes_string(fs, s) ==
  Answer(fs, [k |-> "modes-string", v |-> rep_file_modes_as_string(SysStat(fs, s).kind, SysStat(fs, s).modes)])

rep_directory_files(fs, s) ==
  LET dir == IF s = <<>> THEN <<".">> ELSE rep_directory_file_name(s)
  IN IF dir = <<"/">> \/ SysStat(fs, dir).kind = "dir"
     THEN Answer(fs, [k |-> "names", v |-> {rep_file_name_nondirectory(p) : p \in SysEntries(fs, SysFollow(fs, dir))}])
     ELSE Failed(fs)

rep_read_symlink(fs, s) == IF SysNode(fs, s).kind = "link" THEN Answer(fs, NameV(fs[s].to)) ELSE Failed(fs)

rep_make_symlink(fs, s, contents) ==
  Try(SysCanMake(fs, s) /\ SysNode(fs, s).kind = "none", fs, [fs EXCEPT ![s] = Link(contents)])
=============================================================================
