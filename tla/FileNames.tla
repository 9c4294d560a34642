----------------------------- MODULE FileNames -----------------------------
(***************************************************************************)
(* File names in the local file system (local-files.c).  A name is a       *)
(* sequence of characters; only "/" and "." are told apart.                *)
(***************************************************************************)
EXTENDS Naturals, Sequences, FiniteSetsExt, SequencesExt

Slash == <<"/">>
Dot == <<".">>
DotDot == <<".", ".">>
LastIn(S) == Max(S \cup {0})

\* Where the last component starts, less one: file_part().
file_part(s) == LastIn({i \in 1 .. Len(s) : s[i] = "/"})

rep_file_name_absolute_p(s) == s # <<>> /\ s[1] = "/"

rep_file_name_nondirectory(s) == SubSeq(s, file_part(s) + 1, Len(s))

rep_file_name_directory(s) == SubSeq(s, 1, file_part(s))

rep_file_name_as_directory(s) == IF file_part(s) = Len(s) THEN s ELSE s \o Slash

rep_directory_file_name(s) ==
  CASE file_part(s) # Len(s) -> s
    [] s = <<>> -> Dot
    [] Len(s) = 1 -> s
    [] OTHER -> Front(s)

\* ".." after OUT: drop the last component if there is one to drop; "/.." is
\* "/"; else the dots stay.
Parent_All(out, tail) == LET back == LastIn({i \in 1 .. Len(out) - 1 : out[i] = "/"}) IN SubSeq(out, 1, back)
Parent(out, tail) ==
  LET end == LastIn({i \in 1 .. Len(out) : out[i] # "/"})
      back == LastIn({i \in 1 .. end : out[i] = "/"})
      name == SubSeq(out, back + 1, end)
  IN CASE name \notin {<<>>, DotDot} -> SubSeq(out, 1, back)
       [] name = <<>> /\ out = Slash -> out
       [] OTHER -> out \o DotDot \o tail

\* One component of the input with its slash, if it has one, put after OUT.
Component(out, c, tail) ==
  CASE c = Dot /\ tail # <<>> -> out
    [] c = Dot -> IF out = <<>> THEN Dot ELSE out
    [] c = DotDot -> Parent(out, tail)
    [] OTHER -> out \o c \o tail

\* The components left to right, runs of slashes taken as one; what is before
\* a leading slash is an empty component.
rep_expand_file_name(s) ==
  LET starts == {i \in 1 .. Len(s) : i = 1 \/ (s[i - 1] = "/" /\ s[i] # "/")}
      end(i) == Min({j \in i .. Len(s) : s[j] = "/"} \cup {Len(s) + 1})
      put(out, i) == Component(out, SubSeq(s, i, end(i) - 1), IF end(i) <= Len(s) THEN Slash ELSE <<>>)
      all == FoldLeft(put, <<>>, SetToSortSeq(starts, <))
  IN IF all = <<>> THEN Dot ELSE all

\* realpath() or, where it fails, the name; then every slash at the end goes.
rep_canonical_file_name(s, real) ==
  LET n == IF real = <<>> THEN s ELSE real
  IN SubSeq(n, 1, LastIn({i \in 1 .. Len(n) : n[i] # "/"}))

\* The directory that expand-file-name puts before a name that is not absolute.
InDirectory(dir, s) == IF dir = <<>> THEN s ELSE dir \o s
=============================================================================
