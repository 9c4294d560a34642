------------------------------- MODULE MCData -------------------------------
(***************************************************************************)
(* Numbers and strings side by side: a program computes with one or with   *)
(* the other.                                                              *)
(***************************************************************************)
EXTENDS NumbersProps, StringsProps

OnStrings == uses <= MaxUses
Init == StringsInit /\ NumbersInit /\ (OnStrings => last = Kept(CHOOSE x \in Loaded : TRUE))
Next ==
  \/ ~OnStrings /\ NumbersNext /\ UNCHANGED stringsVars
  \/ OnStrings /\ StringsNext /\ UNCHANGED last
Spec == Init /\ [][Next]_<<last, stringsVars>>

\* Numbers on both sides of the limits of a fixnum of five bits and of a
\* long of seven.
MCLoaded ==
  {rep_MAKE_INT(n) : n \in {-16, -15, -3, -2, -1, 0, 1, 2, 3, 5, 15}}
  \cup {Big(n) : n \in {-70, -17, 16, 18, 70}}
  \cup {Num("rat", n, 2) : n \in {-3, 1, 31}} \cup {Num("rat", 2, 3)}
  \cup {Num("float", 0, 1), Num("float", -2, 1), Num("float", 5, 2), Num("float", 16, 1)}

\* UTF-8 of one, two and three bytes, two strings that are ASCII and start
\* alike but for case, one with a character cut off, and one of a stray byte;
\* the second string serves as pattern and as table, too.
MCOpenings ==
  {<<>>,
   << <<1, 195, 164>>, <<1, 2, 226, 130, 172>> >>,
   << <<226, 130, 172, 1>>, <<1>> >>,
   << <<97, 1>>, <<65, 2, 97>> >>,
   << <<1, 195>>, <<164>> >>}
=============================================================================
