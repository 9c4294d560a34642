------------------------------ MODULE MCLists ------------------------------
EXTENDS ListsProps

CONSTANTS c1, c2, c3, c4, c5, a, a2, b

\* a and a2 are equal? and eqv? but not the same object, as two big numbers.
MCClassOf == (a :> a) @@ (a2 :> a) @@ (b :> b)
MCFirst == <<c1, c2, c3>>

\* A list of n cells from c1 on, a list y and the pair (a . b) in c5.
MCHeap(n, cars, end, yend) ==
  [car |-> [c \in Cell |-> IF \E i \in 1 .. n : MCFirst[i] = c
                           THEN cars[CHOOSE i \in 1 .. n : MCFirst[i] = c]
                           ELSE IF c = c4 THEN b ELSE IF c = c5 THEN a ELSE Nil],
   cdr |-> [c \in Cell |-> IF c = c4 THEN yend ELSE IF c = c5 THEN b
                           ELSE IF n > 0 /\ c = MCFirst[n] THEN end
                           ELSE IF \E i \in 1 .. n - 1 : MCFirst[i] = c
                           THEN MCFirst[(CHOOSE i \in 1 .. n - 1 : MCFirst[i] = c) + 1] ELSE Nil],
   used |-> {MCFirst[i] : i \in 1 .. n} \cup {c4, c5}]

MCStart(n, cars, end, yval, yend, p, v, w) ==
  LET head == IF n = 0 THEN Nil ELSE c1
      h == MCHeap(n, cars, end, IF yend = b THEN head ELSE Nil) IN
  [heap |-> h, x |-> head, y |-> yval, plist |-> IF p = Void THEN Void ELSE head,
   vec |-> v, writable |-> w]

MCCars(n) ==
  CASE n = 0 -> {<<>>}
    [] n = 1 -> {<<a>>, <<c5>>}
    [] n = 2 -> {<<a, a2>>, <<a2, c5>>, <<c5, a>>, <<a, a>>}
    [] n = 3 -> {<<a, c5, a2>>, <<a, a, b>>}

\* Lists with every end, alone and with a second list that may share them.
MCShapes ==
  UNION {{MCStart(n, cars, end, second[1], second[2], Nil, <<a, b>>, TRUE) :
            cars \in MCCars(n), end \in {Nil, b} \cup {MCFirst[i] : i \in 1 .. n},
            second \in {<<c4, Nil>>, <<c4, b>>, <<b, Nil>>}} : n \in 0 .. 3}
\* A symbol without properties, and a constant and an empty vector.
MCOthers ==
  {MCStart(3, <<a, b, a>>, Nil, c4, Nil, Void, <<a, b>>, TRUE),
   MCStart(2, <<a, a2>>, Nil, c4, Nil, Void, <<a>>, FALSE),
   MCStart(0, <<>>, Nil, b, Nil, Void, <<>>, TRUE)}
MCStarts == MCShapes \cup MCOthers
=============================================================================
