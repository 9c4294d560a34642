CONSTANTS
  c1 = c1
  c2 = c2
  c3 = c3
  c4 = c4
  c5 = c5
  a = a
  a2 = a2
  b = b
  Cell = {c1, c2, c3, c4, c5, c6, c7, c8, c9}
  Atom = {a, a2, b}
  ClassOf <- MCClassOf
  EqvOf <- MCClassOf
  Nil = Nil
  Null = Null
  Period = 1
  MaxOps = 1
  MaxCalls = 3
  Index = {0, 1, 2, 4}
  CallbackOps = {"gc", "forget", "extend", "unlink", "vector-set!"}
  MaxSteps = 1
  Verdict = {a, Nil}
  MaxLen = 2
  Prop = {a, b}
  Void = Void
  Starts <- MCStarts
SPECIFICATION Spec
INVARIANTS RightResult 
PROPERTY ChangesOwnCells
CHECK_DEADLOCK FALSE
