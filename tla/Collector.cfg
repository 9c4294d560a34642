CONSTANTS
  Obj = {o1, o2, o3, o4, o5}
  Nil = Nil
  Static = {}
  MaxTracked = 1
  MaxRoots = 2
  LispOps = {"cons", "set", "car", "weak", "guardian", "origin", "macro", "gc"}
SPECIFICATION Spec
SYMMETRY Symmetry
INVARIANTS NoDangling GarbageFreed
PROPERTY ReportedGone
