CONSTANTS
  ka = ka
  kb = kb
  kc = kc
  c1 = c1
  c2 = c2
  Key = {ka, kb, kc}
  Class = {c1, c2}
  ClassOf <- MCClassOf
  Hash <- MCHash
  Value = {v1, v2}
  Node = {n1, n2, n3}
  Nil = Nil
  Failed = Failed
  FirstSize = 1
  CallbackOps = {"ref", "set", "delete", "gc"}
  MaxDepth = 1
  MaxGone = 1
SPECIFICATION Spec
SYMMETRY Symmetry
 
PROPERTIES WalkComplete 
