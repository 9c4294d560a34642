CONSTANTS
  Timer = {t1, t2, t3}
  NoTimer = NoTimer
  MaxPeriod = 2
  PipeMax = 1
  MaxNest = 1
SPECIFICATION Spec
SYMMETRY Symmetry
INVARIANTS HandlerHasTimer NoLostWakeup FiredFirst NoDanglingTimer
PROPERTY DeltasPreserved
