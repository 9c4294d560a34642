CONSTANTS
  Timer = {t1, t2}
  NoTimer = NoTimer
  MaxPeriod = 2
  PipeMax = 1
  MaxNest = 1
SPECIFICATION FairSpec
PROPERTY EveryTimerCollected
