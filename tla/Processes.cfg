CONSTANTS
  Proc = {p1, p2}
  NoProc = NoProc
  MaxFd = 4
  MaxUnread = 1
  MaxStarts = 2
  MaxNest = 1
  ConnTypes = {"pty"}
  StaleWords = {0}
  LispOps = {"start", "call", "signal", "accept", "throw"}
  CallbackOps = {"accept", "signal"}
SPECIFICATION Spec
SYMMETRY Symmetry
INVARIANTS NoLostChild DescriptorsOwned DrainedAtDeath
PROPERTY NotificationKept
