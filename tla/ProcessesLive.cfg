CONSTANTS
  Proc = {p1, p2}
  NoProc = NoProc
  MaxFd = 4
  MaxUnread = 1
  MaxStarts = 2
  MaxNest = 0
  ConnTypes = {"pty"}
  StaleWords = {0}
  LispOps = {"start", "call", "accept1", "drop", "gc", "close"}
  CallbackOps = {}
SPECIFICATION FairSpec
PROPERTIES EveryExitSeen CallReturns
