CONSTANTS
  Sock = {s1, s2, s3}
  Fd = {3, 4}
  MaxChunk = 1
  MaxDepth = 6
  MaxServers = 1
  OwnOps = {}
  None = None
SPECIFICATION Spec
INVARIANTS HandlerHasSocket 
PROPERTY EofServed
