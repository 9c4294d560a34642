CONSTANTS
  h1 = h1
  h2 = h2
  f1 = f1
  f2 = f2
  f3 = f3
  NoHandler = NoHandler
  NoFile = NoFile
  NoFd = NoFd
  Path <- MCPath
  Handler <- MCHandler
  Alist <- MCAlist
  Matches <- MCMatches
  File <- MCFile
  Fd <- MCFd
  Name <- MCName
  Temp <- MCTemp
  Default <- MCDefault
  Programs <- MCPrograms
  Source <- MCSource
  SmallCap = 2
  CopyBuf = 2
  Formats <- MCFormats
  Written <- MCWritten
  Chars <- MCChars
  Modess <- MCModess
  PadMax = 4
SPECIFICATION Spec
INVARIANTS  BlockedExact CopyFaithful   
CHECK_DEADLOCK FALSE
