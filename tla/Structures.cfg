CONSTANTS
  dflt = dflt
  meta = meta
  lz = lz
  sa = sa
  sb = sb
  nd = nd
  nm = nm
  nl = nl
  na = na
  vx = vx
  None = None
  Structs = {dflt, meta, lz, sa, sb}
  Names = {nd, nm, nl, na}
  Vars = {vx}
  Ifaces = {}
  Default = dflt
  Meta = meta
  MetaName = nm
  Lazy = {lz}
  NameOf <- MCNameOf
  Provided <- MCProvided
  IfaceList <- MCNoIfaces
  Assoc = 1
  MaxDepth = 3
  MaxOpened = 2
  MaxNames = 1
  MaxMarks = 1
  LispOps = {"ref", "access", "define", "unbind", "export", "interface", "export-all", "make", "alias", "open", "eval", "gc"}
SPECIFICATION Spec
INVARIANT CacheCoherent
 
SYMMETRY Symmetry
CHECK_DEADLOCK FALSE
