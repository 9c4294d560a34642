CONSTANTS
  lexical = lexical
  dynamic = dynamic
  compiled = compiled
  var = var
  home = home
  other = other
  None = None
  UserInt = UserInt
  TermInt = TermInt
  DepthError = DepthError
  Errors = {DepthError}
  Exits = {}
  Tags = {}
  Funs = {lexical, dynamic, compiled}
  Code <- MCCode
  FunEnv <- MCFunEnv
  FunStructure <- MCFunStructure
  LexParams <- MCLexParams
  SpecParams <- MCSpecParams
  Symbols = {var}
  Structures = {home, other}
  InitStructure = home
  MaxLispDepth = 3
  MaxScopes = 5
  MaxBindings = 1
  MaxImpurity = 2
  MaxSignals = 1
SPECIFICATION Spec
INVARIANTS   TailCallsCaught PureTailCalls
CHECK_DEADLOCK FALSE
