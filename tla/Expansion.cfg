SPECIFICATION Spec
CONSTANTS
  f = f
  g = g
  ping = ping
  MaxModules = 3
  MaxMethods = 3
  MaxNesting = 2
  Flags <- TwoFlags
  Names <- OneName
  Rejected = Rejected
  AttrLists <- Conditionals
INVARIANTS
  InnermostScopeWins
  FirstDeclarationWins
  ClashReported
  BulkIffSignals
CHECK_DEADLOCK FALSE
