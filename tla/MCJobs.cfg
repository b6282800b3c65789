SPECIFICATION Spec
CONSTANTS
  Unit <- MCUnit
  Builds <- MCBuilds
  Jobs = 2
  Bound = 1
  p1 = p1
  p2 = p2
  p3 = p3
  ro = ro
  Process <- const_Process
  ReadOnly = {ro}
  Budgets <- const_Budgets
  Worlds <- const_Worlds
INVARIANTS
  JobsRight
  TokensAccounted
  OutcomeRight
  LocksRight
  ResolvedRight
PROPERTIES
  NoJobAfterError
  JobsEnd
  Resolves
CHECK_DEADLOCK FALSE
