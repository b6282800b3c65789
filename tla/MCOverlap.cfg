INIT Init
NEXT Next
CONSTANTS
  c1 = c1
  c2 = c2
  LkCargo = {c1, c2}
  Manifests <- Overlapping
  RegDeps <- MCRegDeps
  Published <- MCPublished
  Unpublished <- MCUnpublished
  Commands <- MCCommands
  Budgets <- MCBudgets
  EditWorlds <- MCEditWorlds
  EditCommands <- MCEditCommands
  MaxEdits = 2
  DlWorlds <- MCDlWorlds
  NetRetry = 1
  p1 = p1
  p2 = p2
  p3 = p3
  Process <- const_Process
  Kind <- const_Kind
  Package = {1}
  Rev = {1}
  MaxAge <- const_MaxAge
  CleanOpts <- const_CleanOpts
  Resolution = 1
  Frequency = 1
  End = 4
  GcInterrupted = FALSE
INVARIANT
  LockHonoured
CHECK_DEADLOCK FALSE
