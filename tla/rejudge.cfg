SPECIFICATION FairSpec
CONSTANTS
  First = first
  Cells = {c1}
  Rejudges = {q1}
  CellAttempts = 1
  JudgeAttempts = 1
  FinalizeAttempts = 1
  RowsPerCell = 2
  MaxCrashes = 0
  MayDelete = FALSE
  TimePasses = TRUE
INVARIANTS
  DriverInv
  RestoredKeepsVerdicts
PROPERTIES
  OnlyRejudgeReopens
  RefinesLifecycle
CHECK_DEADLOCK FALSE
