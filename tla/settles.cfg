SPECIFICATION FairSpec
CONSTANTS
  First = first
  Cells = {c1}
  Rejudges = {}
  CellAttempts = 1
  JudgeAttempts = 2
  FinalizeAttempts = 1
  RowsPerCell = 3
  MaxCrashes = 1
  MayDelete = TRUE
  TimePasses = TRUE
INVARIANTS
  HasDriver
  StallStaysTrue
PROPERTIES
  EventuallySettles
  FinalizedIsMailed
CHECK_DEADLOCK FALSE
