SPECIFICATION Spec
CONSTANTS
  First = first
  Cells = {c1, c2}
  Rejudges = {}
  CellAttempts = 2
  JudgeAttempts = 1
  FinalizeAttempts = 2
  RowsPerCell = 3
  MaxCrashes = 0
  MayDelete = FALSE
  TimePasses = FALSE
SYMMETRY CellSymmetry
INVARIANTS
  TypeOK
  OutcomeStaysTrue
CHECK_DEADLOCK FALSE
