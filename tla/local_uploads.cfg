SPECIFICATION Spec
CONSTANTS
  None = None
  Examples = {e1, e2}
  Uploads = {u1, u2}
  Finishes = {f1, f2}
  Calls = {}
  Versions = {v1, v2}
SYMMETRY RequestSymmetry
INVARIANTS
  TypeOK
  OneRowPerExample
  FinishedAsAnswered
CHECK_DEADLOCK FALSE
