SPECIFICATION FairSpec
CONSTANTS
  None = None
  Examples = {e1}
  Uploads = {u1}
  Finishes = {f1}
  Calls = {j1, j2}
  Versions = {v1, v2}
INVARIANTS
  OneRubric
PROPERTIES
  RefinesLifecycle
CHECK_DEADLOCK FALSE
