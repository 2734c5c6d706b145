SPECIFICATION FairSpec
CONSTANTS
  None = None
  Traces = {tA, tB}
  Flags = {TRUE, FALSE}
  tA = tA
  tB = tB
  Programs <- MCPrograms
  MaxRetries <- MCMaxRetries
  MaxBatchSpans = 3
  MaxQueuedSpans = 3
  Loops = {l1, l2}
  Callers = {k1, k2}
  Closers = {k1, k2}
INVARIANTS
  TypeOK
  OneRequest
  InOrder
  NoneVanishes
  FlushSettles
  Served
PROPERTIES
  FlushReturns
CHECK_DEADLOCK FALSE
