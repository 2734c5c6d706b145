SPECIFICATION FairSpec
CONSTANTS
  tA = tA
  tB = tB
  r1 = r1
  r2 = r2
  r3 = r3
  x1 = x1
  x2 = x2
  c1 = c1
  c2 = c2
  c3 = c3
  Ids = {tA, tB}
  Free = Free
  Requests = {r1, r2, r3, x1, x2, c1, c2, c3}
  Kind <- MCKinds
  Entries <- MCEntries
  MaxSends <- MCSends
  Workloads <- MCWorkloads
INVARIANTS
  TypeOK
  CountIsExact
  RollupIsExact
  StartsFirst
PROPERTIES
  NamesImprove
  RequestsEnd
CHECK_DEADLOCK FALSE
