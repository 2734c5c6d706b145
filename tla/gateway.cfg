SPECIFICATION FairSpec
CONSTANTS
  c1 = c1
  c2 = c2
  team = team
  key = key
  Calls = {c1, c2}
  Streams = {c2}
  Budgets = {team, key}
  Applies <- MCApplies
  Limit <- MCLimit
  Spent <- MCSpent
  Estimate = 2
  Costs = {1, 3}
  Periods = 2
  Free = Free
  Deployments = 3
  MaxRetries = 1
INVARIANTS
  TypeOK
  SpendIsAccounted
  AlertSent
  HonestAnswer
PROPERTIES
  CallsEnd
CHECK_DEADLOCK FALSE
