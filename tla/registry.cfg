SPECIFICATION Spec
CONSTANTS
  pA = pA
  qA = qA
  create = create
  import = import
  keep = keep
  rename = rename
  delete = delete
  commit1 = commit1
  commit2 = commit2
  cand1 = cand1
  cand2 = cand2
  promote = promote
  custom = custom
  uncustom = uncustom
  Prompts = {pA}
  FirstName <- MCFirstName
  Candidates = {qA}
  Owner <- MCOwner
  Requests = {create, import, keep, rename, delete, commit1, commit2, cand1, cand2, promote, custom, uncustom}
  Op <- MCOp
  Workloads <- MCWorkloads
  Free = Free
INVARIANTS
  TypeOK
  NamesClaimed
  Numbered
  CandidateOnce
CHECK_DEADLOCK FALSE
