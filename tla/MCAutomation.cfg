CONSTANTS
  s1 = s1
  s2 = s2
  s3 = s3
  m1 = m1
  Proc = {s1, s2, s3, m1}
  NoProc = NoProc
  Kind <- MCKind
  Scheduled <- MCScheduled
  FirstDay = 6
  LastDay = 7
  Client = {c1, c2}
  ClientKind = {"search", "detail"}
  Limit <- MCLimit
  Retries = 2
  Threshold <- MCThreshold
  Quota = 2
  MaxWindow = 2
SPECIFICATION UnattendedSpec
SYMMETRY Interchangeable
INVARIANTS TypeOK NoAutomaticRetry RunsOnReviewedState BudgetIsKept
PROPERTIES PauseKeepsTheRest
CHECK_DEADLOCK FALSE
