CONSTANTS
  r1 = r1
  r2 = r2
  r3 = r3
  MaxRequests = 5
  Requests <- MCRequests
  Tracked <- MCTracked
  Dev <- MCDev
  RowsBefore <- MCRowsBefore
  PerPage = 1
  LastInstant = 2
  Cohort <- MCCohort
  SearchPerPage = 2
  Known <- MCKnown
  MaxCandidates = 4
  MaxNew = 1
  Observed <- MCObserved
  LastPoll = 3
  MinAge = 1
  MaxTargets = 2
SPECIFICATION MCSpec
INVARIANTS KindsAreTyped ReservedBeforeSent EndingMatchesReceipt RowsAreCounted CompletedIsDone LimitsHold
PROPERTIES EveryRecordIsKept RunEnds
CHECK_DEADLOCK FALSE
