CONSTANTS
  r1 = r1
  n1 = n1
  n2 = n2
  d1 = d1
  Repo = {r1, r2}
  Name = {n1, n2, n3}
  Developer = {d1, d2}
  None = None
  HeldBy <- MCHeldBy
  MaxChanges = 3
  Item = {i1, i2, i3}
  Moved = Moved
  Limit <- MCLimit
  PerPage = 2
  MaxCandidates = 4
  Refreshed = {1, 2, 3, 4}
  Known <- MCKnown
  Fragile = {1, 3}
  MinAge = 2
  MaxTargets = 3
  Observed = {1}
  Contributor = {1}
  Topic = {}
  Counter = {1, 2}
  LastInstant = 2
  MaxRows = 3
  RefreshDays = 1
  MaxObservations = 4
SPECIFICATION MCSpec
INVARIANTS RowsAreTheirs SearchIsRead LogIsSound
PROPERTIES LinksCatchUp NothingStalls TakenInTurn HistoryIsKept
CHECK_DEADLOCK FALSE
