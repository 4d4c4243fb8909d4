CONSTANTS
  Request = {}
  Command = {c1, c2}
  Kind = {"repository"}
  Cap = 1
  MaxAttempts = 1
  MaxObservations = 1
  MaxReleases = 1
  None = None
SPECIFICATION Spec
INVARIANT RepeatedCommandsAreHits
CHECK_DEADLOCK FALSE
