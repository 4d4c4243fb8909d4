CONSTANTS
  Request = {r1, r2}
  Command = {c1}
  Kind = {"repository", "topic"}
  Cap = 1
  MaxAttempts = 2
  MaxObservations = 2
  MaxReleases = 2
  None = None
  Name = {"a", "b", "c"}
  Domain <- MCDomain
  Size <- MCSize
  MaxContributors = 2
  MaxTopicRepos = 2
  MaxHubs = 2
  MaxBridges = 2
  MaxRelated = 2
  MaxMeasures = 2
  BridgeLimit = 3
  Caps = {4, 30}
SPECIFICATION MCSpec
SYMMETRY Interchangeable
INVARIANTS ArtifactsAreCurrent RepeatsAreHits
PROPERTIES EvidenceDecides
CHECK_DEADLOCK FALSE
