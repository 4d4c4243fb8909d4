SPECIFICATION MCSpec
CONSTANTS
  None = None
  Repo = {1, 2}
  TopicsOf <- MCTopicsOf
  Day = {0, 6, 12, 13}
  Reading <- MCReading
  MaxObservations = 3
  TopicFloor = 2
  Developer = {1, 2}
  Source = {1, 2}
  SourceOwner <- MCSourceOwner
  SourceTopics <- MCSourceTopics
  SourceDigests <- MCSourceDigests
  SourceDay = {0, 24, 31}
  Counts = {1, 200}
  Followers = {10, 20}
  MaxLinkObservations = 4
  MaxLinks = 2
INVARIANTS  GrowthIsEarned ReportsAreEarned
CHECK_DEADLOCK FALSE
