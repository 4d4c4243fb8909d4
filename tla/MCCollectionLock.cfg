\* Two invocations that commit up to twice; two editors with two requests each.
CONSTANTS
  Proc = {p1, p2}
  NoProc = NoProc
  MaxCommits = 2
  Host <- MCHost
  ConnectSeconds = 3
  IoSeconds = 3
  Browser = {b1, b2}
  NoBrowser = NoBrowser
  MaxSends = 2
SPECIFICATION MCSpec
INVARIANTS TypeOK NoInterleavedWriters TruthfulOutcome EndsCleanly AnswersAreMeant
PROPERTIES LostIsFinal FenceSpec LockIsFreed EntrySpec WaitsEnd
CHECK_DEADLOCK FALSE
