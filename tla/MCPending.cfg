SPECIFICATION Spec
CONSTANTS
  c1 = c1
  c2 = c2
  Channels = {c1, c2}
  NoChannel = NoChannel
  Items <- StampedItems
  None = None
  Clock = {3}
  MaxBatch = 3
  MaxLegacy = 1
INVARIANTS
  TypeOK
  LatestUnansweredWins
  NotifyOnce
  NothingSkipped
PROPERTIES
  TurnedAwayForGood
  RevisionFresh
CHECK_DEADLOCK FALSE
