SPECIFICATION FairSpec
CONSTANTS
  Clients = {k1, k2}
  Channel = ch
  MaxPosts = 4
  Kind <- History
  Dated <- DatedHistory
  MaxLost = 2
INVARIANTS
  TypeOK
  ProvenIsPlatformOrder
  AckedWasNotified
  ActivityCoversAcked
PROPERTIES
  CatchesUpOrBlocked
CHECK_DEADLOCK FALSE
