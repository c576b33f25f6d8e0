SPECIFICATION FairSpec
CONSTANTS
  Writers = {p1, p2, p3}
  Readers = {r1}
  Values <- AnyState
  Zero <- Empty
  Original = Original
  NoFile = NoFile
  Free = Free
INVARIANTS
  TypeOK
PROPERTIES
  LockReturns
  ReadsGoForward
  OneAtomicUpdate
CHECK_DEADLOCK FALSE
