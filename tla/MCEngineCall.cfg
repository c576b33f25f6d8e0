SPECIFICATION FairSpec
CONSTANTS
  Platforms = {"unix", "elsewhere"}
  Procs = {engine, d1, d2}
  Engine = engine
  Escapees = {engine, d2}
  Ignoring = {engine, d1}
  Denied = {d2}
  Limit = 2
  Response = 2
  MaxWritten = 3
INVARIANTS
  TypeOK
  ResponseIsWhole
  BlameIsRight
  BuffersQuiet
  KillReachesGroup
PROPERTIES
  CallReturns
CHECK_DEADLOCK FALSE
