SPECIFICATION FairSpec
CONSTANTS
  Platforms = {"unix"}
  Procs = {engine, d1, d2}
  Engine = engine
  Escapees = {d2}
  Ignoring = {}
  Denied = {}
  Limit = 2
  Response = 2
  MaxWritten = 3
PROPERTIES
  CallBounded
CHECK_DEADLOCK FALSE
