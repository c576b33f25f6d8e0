SPECIFICATION SocketSpec
CONSTANTS
  Daemons = {d1, d2, d3}
  NoFile = NoFile
INVARIANTS
  AloneIsReachable
CHECK_DEADLOCK FALSE
