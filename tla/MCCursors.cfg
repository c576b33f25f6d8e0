SPECIFICATION Spec
CONSTANTS
  Channels = {c1}
  PostIDs = {p1, p2, p3, p4, p5}
  NoCursor = NoCursor
SYMMETRY Symmetry
INVARIANTS
  TypeOK
  Chains
  NoReturn
CHECK_DEADLOCK FALSE
