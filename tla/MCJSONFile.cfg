SPECIFICATION FileSpec
CONSTANTS
  Writers = {w1, w2, w3}
  Readers = {r1, r2}
  Values = {v0, v1}
  Zero = v0
  Original = Original
  NoFile = NoFile
SYMMETRY Symmetry
INVARIANTS
  NeverTorn
  FailedLeavesNothing
PROPERTIES
  EachSaveItsOwn
CHECK_DEADLOCK FALSE
