SPECIFICATION Spec
CONSTANTS
  Processes = {p1, p2, p3}
  t1 = t1
  t2 = t2
  Texts <- TwoTexts
  Tokens <- TwoTokens
  NoItem = NoItem
SYMMETRY Symmetry
INVARIANTS
  TypeOK
  AnswersExplained
PROPERTIES
  NeverAGap
CHECK_DEADLOCK FALSE
