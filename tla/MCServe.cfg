SPECIFICATION FairSpec
CONSTANTS
  Conns = {c1, c2}
  Slots = 1
INVARIANTS
  TypeOK
  HandlersBounded
  AnswerTellsHandled
  NothingLeftBehind
PROPERTIES
  ServeReturns
  SlotsComeBack
CHECK_DEADLOCK FALSE
