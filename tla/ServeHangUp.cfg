SPECIFICATION FairSpec
CONSTANTS
  Conns = {c1, c2}
  Slots = 1
PROPERTIES
  HandlerSeesHangUp
CHECK_DEADLOCK FALSE
