SPECIFICATION Spec
CONSTANTS
  Instants = {t1}
  ZeroTime = ZeroTime
  FarTime = FarTime
  MaxBytes = 2
  MaxTail = 3
INVARIANTS
  TypeOK
  VerdictIsRight
  SidesAgree
CHECK_DEADLOCK FALSE
