SPECIFICATION Spec
CONSTANTS
  B = 4
  M12 = 8
  M7 = 2
  XOR <- MCXOR
  Rounds = 6
  States <- MCStates
INVARIANTS
  TypeOK
  RoundInProgress
PROPERTIES
  ScalarRefines
  VectorRefines
CHECK_DEADLOCK FALSE
