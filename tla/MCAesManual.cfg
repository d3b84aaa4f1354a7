SPECIFICATION Spec
CONSTANTS
  sbox <- MCSbox
  Inputs <- MCInputs
  Keys <- MCKeys
  Junk = Junk
INVARIANTS
  TypeOK
  EncryptTraced
  DecryptRetraces
  RoundTrip
CHECK_DEADLOCK FALSE
