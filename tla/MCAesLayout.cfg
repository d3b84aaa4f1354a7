SPECIFICATION LayoutSpec
CONSTANTS
  sbox <- MCSbox
  Inputs <- FIPSInputs
  Keys <- FIPSKeys
  Junk = Junk
INVARIANTS
  EncryptsAES128
CHECK_DEADLOCK FALSE
