SPECIFICATION Spec
CONSTANTS
  Missing = Missing
  NoFault = NoFault
  BlockLen = 2
  KeyLen = 2
  StreamLen = 2
  NonceLen = 3
  ShortNonce = 2
  InputLens <- MCInputLens
  KeyLens <- MCKeyLens
  NonceLens <- MCNonceLens
  Junk <- MCJunk
INVARIANTS
  TypeOK
  UninitialisedBytes
  SameCiphertext
  FailuresExplained
PROPERTIES
  RefinesDriverRun
CHECK_DEADLOCK FALSE
