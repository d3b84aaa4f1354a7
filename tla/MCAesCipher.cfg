SPECIFICATION Spec
CONSTANTS
  Byte <- MCByte
  XOR <- MCXOR
  Sbox <- MCSbox
  InvSbox <- MCInvSbox
  Col <- MCCol
  InvCol <- MCInvCol
  Schedules <- MCSchedules
  Plaintexts <- MCPlaintexts
  NoBlock = NoBlock
INVARIANTS
  TypeOK
  DecryptRetraces
  RoundTrip
PROPERTIES
  EncryptRefines
CHECK_DEADLOCK FALSE
