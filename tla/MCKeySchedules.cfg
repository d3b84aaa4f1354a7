SPECIFICATION Spec
CONSTANTS
  Byte <- MCByte
  XOR <- MCXOR
  Sbox <- MCSbox
  Rcon <- MCRcon
  InvSbox <- MCInvSbox
  Col <- MCCol
  InvCol <- MCInvCol
  Unset = Unset
  KeyBits = {128, 192, 256}
  Keys <- MCKeys
  Junk <- MCJunk
INVARIANTS
  TypeOK
  RijndaelScheduled
  AesniScheduled
  InverseSchedules
  SameSchedules
CHECK_DEADLOCK FALSE
