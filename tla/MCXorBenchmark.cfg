SPECIFICATION Spec
CONSTANTS
  Byte <- MCByte
  XOR <- MCXOR
  Eol <- MCEol
  Zero <- MCZero
  Missing = Missing
  Inputs <- MCInputs
  KeyFiles <- MCKeyFiles
  Passes = 2
  Junk <- MCJunk
  IntMax = 3
INVARIANTS
  TypeOK
  KeyStripped
  Verified
  FilesAgree
  PassesRepeat
CHECK_DEADLOCK FALSE
