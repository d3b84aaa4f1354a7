\* Two keys and the zero words of a created context, words of modulus 3 and
\* blocks of 2 bytes: a session of MaxPos bytes goes more than once round the
\* 64-bit counter, which has 9 blocks.
SPECIFICATION Spec
CONSTANTS
  Keys = {zero, k1, k2}
  Tails = {t0}
  ZeroKey = zero
  ZeroTail = t0
  NoByte = NoByte
  NoBlock = NoBlock
  W = 3
  BlockLen = 2
  MaxCall = 3
  MaxPos = 21
INVARIANTS
  TypeOK
  StreamInv
  FullPeriod
PROPERTIES
  RefinesKeystream
  CallReturns
