\* Blocks of 4 vectors of 2 bytes and a word modulus of 2: messages of up to
\* three whole blocks and a tail, initial counters below and above the modulus,
\* and wrap-around inside a message.
SPECIFICATION Spec
CONSTANTS
  Keys = {k0}
  Tails = {t0}
  NoByte = NoByte
  NoBlock = NoBlock
  W = 2
  BlockLen = 8
  LaneLen = 2
  MaxMsg = 31
INVARIANTS
  TypeOK
  CryptInv
  RoundTrip
