------------------------ MODULE ChaCha20Crypt_proofs ------------------------
(***************************************************************************)
(* Proofs about the one-shot ChaCha20, for every message length, every     *)
(* initial counter, every word modulus and every vector length.            *)
(***************************************************************************)
EXTENDS ChaCha20Crypt, TLAPS

-----------------------------------------------------------------------------
(* Quotient and remainder by a positive modulus.                           *)
LEMMA DivMod ==
  ASSUME NEW a \in Int, NEW m \in Nat \ {0}
  PROVE  /\ a \div m \in Int
         /\ a % m \in 0 .. m-1
         /\ a = (a \div m) * m + (a % m)
OBVIOUS

(* Quotient and remainder are determined by the equation they satisfy.     *)
LEMMA DivModUnique ==
  ASSUME NEW m \in Nat \ {0}, NEW q \in Int, NEW r \in 0 .. m-1
  PROVE  /\ (q * m + r) \div m = q
         /\ (q * m + r) % m = r
<1> DEFINE a == q * m + r
<1> DEFINE d == a \div m
<1>1. a \in Int
  OBVIOUS
<1>2. /\ d \in Int /\ a % m \in 0 .. m-1
      /\ a = d * m + (a % m)
  BY <1>1, DivMod
<1> HIDE DEF d
<1>3. ASSUME d >= q + 1 PROVE FALSE
  <2>1. m * d >= m * (q + 1)
    BY <1>2, <1>3
  <2> QED BY <2>1, <1>2
<1>4. ASSUME q >= d + 1 PROVE FALSE
  <2>1. m * q >= m * (d + 1)
    BY <1>2, <1>4
  <2> QED BY <2>1, <1>2
<1>5. d = q
  BY <1>2, <1>3, <1>4
<1> QED BY <1>5, <1>2 DEF d

LEMMA SmallMod ==
  ASSUME NEW m \in Nat \ {0}, NEW r \in 0 .. m-1
  PROVE  r % m = r /\ r \div m = 0
<1>1. 0 * m + r = r
  OBVIOUS
<1> QED BY <1>1, DivModUnique

-----------------------------------------------------------------------------
USE WAssumption, BlockLenAssumption, LaneAssumption, MsgAssumption

(* A message is its whole blocks and its tail.                             *)
LEMMA Cut ==
  ASSUME len \in Nat
  PROVE  /\ nblocks \in Nat /\ rem \in 0 .. BlockLen-1
         /\ len = nblocks * BlockLen + rem
<1>1. nblocks \in Int /\ rem \in 0 .. BlockLen-1 /\ len = nblocks * BlockLen + rem
  <2>1. len \in Int /\ BlockLen \in Nat \ {0}
    OBVIOUS
  <2> QED BY <2>1, DivMod DEF nblocks, rem
<1>2. ASSUME nblocks <= -1 PROVE FALSE
  <2>1. BlockLen * nblocks <= BlockLen * (-1)
    BY <1>1, <1>2
  <2> QED BY <2>1, <1>1
<1> QED BY <1>1, <1>2

(* The byte the code takes for block b and index o is the session's byte   *)
(* at position b*BlockLen+o.                                               *)
LEMMA ByteOfBlock ==
  ASSUME NEW b \in Nat, NEW o \in 0 .. BlockLen-1
  PROVE  ByteAt(session, b * BlockLen + o) = [block |-> BlockInput(session, b), off |-> o]
<1>1. (b * BlockLen + o) \div BlockLen = b /\ (b * BlockLen + o) % BlockLen = o
  BY DivModUnique
<1> QED BY <1>1 DEF ByteAt

(* A counter cut to a word names the input of its block, also when the     *)
(* initial counter does not fit a word.                                    *)
LEMMA BlockOfCounter ==
  ASSUME session \in CryptSessions, NEW b \in Nat
  PROVE  /\ chacha20_block(session.counter + b) = BlockInput(session, b)
         /\ BlockInput(session, b) \in Inputs
<1>1. /\ session.iv_length = 12 /\ session.counter + b \in Int
      /\ session.key \in Keys /\ session.tail \in Tails /\ session.nonce0 \in Word
  BY DEF CryptSessions, Sessions
<1> DEFINE c == (session.counter + b) % W
<1>2. c \in 0 .. W-1
  BY <1>1, DivMod
<1>3. c % W = c
  BY <1>2, SmallMod
<1>4. BlockInput(session, b) = [key |-> session.key, tail |-> session.tail,
                                w12 |-> c, w13 |-> session.nonce0]
  BY <1>1, <1>3 DEF BlockInput, CounterSpace
<1>5. chacha20_block(session.counter + b) = BlockInput(session, b)
  BY <1>4 DEF chacha20_block, CounterWord
<1>6. BlockInput(session, b) \in Inputs
  BY <1>1, <1>2, <1>4 DEF Inputs, Word
<1> QED BY <1>5, <1>6

(* Xoring count bytes at the frontier moves the frontier by count.         *)
LEMMA XorAtFrontier ==
  ASSUME TypeOK, CryptInv, NEW o \in Nat, NEW count \in Nat, NEW f,
         f = i * BlockLen + o, f = Frontier,
         pc \in {"vectors", "tail"},
         o + count <= BlockLen,
         f + count <= len
  PROVE  /\ Xored(f, o, count) \in [0 .. len-1 -> SUBSET KeystreamBytes]
         /\ \A p \in 0 .. len-1 :
              Xored(f, o, count)[p] = IF (p < f + count) = (phase = "encrypt")
                                      THEN {ByteAt(session, p)} ELSE {}
<1> DEFINE x == Xored(f, o, count)
<1>1. /\ i \in Nat /\ len \in Nat /\ f \in Nat /\ session \in CryptSessions
      /\ out \in [0 .. len-1 -> SUBSET KeystreamBytes]
      /\ DOMAIN out = 0 .. len-1
      /\ ks = BlockInput(session, i)
  <2>1. len \in Nat /\ i \in Nat
    BY Cut DEF TypeOK
  <2> QED BY <2>1 DEF TypeOK, CryptInv, BlockInUse
<1>2. ks \in Inputs
  BY <1>1, BlockOfCounter
<1>3. ASSUME NEW p \in 0 .. len-1, p \in f .. f + count - 1
      PROVE  /\ [block |-> ks, off |-> o + (p - f)] = ByteAt(session, p)
             /\ ByteAt(session, p) \in KeystreamBytes
  <2> DEFINE k == o + (p - f)
  <2>1. k \in 0 .. BlockLen-1 /\ p = i * BlockLen + k
    BY <1>1, <1>3
  <2> HIDE DEF k
  <2>2. ByteAt(session, i * BlockLen + k) = [block |-> ks, off |-> k]
    BY <1>1, <2>1, ByteOfBlock
  <2>3. ByteAt(session, p) = [block |-> ks, off |-> o + (p - f)]
    BY <2>1, <2>2 DEF k
  <2> QED BY <2>1, <2>3, <1>2 DEF KeystreamBytes, k
<1>4. \A p \in 0 .. len-1 :
        x[p] = IF p \in f .. f + count - 1
               THEN IF ByteAt(session, p) \in out[p] THEN out[p] \ {ByteAt(session, p)}
                                                     ELSE out[p] \cup {ByteAt(session, p)}
               ELSE out[p]
  BY <1>1, <1>3 DEF Xored
<1>5. x \in [0 .. len-1 -> SUBSET KeystreamBytes]
  <2>1. x = [q \in 0 .. len-1 |-> x[q]]
    BY <1>1 DEF Xored
  <2>2. \A p \in 0 .. len-1 : x[p] \in SUBSET KeystreamBytes
    BY <1>1, <1>3, <1>4
  <2> HIDE DEF x
  <2> QED BY <2>1, <2>2
<1>6. ASSUME NEW p \in 0 .. len-1
      PROVE  x[p] = IF (p < f + count) = (phase = "encrypt")
                    THEN {ByteAt(session, p)} ELSE {}
  <2>1. out[p] = IF (p < f) = (phase = "encrypt") THEN {ByteAt(session, p)} ELSE {}
    BY <1>1 DEF CryptInv, PrefixCrypted
  <2>2. CASE p \in f .. f + count - 1
    <3>1. ~(p < f) /\ p < f + count
      BY <2>2, <1>1
    <3>2. x[p] = IF ByteAt(session, p) \in out[p] THEN out[p] \ {ByteAt(session, p)}
                                                  ELSE out[p] \cup {ByteAt(session, p)}
      BY <1>4, <2>2
    <3> HIDE DEF x
    <3>3. CASE phase = "encrypt"
      <4>1. out[p] = {}
        BY <2>1, <3>1, <3>3
      <4>2. x[p] = {ByteAt(session, p)}
        BY <4>1, <3>2
      <4> QED BY <4>2, <3>1, <3>3
    <3>4. CASE phase # "encrypt"
      <4>1. out[p] = {ByteAt(session, p)}
        BY <2>1, <3>1, <3>4
      <4>2. x[p] = {}
        BY <4>1, <3>2
      <4> QED BY <4>2, <3>1, <3>4
    <3> QED BY <3>3, <3>4
  <2>3. CASE p \notin f .. f + count - 1
    <3>1. (p < f) = (p < f + count)
      BY <2>3, <1>1
    <3>2. x[p] = out[p]
      BY <1>4, <2>3
    <3> HIDE DEF x
    <3> QED BY <2>1, <3>1, <3>2
  <2> QED BY <2>2, <2>3
<1> QED BY <1>5, <1>6

-----------------------------------------------------------------------------
(* TypeOK and CryptInv together are inductive: that a vector is inside the *)
(* message rests on where it is, and where it is on the types.             *)
IInv == TypeOK /\ CryptInv

(* What the invariant says of the numbers.                                 *)
LEMMA Numbers ==
  ASSUME IInv
  PROVE  /\ len \in 0 .. MaxMsg /\ nblocks \in Nat /\ rem \in 0 .. BlockLen-1
         /\ len = nblocks * BlockLen + rem
         /\ i \in 0 .. nblocks /\ j \in 0 .. BlockLen
<1>1. len \in Nat
  BY DEF IInv, TypeOK
<1> QED BY <1>1, Cut DEF IInv, TypeOK

LEMMA InitIInv == Init => IInv
<1> SUFFICES ASSUME Init PROVE IInv
  OBVIOUS
<1>1. /\ len \in 0 .. MaxMsg /\ i = 0 /\ j = 0 /\ pc = "block" /\ phase = "encrypt"
      /\ out = [p \in 0 .. len-1 |-> {}] /\ DOMAIN out = 0 .. len-1
  BY DEF Init
<1>2. nblocks \in Nat
  BY <1>1, Cut
<1>3. TypeOK
  BY <1>1, <1>2 DEF Init, TypeOK, CryptSessions
<1>4. Frontier = 0
  BY <1>1 DEF Frontier
<1>5. \A p \in DOMAIN out : out[p] = {} /\ ~(p < Frontier)
  BY <1>1, <1>4
<1>6. CryptInv
  BY <1>1, <1>5 DEF CryptInv, PrefixCrypted, BlockInUse, TailPlace
<1> QED BY <1>3, <1>6 DEF IInv

(* The frontier does not move and nothing is xored.                        *)
LEMMA PrefixKept ==
  ASSUME PrefixCrypted, UNCHANGED <<session, out, phase>>, Frontier' = Frontier
  PROVE  PrefixCrypted'
BY DEF PrefixCrypted, ByteAt, BlockInput, CounterSpace

(* The frontier moves over bytes that are xored as they should be.         *)
LEMMA PrefixMoved ==
  ASSUME UNCHANGED <<session, phase>>, DOMAIN out' = 0 .. len-1,
         \A p \in 0 .. len-1 :
           out'[p] = IF (p < Frontier') = (phase = "encrypt")
                     THEN {ByteAt(session, p)} ELSE {}
  PROVE  PrefixCrypted'
BY DEF PrefixCrypted, ByteAt, BlockInput, CounterSpace

LEMMA NextBlockIInv ==
  ASSUME IInv, NextBlock
  PROVE  IInv'
<1> USE Numbers DEF NextBlock
<1>1. UNCHANGED <<nblocks, rem>>
  BY DEF nblocks, rem
<1>2. ks' = BlockInput(session, i) /\ ks' \in Inputs
  BY BlockOfCounter DEF IInv, TypeOK
<1>3. i * BlockLen + (0 + 1) * LaneLen <= len
  <2>1. (i + 1) * BlockLen <= nblocks * BlockLen
    OBVIOUS
  <2>2. (i + 1) * BlockLen = i * BlockLen + BlockLen
    OBVIOUS
  <2> QED BY <2>1, <2>2
<1>4. TypeOK'
  BY <1>1, <1>2, <1>3 DEF IInv, TypeOK
<1>5. Frontier' = Frontier
  BY DEF Frontier
<1>6. PrefixCrypted'
  BY <1>5, PrefixKept DEF IInv, CryptInv
<1>7. BlockInUse' /\ TailPlace'
  BY <1>1, <1>2 DEF BlockInUse, TailPlace
<1> QED BY <1>4, <1>6, <1>7 DEF IInv, CryptInv

LEMMA XorVectorIInv ==
  ASSUME IInv, XorVector
  PROVE  IInv'
<1> USE Numbers DEF XorVector
<1>1. UNCHANGED <<nblocks, rem>>
  BY DEF nblocks, rem
<1>2. pc = "vectors" /\ j \in 0 .. 3 /\ i < nblocks
  BY DEF IInv, TypeOK, CryptInv, TailPlace
<1> DEFINE o == j * LaneLen
<1>3. o \in Nat /\ o + LaneLen <= BlockLen /\ o + LaneLen = (j + 1) * LaneLen
  BY <1>2
<1> DEFINE f == i * BlockLen + o
<1>4. f + LaneLen <= len
  BY <1>2, <1>3 DEF IInv, TypeOK
<1>5. out' = Xored(f, o, LaneLen) /\ f = Frontier
  BY <1>2 DEF LaneOffset, Frontier
<1>6. f \in Nat /\ (j = 3 => f + LaneLen = (i + 1) * BlockLen)
  BY <1>2, <1>3
<1>7. /\ out' \in [0 .. len-1 -> SUBSET KeystreamBytes]
      /\ \A p \in 0 .. len-1 :
           out'[p] = IF (p < f + LaneLen) = (phase = "encrypt")
                     THEN {ByteAt(session, p)} ELSE {}
  <2> DEFINE x == Xored(f, o, LaneLen)
  <2>1. TypeOK /\ CryptInv /\ pc \in {"vectors", "tail"} /\ LaneLen \in Nat
    BY <1>2, LaneAssumption DEF IInv
  <2>2. /\ x \in [0 .. len-1 -> SUBSET KeystreamBytes]
        /\ \A p \in 0 .. len-1 :
             x[p] = IF (p < f + LaneLen) = (phase = "encrypt")
                    THEN {ByteAt(session, p)} ELSE {}
    <3> HIDE DEF o, XorVector
    <3> QED BY <2>1, <1>3, <1>4, <1>5, XorAtFrontier
  <2>3. out' = x
    BY <1>5
  <2> HIDE DEF x, o, XorVector
  <2> QED BY <2>2, <2>3
<1>8. Frontier' = f + LaneLen
  <2>1. CASE j < 3
    BY <2>1, <1>2, <1>3 DEF Frontier
  <2>2. CASE ~(j < 3)
    <3>1. pc' = "block" /\ i' = i + 1 /\ j = 3
      BY <2>2, <1>2
    <3>2. Frontier' = (i + 1) * BlockLen
      BY <3>1 DEF Frontier
    <3> QED BY <3>1, <3>2, <1>6
  <2> QED BY <2>1, <2>2
<1>9. PrefixCrypted'
  <2>1. DOMAIN out' = 0 .. len-1 /\ UNCHANGED <<session, phase>>
    BY <1>7
  <2> QED BY <2>1, <1>7, <1>8, PrefixMoved
<1>10. TypeOK' /\ BlockInUse' /\ TailPlace'
  <2>1. CASE j < 3
    <3>1. i * BlockLen + (j' + 1) * LaneLen <= len
      <4>1. (j + 1 + 1) * LaneLen <= BlockLen
        BY <2>1, <1>2
      <4>2. (i + 1) * BlockLen <= nblocks * BlockLen /\ (i + 1) * BlockLen = i * BlockLen + BlockLen
        BY <1>2
      <4> QED BY <4>1, <4>2, <2>1
    <3> QED BY <2>1, <3>1, <1>1, <1>2, <1>7
            DEF IInv, TypeOK, CryptInv, BlockInUse, TailPlace, BlockInput, CounterSpace
  <2>2. CASE ~(j < 3)
    BY <2>2, <1>1, <1>2, <1>7 DEF IInv, TypeOK, BlockInUse, TailPlace
  <2> QED BY <2>1, <2>2
<1> QED BY <1>9, <1>10 DEF IInv, CryptInv

LEMMA TailIInv ==
  ASSUME IInv, Tail
  PROVE  IInv'
<1> USE Numbers DEF Tail
<1>1. UNCHANGED <<nblocks, rem>>
  BY DEF nblocks, rem
<1>2. CASE rem > 0
  <2>1. ks' = BlockInput(session, i) /\ ks' \in Inputs
    BY <1>2, BlockOfCounter DEF IInv, TypeOK, TailCounter
  <2>2. TypeOK'
    BY <1>1, <1>2, <2>1 DEF IInv, TypeOK
  <2>3. Frontier' = Frontier
    BY <1>2 DEF Frontier
  <2>4. PrefixCrypted'
    BY <2>3, PrefixKept DEF IInv, CryptInv
  <2>5. BlockInUse' /\ TailPlace'
    BY <1>1, <1>2, <2>1 DEF BlockInUse, TailPlace, BlockInput, CounterSpace
  <2> QED BY <2>2, <2>4, <2>5 DEF IInv, CryptInv
<1>3. CASE ~(rem > 0)
  <2>1. TypeOK'
    BY <1>1, <1>3 DEF IInv, TypeOK
  <2>2. Frontier' = Frontier
    BY <1>3 DEF Frontier
  <2>3. PrefixCrypted'
    BY <2>2, PrefixKept DEF IInv, CryptInv
  <2>4. BlockInUse' /\ TailPlace'
    BY <1>1, <1>3 DEF BlockInUse, TailPlace
  <2> QED BY <2>1, <2>3, <2>4 DEF IInv, CryptInv
<1> QED BY <1>2, <1>3

LEMMA TailByteIInv ==
  ASSUME IInv, TailByte
  PROVE  IInv'
<1> USE Numbers DEF TailByte
<1>1. UNCHANGED <<nblocks, rem>>
  BY DEF nblocks, rem
<1>2. i = nblocks /\ j \in 0 .. rem-1
  BY DEF IInv, CryptInv, TailPlace
<1> DEFINE f == i * BlockLen + j
<1>3. f = Frontier /\ Frontier' = f + 1
  BY <1>2 DEF Frontier
<1>4. /\ out' \in [0 .. len-1 -> SUBSET KeystreamBytes]
      /\ \A p \in 0 .. len-1 :
           out'[p] = IF (p < f + 1) = (phase = "encrypt")
                     THEN {ByteAt(session, p)} ELSE {}
  <2>1. j \in Nat /\ 1 \in Nat /\ j + 1 <= BlockLen /\ f + 1 <= len
    BY <1>2
  <2> QED BY <2>1, <1>3, XorAtFrontier DEF IInv
<1>6. PrefixCrypted'
  <2>1. DOMAIN out' = 0 .. len-1 /\ UNCHANGED <<session, phase>>
    BY <1>4
  <2> QED BY <2>1, <1>4, <1>3, PrefixMoved
<1>7. TypeOK' /\ BlockInUse' /\ TailPlace'
  BY <1>1, <1>2, <1>4
     DEF IInv, TypeOK, CryptInv, BlockInUse, TailPlace, BlockInput, CounterSpace
<1> QED BY <1>6, <1>7 DEF IInv, CryptInv

LEMMA TailEndIInv ==
  ASSUME IInv, TailEnd
  PROVE  IInv'
<1> USE Numbers DEF TailEnd
<1>1. UNCHANGED <<nblocks, rem>>
  BY DEF nblocks, rem
<1>2. i = nblocks
  BY DEF IInv, CryptInv, TailPlace
<1>3. Frontier' = Frontier
  BY <1>2 DEF Frontier
<1>4. PrefixCrypted'
  BY <1>3, PrefixKept DEF IInv, CryptInv
<1>5. TypeOK' /\ BlockInUse' /\ TailPlace'
  BY <1>1, <1>2 DEF IInv, TypeOK, BlockInUse, TailPlace
<1> QED BY <1>4, <1>5 DEF IInv, CryptInv

LEMMA DecryptIInv ==
  ASSUME IInv, Decrypt
  PROVE  IInv'
<1> USE Numbers DEF Decrypt
<1>1. UNCHANGED <<nblocks, rem>>
  BY DEF nblocks, rem
<1>2. Frontier = len /\ Frontier' = 0 /\ DOMAIN out = 0 .. len-1
  BY DEF Frontier, IInv, TypeOK
<1>3. \A p \in 0 .. len-1 : out[p] = {ByteAt(session, p)}
  BY <1>2 DEF IInv, CryptInv, PrefixCrypted
<1>4. PrefixCrypted'
  <2>1. \A p \in DOMAIN out' : out'[p] = {ByteAt(session, p)} /\ ~(p < Frontier')
    BY <1>2, <1>3
  <2> QED BY <2>1 DEF PrefixCrypted, ByteAt, BlockInput, CounterSpace
<1>5. TypeOK' /\ BlockInUse' /\ TailPlace'
  BY <1>1 DEF IInv, TypeOK, BlockInUse, TailPlace
<1> QED BY <1>4, <1>5 DEF IInv, CryptInv

LEMMA NextIInv == IInv /\ [Next]_vars => IInv'
<1> SUFFICES ASSUME IInv, [Next]_vars PROVE IInv'
  OBVIOUS
<1>1. CASE UNCHANGED vars
  BY <1>1 DEF vars, IInv, TypeOK, CryptInv, PrefixCrypted, BlockInUse, TailPlace,
              Frontier, nblocks, rem, ByteAt, BlockInput, CounterSpace
<1> QED BY <1>1, NextBlockIInv, XorVectorIInv, TailIInv, TailByteIInv, TailEndIInv,
           DecryptIInv DEF Next, Finished

LEMMA Inductive == Spec => []IInv
BY InitIInv, NextIInv, PTL DEF Spec

(* Types; no vector is loaded or stored outside the message.               *)
THEOREM CryptTypeCorrect == Spec => []TypeOK
<1>1. IInv => TypeOK
  BY DEF IInv
<1> QED BY <1>1, Inductive, PTL

(* The bytes xored so far are a prefix, each with the byte of its place.   *)
THEOREM CryptCorrect == Spec => []CryptInv
<1>1. IInv => CryptInv
  BY DEF IInv
<1> QED BY <1>1, Inductive, PTL

(* The ciphertext is the message xored with the session's keystream, and   *)
(* the second call gives the message back.                                 *)
THEOREM RoundTripCorrect == Spec => []RoundTrip
<1>1. ASSUME IInv PROVE RoundTrip
  <2> SUFFICES ASSUME pc = "done", NEW p \in DOMAIN out
               PROVE  out[p] = IF phase = "encrypt" THEN {ByteAt(session, p)} ELSE {}
    BY DEF RoundTrip
  <2>1. Frontier = len /\ p < len
    BY <1>1 DEF Frontier, IInv, TypeOK
  <2> QED BY <2>1, <1>1 DEF IInv, CryptInv, PrefixCrypted
<1> QED BY <1>1, Inductive, PTL
=============================================================================
