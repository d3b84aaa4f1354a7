----------------------- MODULE ChaCha20Stream_proofs -----------------------
(***************************************************************************)
(* Proofs about the streaming ChaCha20, for every word modulus W, every    *)
(* block length and every set of keys and nonces.                          *)
(***************************************************************************)
EXTENDS ChaCha20Stream, TLAPS

-----------------------------------------------------------------------------
(* Quotient and remainder by a positive modulus.                           *)
LEMMA DivMod ==
  ASSUME NEW a \in Int, NEW m \in Nat \ {0}
  PROVE  /\ a \div m \in Int
         /\ a % m \in 0 .. m-1
         /\ a = (a \div m) * m + (a % m)
OBVIOUS

(* Quotient and remainder are determined by the equation they satisfy.     *)
LEMMA DivModUnique ==
  ASSUME NEW m \in Nat \ {0}, NEW q \in Int, NEW r \in 0 .. m-1
  PROVE  /\ (q * m + r) \div m = q
         /\ (q * m + r) % m = r
<1> DEFINE a == q * m + r
<1> DEFINE d == a \div m
<1>1. a \in Int
  OBVIOUS
<1>2. /\ d \in Int /\ a % m \in 0 .. m-1
      /\ a = d * m + (a % m)
  BY <1>1, DivMod
<1> HIDE DEF d
<1>3. ASSUME d >= q + 1 PROVE FALSE
  <2>1. m * d >= m * (q + 1)
    BY <1>2, <1>3
  <2> QED BY <2>1, <1>2
<1>4. ASSUME q >= d + 1 PROVE FALSE
  <2>1. m * q >= m * (d + 1)
    BY <1>2, <1>4
  <2> QED BY <2>1, <1>2
<1>5. d = q
  BY <1>2, <1>3, <1>4
<1> QED BY <1>5, <1>2 DEF d

LEMMA SmallMod ==
  ASSUME NEW m \in Nat \ {0}, NEW r \in 0 .. m-1
  PROVE  r % m = r /\ r \div m = 0
<1>1. 0 * m + r = r
  OBVIOUS
<1> QED BY <1>1, DivModUnique

(* A counter modulo m: adding one to the reduced value and reducing again  *)
(* is the same as reducing once, and it wraps exactly at m-1.              *)
LEMMA ModStep ==
  ASSUME NEW m \in Nat \ {0}, NEW a \in Int
  PROVE  /\ (a + 1) % m = ((a % m) + 1) % m
         /\ a % m # m-1 => (a + 1) % m = (a % m) + 1
         /\ a % m = m-1 => (a + 1) % m = 0
<1> DEFINE q == a \div m
           r == a % m
<1>1. q \in Int /\ r \in 0 .. m-1 /\ a = q * m + r
  BY DivMod
<1> HIDE DEF q, r
<1>2. CASE r # m-1
  <2>1. r + 1 \in 0 .. m-1 /\ a + 1 = q * m + (r + 1)
    BY <1>1, <1>2
  <2>2. (a + 1) % m = r + 1
    BY <2>1, <1>1, DivModUnique
  <2>3. (r + 1) % m = r + 1
    BY <2>1, SmallMod
  <2> QED BY <2>2, <2>3, <1>2 DEF r
<1>3. CASE r = m-1
  <2>1. 0 \in 0 .. m-1 /\ q + 1 \in Int /\ a + 1 = (q + 1) * m + 0
    BY <1>1, <1>3
  <2>2. (a + 1) % m = 0
    BY <2>1, DivModUnique
  <2>3. r + 1 = 1 * m + 0 /\ 0 \in 0 .. m-1
    BY <1>3, <1>1
  <2>4. (r + 1) % m = 0
    BY <2>3, DivModUnique
  <2> QED BY <2>2, <2>4, <1>3 DEF r
<1> QED BY <1>2, <1>3

(* Two numbers with the same remainder that differ are m or more apart.    *)
LEMMA ModGap ==
  ASSUME NEW m \in Nat \ {0}, NEW a \in Int, NEW b \in Int, a < b, a % m = b % m
  PROVE  b - a >= m
<1> DEFINE p == a \div m
           q == b \div m
           r == a % m
<1>1. /\ p \in Int /\ q \in Int /\ r \in 0 .. m-1
      /\ a = p * m + r /\ b = q * m + r
  BY DivMod
<1> HIDE DEF p, q, r
<1>2. ASSUME q <= p PROVE FALSE
  <2>1. q * m <= p * m
    BY <1>1, <1>2
  <2> QED BY <2>1, <1>1
<1>3. (p + 1) * m <= q * m
  BY <1>1, <1>2
<1>4. (p + 1) * m = p * m + m
  BY <1>1
<1> QED BY <1>1, <1>3, <1>4

-----------------------------------------------------------------------------
USE WAssumption, BlockLenAssumption, ZeroAssumption, BoundAssumption

-----------------------------------------------------------------------------
(* Counters.                                                               *)

LEMMA SpaceIsPositive ==
  ASSUME NEW s \in Sessions
  PROVE  CounterSpace(s) \in Nat \ {0} /\ W*W \in Nat \ {0}
BY DEF Sessions, CounterSpace

(* A 64-bit counter is two words.                                          *)
LEMMA TwoWords ==
  ASSUME NEW c \in 0 .. W*W-1
  PROVE  /\ c % W \in Word /\ c \div W \in Word
         /\ c = (c \div W) * W + (c % W)
<1> DEFINE q == c \div W
<1>1. q \in Int /\ c % W \in 0 .. W-1 /\ c = q*W + (c % W)
  BY DivMod
<1> HIDE DEF q
<1>2. ASSUME q >= W PROVE FALSE
  <2>1. W * q >= W * W
    BY <1>1, <1>2
  <2> QED BY <2>1, <1>1
<1>3. ASSUME q <= -1 PROVE FALSE
  <2>1. W * q <= W * (-1)
    BY <1>1, <1>3
  <2> QED BY <2>1, <1>1
<1>4. q \in Word
  BY <1>1, <1>2, <1>3 DEF Word
<1> QED BY <1>1, <1>4 DEF q, Word

(* The counter value of block b of session s.                              *)
CounterAt(s, b) == (s.counter + b) % CounterSpace(s)

LEMMA CounterAtType ==
  ASSUME NEW s \in Sessions, NEW b \in Nat
  PROVE  CounterAt(s, b) \in 0 .. CounterSpace(s)-1
<1>1. s.counter + b \in Int
  BY DEF Sessions
<1> QED BY <1>1, SpaceIsPositive, DivMod DEF CounterAt

LEMMA BlockInputWords ==
  ASSUME NEW s \in Sessions, NEW b \in Nat
  PROVE  LET c == CounterAt(s, b) IN
         /\ BlockInput(s, b) \in Inputs
         /\ BlockInput(s, b).w12 = c % W
         /\ s.iv_length = 8 => BlockInput(s, b).w13 = c \div W
         /\ s.iv_length = 12 => c % W = c
<1> DEFINE c == CounterAt(s, b)
<1>1. c \in 0 .. CounterSpace(s)-1 /\ s.iv_length \in {8, 12}
  BY CounterAtType DEF Sessions
<1>2. BlockInput(s, b) = [key |-> s.key, tail |-> s.tail, w12 |-> c % W,
                          w13 |-> IF s.iv_length = 8 THEN c \div W ELSE s.nonce0]
  BY DEF BlockInput, CounterAt
<1> HIDE DEF c
<1>3. CASE s.iv_length = 8
  <2>1. c % W \in Word /\ c \div W \in Word
    BY <1>1, <1>3, TwoWords DEF CounterSpace
  <2> QED BY <1>2, <1>3, <2>1 DEF Inputs, Sessions, c
<1>4. CASE s.iv_length = 12
  <2>1. c % W = c /\ c \in Word
    BY <1>1, <1>4, SmallMod DEF CounterSpace, Word
  <2> QED BY <1>2, <1>4, <2>1 DEF Inputs, Sessions, c
<1> QED BY <1>1, <1>3, <1>4

(* Init loads the input of block 0.                                        *)
LEMMA KeySetupIsBlockZero ==
  ASSUME NEW s \in Sessions
  PROVE  KeySetup(s) = BlockInput(s, 0)
<1>1. s.counter \in 0 .. W*W-1 /\ s.counter + 0 = s.counter /\ s.iv_length \in {8, 12}
  BY DEF Sessions
<1>2. CASE s.iv_length = 8
  <2>1. CounterAt(s, 0) = s.counter
    BY <1>1, <1>2, SpaceIsPositive, SmallMod DEF CounterAt, CounterSpace
  <2> QED BY <2>1, <1>2 DEF KeySetup, BlockInput, CounterAt
<1>3. CASE s.iv_length = 12
  <2>1. CounterAt(s, 0) = s.counter % W
    BY <1>1, <1>3 DEF CounterAt, CounterSpace
  <2>2. CounterAt(s, 0) % W = CounterAt(s, 0)
    BY <1>3, BlockInputWords
  <2> QED BY <2>1, <2>2, <1>3 DEF KeySetup, BlockInput, CounterAt
<1> QED BY <1>1, <1>2, <1>3

(* The increment, word by word.                                            *)
LEMMA IncrementWords ==
  ASSUME NEW in \in Inputs, NEW v
  PROVE  Increment(in, v) =
           [key |-> in.key, tail |-> in.tail, w12 |-> (in.w12 + 1) % W,
            w13 |-> IF (in.w12 + 1) % W = 0 /\ v = 8 THEN (in.w13 + 1) % W
                                                     ELSE in.w13]
<1> DEFINE w == (in.w12 + 1) % W
           x == (in.w13 + 1) % W
<1>1. Increment(in, v) = [in EXCEPT !.w12 = w, !.w13 = IF w = 0 /\ v = 8 THEN x ELSE @]
  BY DEF Increment
<1> HIDE DEF w, x
<1>2. Increment(in, v) = [key |-> in.key, tail |-> in.tail, w12 |-> w,
                          w13 |-> IF w = 0 /\ v = 8 THEN x ELSE in.w13]
  BY <1>1 DEF Inputs
<1> QED BY <1>2 DEF w, x

(* The increment of the block function takes the input of one block to the *)
(* input of the next, carry and wrap-around included.                      *)
LEMMA IncrementIsNextBlock ==
  ASSUME NEW s \in Sessions, NEW b \in Nat
  PROVE  Increment(BlockInput(s, b), s.iv_length) = BlockInput(s, b+1)
<1> DEFINE S == CounterSpace(s)
           c == CounterAt(s, b)
           d == CounterAt(s, b+1)
           I(x) == [key |-> s.key, tail |-> s.tail, w12 |-> x % W,
                    w13 |-> IF s.iv_length = 8 THEN x \div W ELSE s.nonce0]
<1>1. BlockInput(s, b) = I(c) /\ BlockInput(s, b+1) = I(d)
  BY DEF BlockInput, CounterAt
<1>2. /\ c \in 0 .. S-1 /\ S \in Nat \ {0} /\ W*W \in Nat \ {0}
      /\ s.counter + b \in Int /\ s.counter + (b+1) = (s.counter + b) + 1
      /\ s.iv_length \in {8, 12}
  BY CounterAtType, SpaceIsPositive DEF Sessions
<1>3. (c # S-1 => d = c + 1) /\ (c = S-1 => d = 0)
  BY <1>2, ModStep DEF CounterAt
<1> HIDE DEF c, d, S
<1>6. Increment(I(c), s.iv_length) =
        [key |-> s.key, tail |-> s.tail, w12 |-> ((c % W) + 1) % W,
         w13 |-> IF ((c % W) + 1) % W = 0 /\ s.iv_length = 8
                 THEN (I(c).w13 + 1) % W ELSE I(c).w13]
  <2>1. I(c) \in Inputs
    BY <1>1, BlockInputWords
  <2> QED BY <2>1, IncrementWords
<1>4. CASE s.iv_length = 12
  <2>1. S = W
    BY <1>4 DEF S, CounterSpace
  <2>2. c % W = c
    BY <2>1, <1>2, SmallMod
  <2>3. d % W = (c + 1) % W
    <3>1. CASE c # S-1
      BY <3>1, <1>3
    <3>2. CASE c = S-1
      <4>1. c + 1 = 1 * W + 0 /\ 0 \in 0 .. W-1 /\ d = 0
        BY <3>2, <2>1, <1>3
      <4>2. (c + 1) % W = 0 /\ 0 % W = 0
        BY <4>1, DivModUnique, SmallMod
      <4> QED BY <4>1, <4>2
    <3> QED BY <3>1, <3>2
  <2> QED BY <1>1, <1>4, <1>6, <2>2, <2>3
<1>5. CASE s.iv_length = 8
  <2> DEFINE lo == c % W
             hi == c \div W
  <2>1. S = W*W
    BY <1>5 DEF S, CounterSpace
  <2>2. lo \in 0 .. W-1 /\ hi \in 0 .. W-1 /\ c = hi*W + lo
    BY <2>1, <1>2, TwoWords DEF Word
  <2> SUFFICES /\ d % W = (lo + 1) % W
               /\ d \div W = IF (lo + 1) % W = 0 THEN (hi + 1) % W ELSE hi
    BY <1>1, <1>5, <1>6 DEF lo, hi
  <2> HIDE DEF lo, hi
  <2>3. CASE lo # W-1
    <3>1. lo + 1 \in 0 .. W-1 /\ c + 1 = hi*W + (lo + 1)
      BY <2>2, <2>3
    <3>2. c # S-1
      <4>1. hi*W <= (W-1)*W /\ (W-1)*W = W*W - W
        BY <2>2
      <4> QED BY <4>1, <2>1, <2>2, <2>3
    <3>3. d % W = lo + 1 /\ d \div W = hi /\ (lo + 1) % W = lo + 1
      <4>1. d = hi*W + (lo + 1) /\ hi \in Int
        BY <3>1, <3>2, <1>3, <2>2
      <4>2. (hi*W + (lo + 1)) % W = lo + 1 /\ (hi*W + (lo + 1)) \div W = hi
        BY <4>1, <3>1, DivModUnique
      <4>3. (lo + 1) % W = lo + 1
        BY <3>1, SmallMod
      <4> QED BY <4>1, <4>2, <4>3
    <3> QED BY <3>1, <3>3, <2>2
  <2>4. CASE lo = W-1
    <3>1. lo + 1 = 1 * W + 0 /\ 0 \in 0 .. W-1
      BY <2>4
    <3>2. (lo + 1) % W = 0
      BY <3>1, DivModUnique
    <3>3. c + 1 = (hi + 1)*W + 0 /\ hi + 1 \in Int
      BY <2>2, <2>4
    <3>4. CASE hi # W-1
      <4>1. c # S-1
        <5>1. (hi + 1)*W <= (W-1)*W /\ (W-1)*W = W*W - W
          BY <2>2, <3>4
        <5> QED BY <5>1, <3>3, <2>1, <1>2
      <4>2. d % W = 0 /\ d \div W = hi + 1
        <5>1. d = (hi + 1)*W + 0
          BY <4>1, <1>3, <3>3
        <5>2. ((hi + 1)*W + 0) % W = 0 /\ ((hi + 1)*W + 0) \div W = hi + 1
          BY <3>1, <3>3, DivModUnique
        <5> QED BY <5>1, <5>2
      <4>3. (hi + 1) % W = hi + 1
        BY <2>2, <3>4, SmallMod
      <4> QED BY <4>2, <4>3, <3>2
    <3>5. CASE hi = W-1
      <4>1. c = S-1 /\ d = 0
        BY <3>3, <3>5, <2>1, <1>2, <1>3
      <4>2. d % W = 0 /\ d \div W = 0
        BY <4>1, SmallMod
      <4>3. hi + 1 = 1 * W + 0
        BY <3>5
      <4>4. (hi + 1) % W = 0
        BY <4>3, <3>1, DivModUnique
      <4> QED BY <4>2, <4>4, <3>2
    <3> QED BY <3>4, <3>5
  <2> QED BY <2>3, <2>4
<1> QED BY <1>2, <1>4, <1>5

(* Two blocks of a session with the same input are a whole counter period  *)
(* apart.                                                                  *)
LEMMA SameInputSamePeriod ==
  ASSUME NEW s \in Sessions, NEW a \in Nat, NEW b \in Nat, a < b,
         BlockInput(s, a) = BlockInput(s, b)
  PROVE  b - a >= CounterSpace(s)
<1> DEFINE c == CounterAt(s, a)
           d == CounterAt(s, b)
<1>1. c = d
  <2>1. c % W = d % W
    BY BlockInputWords
  <2>2. CASE s.iv_length = 8
    <3>1. c \div W = d \div W
      BY <2>2, BlockInputWords
    <3>2. c \in 0 .. W*W-1 /\ d \in 0 .. W*W-1
      BY <2>2, CounterAtType DEF CounterSpace
    <3>3. c = (c \div W)*W + (c % W) /\ d = (d \div W)*W + (d % W)
      BY <3>2, TwoWords
    <3> QED BY <3>1, <3>3, <2>1
  <2>3. CASE s.iv_length = 12
    BY <2>1, <2>3, BlockInputWords
  <2> QED BY <2>2, <2>3 DEF Sessions
<1>2. /\ s.counter + a \in Int /\ s.counter + b \in Int
      /\ s.counter + a < s.counter + b
      /\ (s.counter + b) - (s.counter + a) = b - a
  BY DEF Sessions
<1>3. (s.counter + a) % CounterSpace(s) = (s.counter + b) % CounterSpace(s)
  BY <1>1 DEF CounterAt
<1>4. (s.counter + b) - (s.counter + a) >= CounterSpace(s)
  BY <1>2, <1>3, SpaceIsPositive, ModGap
<1> QED BY <1>4, <1>2

-----------------------------------------------------------------------------
(* The inductive invariant: types, and the cursor, buffer and counter in   *)
(* step.  The two depend on each other: that a buffered byte is a byte of  *)
(* a block at all is BufferInSync.                                         *)
IInv == TypeOK /\ StreamInv

LEMMA InitIInv == Init => IInv
<1> SUFFICES ASSUME Init PROVE IInv
  OBVIOUS
<1>1. session \in Sessions /\ session.iv_length = 12
  BY DEF Init, Sessions, Word
<1>2. KeySetup(session) = BlockInput(session, 0)
  BY <1>1, KeySetupIsBlockZero
<1>3. 0 % W = 0
  BY SmallMod
<1>4. input = BlockInput(session, 0)
  BY <1>2, <1>3 DEF Init, KeySetup
<1>5. blocks = <<>> /\ Len(blocks) = 0
  BY DEF Init
<1>6. TypeOK
  BY <1>1 DEF Init, TypeOK, Blocks, Inputs, Word
<1>7. CounterInSync
  BY <1>4, <1>5, <1>1 DEF Init, CounterInSync
<1>8. BufferInSync /\ CallInBounds
  BY <1>5 DEF Init, BufferInSync, CallInBounds, Cursor
<1> QED BY <1>6, <1>7, <1>8 DEF IInv, StreamInv

LEMMA InitCallIInv ==
  ASSUME IInv, NEW s \in Sessions, chacha20_init(s)
  PROVE  IInv'
<1> USE DEF chacha20_init, ForgetBuffer
<1>1. input' = BlockInput(s, 0) /\ input' \in Inputs
  BY KeySetupIsBlockZero, BlockInputWords
<1>2. blocks' = <<>> /\ Len(blocks') = 0 /\ s.iv_length \in {8, 12}
  BY DEF Sessions
<1>3. TypeOK'
  BY <1>1, <1>2 DEF IInv, TypeOK, locals
<1>4. CounterInSync'
  BY <1>1, <1>2 DEF CounterInSync
<1>5. BufferInSync' /\ CallInBounds'
  BY <1>2 DEF BufferInSync, CallInBounds, Cursor
<1> QED BY <1>3, <1>4, <1>5 DEF IInv, StreamInv

LEMMA CallIInv ==
  ASSUME IInv, NEW op \in {"transform", "extract"}, NEW l \in 0 .. MaxCall, Call(op, l)
  PROVE  IInv'
<1> USE DEF Call, ctx
<1>1. TypeOK'
  BY DEF IInv, TypeOK
<1>2. CounterInSync'
  BY DEF IInv, StreamInv, CounterInSync
<1>3. Cursor' = Cursor
  BY DEF Cursor
<1>4. BufferInSync'
  BY <1>3 DEF IInv, StreamInv, BufferInSync
<1>5. CallInBounds'
  BY DEF CallInBounds
<1> QED BY <1>1, <1>2, <1>4, <1>5 DEF IInv, StreamInv

LEMMA FreshByteIInv ==
  ASSUME IInv, FreshByte
  PROVE  IInv'
<1> USE DEF FreshByte, chacha20_block, Produce, Exhausted
<1> DEFINE L == Len(blocks)
<1>1. /\ session \in Sessions /\ pos \in 0 .. MaxPos /\ n = BlockLen
      /\ blocks \in Seq(Inputs) /\ input \in Inputs /\ L \in Nat
      /\ len \in 1 .. MaxCall /\ pc # "idle"
  BY DEF IInv, TypeOK
<1>2. /\ iv_length = session.iv_length
      /\ input = BlockInput(session, L)
      /\ \A i \in 1 .. L : blocks[i] = BlockInput(session, i-1)
  BY DEF IInv, StreamInv, CounterInSync
<1>3. pos = L * BlockLen
  BY <1>1 DEF IInv, StreamInv, BufferInSync, Cursor
<1>4. /\ blocks' \in Seq(Inputs) /\ Len(blocks') = L + 1
      /\ \A i \in 1 .. L : blocks'[i] = blocks[i]
      /\ blocks'[L + 1] = input
  BY <1>1
<1>5. input' = BlockInput(session, L + 1)
  BY <1>1, <1>2, IncrementIsNextBlock
<1>6. TypeOK'
  <2>1. input' \in Inputs
    BY <1>5, <1>1, BlockInputWords
  <2>2. pos' \in 0 .. MaxPos
    BY <1>1 DEF IInv, StreamInv, CallInBounds
  <2> QED BY <1>1, <1>4, <2>1, <2>2 DEF IInv, TypeOK, Blocks
<1>7. CounterInSync'
  <2>1. \A i \in 1 .. L + 1 : blocks'[i] = BlockInput(session, i-1)
    <3> TAKE i \in 1 .. L + 1
    <3>1. CASE i = L + 1
      <4>1. i - 1 = L
        BY <3>1, <1>1
      <4> QED BY <3>1, <4>1, <1>4, <1>2
    <3>2. CASE i # L + 1
      <4>1. i \in 1 .. L
        BY <3>2, <1>1
      <4> QED BY <4>1, <1>4, <1>2
    <3> QED BY <3>1, <3>2
  <2> QED BY <2>1, <1>2, <1>4, <1>5 DEF CounterInSync
<1>8. BufferInSync'
  <2>1. Cursor' = 1
    BY <1>1 DEF Cursor
  <2>2. pos' + (BlockLen - 1) = (L + 1) * BlockLen
    BY <1>1, <1>3
  <2> QED BY <2>1, <2>2, <1>1, <1>4 DEF BufferInSync
<1>9. CallInBounds'
  BY <1>1 DEF IInv, StreamInv, CallInBounds
<1> QED BY <1>6, <1>7, <1>8, <1>9 DEF IInv, StreamInv

LEMMA BufferedByteIInv ==
  ASSUME IInv, BufferedByte
  PROVE  IInv'
<1> USE DEF BufferedByte, Produce, Exhausted
<1>1. /\ pos \in 0 .. MaxPos /\ n \in 0 .. BlockLen-1 /\ blocks \in Seq(Inputs)
      /\ len \in 1 .. MaxCall /\ pc # "idle" /\ pc' = pc
  BY DEF IInv, TypeOK
<1>2. Len(blocks) > 0 /\ output = blocks[Len(blocks)]
  BY <1>1 DEF IInv, StreamInv, BufferInSync, Cursor
<1>3. TypeOK'
  <2>1. output \in Inputs
    BY <1>1, <1>2
  <2>2. pos' \in 0 .. MaxPos
    BY <1>1 DEF IInv, StreamInv, CallInBounds
  <2> QED BY <1>1, <2>1, <2>2 DEF IInv, TypeOK
<1>4. CounterInSync'
  BY DEF IInv, StreamInv, CounterInSync
<1>5. BufferInSync'
  <2>1. Cursor = n /\ Cursor' = n + 1
    BY <1>1 DEF Cursor
  <2>2. pos + (BlockLen - n) = Len(blocks) * BlockLen
    BY <2>1 DEF IInv, StreamInv, BufferInSync
  <2>3. pos' + (BlockLen - (n + 1)) = pos + (BlockLen - n)
    BY <1>1
  <2> QED BY <2>1, <2>2, <2>3, <1>1, <1>2 DEF BufferInSync
<1>6. CallInBounds'
  BY <1>1 DEF IInv, StreamInv, CallInBounds
<1> QED BY <1>3, <1>4, <1>5, <1>6 DEF IInv, StreamInv

LEMMA ReturnIInv ==
  ASSUME IInv, Return
  PROVE  IInv'
<1> USE DEF Return, locals
<1>1. TypeOK'
  BY DEF IInv, TypeOK
<1>2. CounterInSync' /\ CallInBounds'
  BY DEF IInv, StreamInv, CounterInSync, CallInBounds
<1>3. Cursor' = Cursor
  BY DEF Cursor
<1>4. BufferInSync'
  BY <1>3 DEF IInv, StreamInv, BufferInSync
<1> QED BY <1>1, <1>2, <1>4 DEF IInv, StreamInv

LEMMA StutterIInv ==
  ASSUME IInv, UNCHANGED vars
  PROVE  IInv'
BY DEF vars, IInv, TypeOK, StreamInv, CounterInSync, BufferInSync, CallInBounds, Cursor

LEMMA NextIInv == IInv /\ [Next]_vars => IInv'
<1> SUFFICES ASSUME IInv, [Next]_vars PROVE IInv'
  OBVIOUS
<1>1. ASSUME NEW s \in Sessions, chacha20_init(s) PROVE IInv'
  BY <1>1, InitCallIInv
<1>2. CASE chacha20_transform
  BY <1>2, CallIInv DEF chacha20_transform
<1>3. CASE chacha20_extract
  BY <1>3, CallIInv DEF chacha20_extract
<1>4. CASE FreshByte
  BY <1>4, FreshByteIInv
<1>5. CASE BufferedByte
  BY <1>5, BufferedByteIInv
<1>6. CASE Return
  BY <1>6, ReturnIInv
<1>7. CASE UNCHANGED vars
  BY <1>7, StutterIInv
<1> QED BY <1>1, <1>2, <1>3, <1>4, <1>5, <1>6, <1>7 DEF Next, Arguments

LEMMA Inductive == Spec => []IInv
BY InitIInv, NextIInv, PTL DEF Spec

(* Types: in particular no call reads outside the 64 bytes of the buffer.  *)
THEOREM TypeCorrect == Spec => []TypeOK
<1>1. IInv => TypeOK
  BY DEF IInv
<1> QED BY <1>1, Inductive, PTL

(* Cursor, buffer and counter stay in step through every sequence of       *)
(* init, transform and extract.                                            *)
THEOREM StreamCorrect == Spec => []StreamInv
<1>1. IInv => StreamInv
  BY DEF IInv
<1> QED BY <1>1, Inductive, PTL

(* No block is used twice before the session's counter has gone round.     *)
THEOREM PeriodCorrect == Spec => []FullPeriod
<1>1. ASSUME IInv PROVE FullPeriod
  <2> SUFFICES ASSUME NEW i \in 1 .. Len(blocks), NEW j \in 1 .. Len(blocks),
                      i < j, blocks[i] = blocks[j]
               PROVE  j - i >= CounterSpace(session)
    BY DEF FullPeriod
  <2>1. /\ session \in Sessions /\ Len(blocks) \in Nat
        /\ i-1 \in Nat /\ j-1 \in Nat /\ i-1 < j-1 /\ (j-1) - (i-1) = j - i
    BY <1>1 DEF IInv, TypeOK
  <2>2. BlockInput(session, i-1) = BlockInput(session, j-1)
    BY <1>1 DEF IInv, StreamInv, CounterInSync
  <2> QED BY <2>1, <2>2, SameInputSamePeriod
<1> QED BY <1>1, Inductive, PTL

-----------------------------------------------------------------------------
(* Refinement of Keystream.                                                *)

LEMMA BufferPosition ==
  ASSUME NEW b \in Nat, NEW i \in 0 .. BlockLen-1, NEW s \in Sessions,
         NEW p, p = b * BlockLen + i
  PROVE  Abstract!ByteAt(s, p) = [block |-> BlockInput(s, b), off |-> i]
<1>1. p \div BlockLen = b /\ p % BlockLen = i
  BY DivModUnique
<1> QED BY <1>1 DEF Abstract!ByteAt, Abstract!BlockInput, BlockInput,
                    Abstract!CounterSpace, CounterSpace

LEMMA StepRefines ==
  ASSUME IInv, [Next]_vars
  PROVE  [Abstract!Next]_(Abstract!ksVars)
<1> USE DEF Abstract!ksVars
<1>1. ASSUME NEW s \in Sessions, chacha20_init(s) PROVE Abstract!Next
  BY <1>1 DEF chacha20_init, Abstract!Next, Abstract!Rekey, Abstract!Sessions,
              Sessions, Abstract!Word, Word
<1>2. CASE chacha20_transform
  BY <1>2 DEF chacha20_transform, Call
<1>3. CASE chacha20_extract
  BY <1>3 DEF chacha20_extract, Call
<1>4. CASE FreshByte
  <2>1. /\ session \in Sessions /\ n = BlockLen /\ pc # "idle"
        /\ pos \in Nat /\ Len(blocks) \in Nat
    BY <1>4 DEF IInv, TypeOK, FreshByte, Exhausted
  <2>2. pos = Len(blocks) * BlockLen + 0 /\ 0 \in 0 .. BlockLen-1
    BY <2>1 DEF IInv, StreamInv, BufferInSync, Cursor
  <2>3. input = BlockInput(session, Len(blocks))
    BY DEF IInv, StreamInv, CounterInSync
  <2>4. last' = Abstract!ByteAt(session, pos)
    BY <1>4, <2>1, <2>2, <2>3, BufferPosition DEF FreshByte, Produce
  <2> QED BY <1>4, <2>4 DEF FreshByte, Produce, Abstract!Next, Abstract!Emit
<1>5. CASE BufferedByte
  <2> DEFINE L == Len(blocks)
  <2>1. /\ session \in Sessions /\ n \in 0 .. BlockLen-1 /\ pc # "idle"
        /\ pos \in Nat /\ L \in Nat
    BY <1>5 DEF IInv, TypeOK, BufferedByte, Exhausted
  <2>2. L > 0 /\ output = blocks[L] /\ pos + (BlockLen - n) = L * BlockLen
    BY <2>1 DEF IInv, StreamInv, BufferInSync, Cursor
  <2>3. output = BlockInput(session, L-1)
    BY <2>1, <2>2 DEF IInv, StreamInv, CounterInSync
  <2>4. L-1 \in Nat /\ pos = (L-1) * BlockLen + n
    BY <2>1, <2>2
  <2>5. last' = Abstract!ByteAt(session, pos)
    BY <1>5, <2>1, <2>3, <2>4, BufferPosition DEF BufferedByte, Produce
  <2> QED BY <1>5, <2>5 DEF BufferedByte, Produce, Abstract!Next, Abstract!Emit
<1>6. CASE Return
  BY <1>6 DEF Return
<1>7. CASE UNCHANGED vars
  BY <1>7 DEF vars
<1> QED BY <1>1, <1>2, <1>3, <1>4, <1>5, <1>6, <1>7 DEF Next, Arguments

(* The context is a position in a keystream: every byte is the one that    *)
(* Keystream gives for the session and the number of bytes before it.      *)
THEOREM Refinement == Spec => RefinesKeystream
<1>1. Init => Abstract!Init
  BY DEF Init, Abstract!Init, Abstract!Sessions, Abstract!Word
<1> QED BY <1>1, StepRefines, Inductive, PTL DEF Spec, RefinesKeystream, Abstract!Spec
=============================================================================
