-------------------------- MODULE AesCipher_proofs --------------------------
(***************************************************************************)
(* Proofs about the block encryptions and decryptions of rijndael/ and     *)
(* aes-ni/: for every block, every expanded key, every number of rounds,   *)
(* and every S-box and mixing matrix that satisfy the laws of AesWords.    *)
(***************************************************************************)
EXTENDS AesCipher, SequenceTheorems, TLAPS

(* Where the loops are: how the round key pointer and the loop counter of  *)
(* each implementation go together.                                        *)
Places == {"load", "toT", "toS", "straight", "last", "loop", "do", "enclast", "returned"}

CallInv ==
  /\ nr \in {10, 12, 14} /\ keys \in Schedules /\ plaintext \in Plaintexts
  /\ impl \in Impls /\ rounds \in 0 .. nr /\ (impl # "kat" => rounds = nr)
  /\ phase \in {"encrypt", "decrypt"} /\ pc \in Places

LoopInv ==
  /\ rk \in 0 .. nr /\ r \in -1 .. nr
  /\ pc = "toT" => impl = "rolled" /\ r >= 1 /\ rk = nr - 2 * r
  /\ pc = "toS" => impl = "rolled" /\ r >= 1 /\ rk = nr - 2 * r /\ rk >= 2
  /\ pc = "straight" => impl = "unrolled" /\ r >= 0 /\ r <= nr - 2 /\ rk = 0
  /\ pc = "last" => /\ rk = nr
                    /\ \/ impl = "rolled" /\ r = 0
                       \/ impl = "unrolled" /\ r = nr - 1
  /\ pc = "loop" => /\ impl = "kat" /\ rk >= 1 /\ rk + r = KatLoops + 1
                    /\ r >= 0 \/ rk = 1
  /\ pc = "do" => impl = "aesni" /\ rk >= 1 /\ rk < nr
  /\ pc = "enclast" => impl = "aesni" /\ rk = nr

(* The trace is a beginning of the rounds of AES.                          *)
NextState(n) == IF n < nr THEN FullRound(trace[n], keys[n]) ELSE LastRound(trace[n], keys[n])
TraceInv ==
  /\ trace \in Seq(Block) /\ Len(trace) >= 1 /\ Len(trace) <= nr + 1
  /\ trace[1] = XorBlock(plaintext, keys[0])
  /\ \A n \in 1 .. Len(trace) - 1 : trace[n + 1] = NextState(n)

LocalsInv == {s, t, ct, pt} \subseteq Block \cup {NoBlock}

(* The state between two rounds, and the outputs.                          *)
HeldInv ==
  InProgress => IF Encrypting THEN Len(trace) = Done + 1 /\ Held = trace[Done + 1]
                              ELSE Held = Unmixed(trace[nr - Done])

OutputInv ==
  /\ Encrypting /\ pc # "returned" => ct = NoBlock
  /\ Encrypting /\ pc = "load" => Len(trace) = 1
  /\ ~Encrypting \/ pc = "returned" =>
       Len(trace) = (IF Encrypting THEN rounds ELSE nr) + 1 /\ ct = trace[Len(trace)]

IInv == CallInv /\ LoopInv /\ TraceInv /\ LocalsInv /\ HeldInv /\ OutputInv /\ RoundTrip

-----------------------------------------------------------------------------
(* Words and blocks under exclusive or.                                    *)
LEMMA XorWordLaws ==
  ASSUME NEW u \in Word, NEW v \in Word
  PROVE  XorWord(u, v) \in Word /\ XorWord(XorWord(u, v), v) = u
<1>1. \A b \in 0 .. 3 : u[b] \in Byte /\ v[b] \in Byte
  BY DEF Word
<1>2. XorWord(u, v) \in Word
  BY <1>1, XorAssumption DEF XorWord, Word
<1>3. \A b \in 0 .. 3 : XorWord(XorWord(u, v), v)[b] = u[b]
  BY <1>1, XorAssumption DEF XorWord
<1>4. XorWord(XorWord(u, v), v) = [b \in 0 .. 3 |-> XorWord(XorWord(u, v), v)[b]]
  BY DEF XorWord
<1>5. u = [b \in 0 .. 3 |-> u[b]]
  BY DEF Word
<1> QED BY <1>2, <1>3, <1>4, <1>5

LEMMA XorBlockLaws ==
  ASSUME NEW x \in Block, NEW k \in Block
  PROVE  XorBlock(x, k) \in Block /\ XorBlock(XorBlock(x, k), k) = x
<1>1. \A c \in 0 .. 3 : x[c] \in Word /\ k[c] \in Word
  BY DEF Block
<1>2. XorBlock(x, k) \in Block
  BY <1>1, XorWordLaws DEF XorBlock, Block
<1>3. \A c \in 0 .. 3 : XorBlock(XorBlock(x, k), k)[c] = x[c]
  BY <1>1, XorWordLaws DEF XorBlock
<1>4. XorBlock(XorBlock(x, k), k) = [c \in 0 .. 3 |-> XorBlock(XorBlock(x, k), k)[c]]
  BY DEF XorBlock
<1>5. x = [c \in 0 .. 3 |-> x[c]]
  BY DEF Block
<1> QED BY <1>2, <1>3, <1>4, <1>5

LEMMA ByteInterchange ==
  ASSUME NEW a \in Byte, NEW b \in Byte, NEW c \in Byte, NEW d \in Byte
  PROVE  XOR(XOR(a, b), XOR(c, d)) = XOR(XOR(a, c), XOR(b, d))
<1>1. XOR(c, d) \in Byte /\ XOR(b, d) \in Byte
  BY XorAssumption
<1>2. XOR(XOR(a, b), XOR(c, d)) = XOR(a, XOR(b, XOR(c, d)))
  <2>1. ASSUME NEW x \in Byte PROVE XOR(XOR(a, b), x) = XOR(a, XOR(b, x))
    BY XorAssumption
  <2> QED BY <1>1, <2>1
<1>3. XOR(b, XOR(c, d)) = XOR(c, XOR(b, d))
  <2>1. XOR(b, XOR(c, d)) = XOR(XOR(b, c), d) /\ XOR(c, XOR(b, d)) = XOR(XOR(c, b), d)
    BY XorAssumption
  <2> QED BY <2>1, XorAssumption
<1>4. XOR(XOR(a, c), XOR(b, d)) = XOR(a, XOR(c, XOR(b, d)))
  <2>1. ASSUME NEW x \in Byte PROVE XOR(XOR(a, c), x) = XOR(a, XOR(c, x))
    BY XorAssumption
  <2> QED BY <1>1, <2>1
<1> QED BY <1>2, <1>3, <1>4

LEMMA WordInterchange ==
  ASSUME NEW a \in Word, NEW b \in Word, NEW c \in Word, NEW d \in Word
  PROVE  XorWord(XorWord(a, b), XorWord(c, d)) = XorWord(XorWord(a, c), XorWord(b, d))
<1>1. \A i \in 0 .. 3 : a[i] \in Byte /\ b[i] \in Byte /\ c[i] \in Byte /\ d[i] \in Byte
  BY DEF Word
<1>2. ASSUME NEW i \in 0 .. 3
      PROVE  XOR(XOR(a[i], b[i]), XOR(c[i], d[i])) = XOR(XOR(a[i], c[i]), XOR(b[i], d[i]))
  <2>1. a[i] \in Byte /\ b[i] \in Byte /\ c[i] \in Byte /\ d[i] \in Byte
    BY <1>1
  <2> QED BY <2>1, ByteInterchange
<1> QED BY <1>2 DEF XorWord

LEMMA Xor4Word ==
  ASSUME NEW a \in Word, NEW b \in Word, NEW c \in Word, NEW d \in Word
  PROVE  Xor4(a, b, c, d) \in Word
BY XorWordLaws DEF Xor4

(* The mixing matrices give words, and the inverse is linear.              *)
LEMMA MixWord ==
  ASSUME NEW u \in Word
  PROVE  Mix(u) \in Word /\ InvMix(u) \in Word
<1>1. \A j \in 0 .. 3 : Col(j, u[j]) \in Word /\ InvCol(j, u[j]) \in Word
  BY ColAssumption DEF Word
<1> QED BY <1>1, Xor4Word DEF Mix, InvMix

LEMMA InvMixLinear ==
  ASSUME NEW u \in Word, NEW v \in Word
  PROVE  InvMix(XorWord(u, v)) = XorWord(InvMix(u), InvMix(v))
<1> DEFINE U(j) == InvCol(j, u[j])
           V(j) == InvCol(j, v[j])
<1>1. \A j \in 0 .. 3 : u[j] \in Byte /\ v[j] \in Byte
  BY DEF Word
<1>2. \A j \in 0 .. 3 : U(j) \in Word /\ V(j) \in Word
  BY <1>1, ColAssumption
<1>3. \A j \in 0 .. 3 : InvCol(j, XorWord(u, v)[j]) = XorWord(U(j), V(j))
  BY <1>1, ColAssumption DEF XorWord
<1>4. /\ InvMix(XorWord(u, v)) =
            Xor4(XorWord(U(0), V(0)), XorWord(U(1), V(1)),
                 XorWord(U(2), V(2)), XorWord(U(3), V(3)))
      /\ InvMix(u) = Xor4(U(0), U(1), U(2), U(3))
      /\ InvMix(v) = Xor4(V(0), V(1), V(2), V(3))
  BY <1>3 DEF InvMix
<1> HIDE DEF U, V
<1> DEFINE U2 == XorWord(U(0), U(1))
           V2 == XorWord(V(0), V(1))
           U3 == XorWord(U2, U(2))
           V3 == XorWord(V2, V(2))
<1>5. U2 \in Word /\ V2 \in Word
  BY <1>2, XorWordLaws
<1>6. XorWord(XorWord(U(0), V(0)), XorWord(U(1), V(1))) = XorWord(U2, V2)
  BY <1>2, WordInterchange
<1> HIDE DEF U2, V2
<1>7. U3 \in Word /\ V3 \in Word
  BY <1>2, <1>5, XorWordLaws
<1>8. XorWord(XorWord(U2, V2), XorWord(U(2), V(2))) = XorWord(U3, V3)
  BY <1>2, <1>5, WordInterchange
<1> HIDE DEF U3, V3
<1>9. XorWord(XorWord(U3, V3), XorWord(U(3), V(3))) =
        XorWord(XorWord(U3, U(3)), XorWord(V3, V(3)))
  BY <1>2, <1>7, WordInterchange
<1> QED BY <1>4, <1>6, <1>8, <1>9 DEF Xor4, U2, V2, U3, V3

-----------------------------------------------------------------------------
(* The rounds give blocks.                                                 *)
LEMMA SourceInRange ==
  ASSUME NEW c \in 0 .. 3, NEW b \in 0 .. 3
  PROVE  /\ (c + b) % 4 \in 0 .. 3 /\ (c - b) % 4 \in 0 .. 3
         /\ (((c - b) % 4) + b) % 4 = c
OBVIOUS

LEMMA SboxByte ==
  ASSUME NEW x \in Byte
  PROVE  Sbox[x] \in Byte /\ InvSbox[x] \in Byte /\ InvSbox[Sbox[x]] = x
BY SboxAssumption

LEMMA UnmixedBytes ==
  ASSUME NEW x \in Block
  PROVE  /\ Unmixed(x) \in Block
         /\ \A c \in 0 .. 3, b \in 0 .. 3 : Unmixed(x)[c][b] = Sbox[x[(c + b) % 4][b]]
<1>1. \A c \in 0 .. 3, b \in 0 .. 3 : x[c][b] \in Byte
  BY DEF Block, Word
<1>2. \A c \in 0 .. 3, b \in 0 .. 3 : Unmixed(x)[c][b] = Sbox[x[(c + b) % 4][b]]
  BY SourceInRange DEF Unmixed, ShiftRows, SubBytes
<1>3. \A c \in 0 .. 3, b \in 0 .. 3 : Unmixed(x)[c][b] \in Byte
  BY <1>1, <1>2, SourceInRange, SboxByte
<1>4. Unmixed(x) = [c \in 0 .. 3 |-> [b \in 0 .. 3 |-> Unmixed(x)[c][b]]]
  BY DEF Unmixed, ShiftRows
<1>5. Unmixed(x) \in Block
  <2> DEFINE y == Unmixed(x)
  <2> HIDE DEF y
  <2>1. \A c \in 0 .. 3 : [b \in 0 .. 3 |-> y[c][b]] \in Word
    BY <1>3 DEF Word, y
  <2>2. y = [c \in 0 .. 3 |-> [b \in 0 .. 3 |-> y[c][b]]]
    BY <1>4 DEF y
  <2>3. [c \in 0 .. 3 |-> [b \in 0 .. 3 |-> y[c][b]]] \in Block
    BY <2>1 DEF Block
  <2> QED BY <2>2, <2>3 DEF y
<1> QED BY <1>2, <1>5

LEMMA RoundBlock ==
  ASSUME NEW x \in Block, NEW key \in Block
  PROVE  /\ MixColumns(Unmixed(x)) \in Block
         /\ FullRound(x, key) \in Block /\ LastRound(x, key) \in Block
<1>1. Unmixed(x) \in Block
  BY UnmixedBytes
<1>2. MixColumns(Unmixed(x)) \in Block
  BY <1>1, MixWord DEF MixColumns, Block
<1> QED BY <1>1, <1>2, XorBlockLaws DEF FullRound, LastRound

-----------------------------------------------------------------------------
(* A round with the tables and a round with the instructions are a round   *)
(* of AES, or one of the equivalent inverse cipher.                        *)
InvRound(x, key) == XorBlock([c \in 0 .. 3 |-> InvMix(DecBytes(x)[c])], key)

LEMMA EncBytesUnmixed ==
  ASSUME NEW x \in Block
  PROVE  EncBytes(x) = Unmixed(x)
<1>1. \A c \in 0 .. 3, b \in 0 .. 3 : Unmixed(x)[c][b] = Sbox[x[(c + b) % 4][b]]
  BY UnmixedBytes
<1>2. Unmixed(x) = [c \in 0 .. 3 |-> [b \in 0 .. 3 |-> Unmixed(x)[c][b]]]
  BY DEF Unmixed, ShiftRows
<1>3. EncBytes(x) = [c \in 0 .. 3 |-> [b \in 0 .. 3 |-> Sbox[x[(c + b) % 4][b]]]]
  BY DEF EncBytes, EncSource
<1>4. [c \in 0 .. 3 |-> [b \in 0 .. 3 |-> Unmixed(x)[c][b]]] =
        [c \in 0 .. 3 |-> [b \in 0 .. 3 |-> Sbox[x[(c + b) % 4][b]]]]
  <2>1. ASSUME NEW c \in 0 .. 3
        PROVE  [b \in 0 .. 3 |-> Unmixed(x)[c][b]] = [b \in 0 .. 3 |-> Sbox[x[(c + b) % 4][b]]]
    BY <1>1
  <2> QED BY <2>1
<1> QED BY <1>2, <1>3, <1>4

LEMMA EncWordMix ==
  ASSUME NEW x \in Block, NEW c \in 0 .. 3
  PROVE  EncWord(x, c) = Mix(Unmixed(x)[c])
<1>1. \A b \in 0 .. 3 : Unmixed(x)[c][b] = Sbox[x[EncSource(c, b)][b]]
  BY UnmixedBytes DEF EncSource
<1> QED BY <1>1 DEF EncWord, Te, Mix

LEMMA DecWordMix ==
  ASSUME NEW x, NEW c \in 0 .. 3
  PROVE  DecWord(x, c) = InvMix(DecBytes(x)[c])
<1>1. \A b \in 0 .. 3 : DecBytes(x)[c][b] = InvSbox[x[DecSource(c, b)][b]]
  BY DEF DecBytes
<1> QED BY <1>1 DEF DecWord, Td, InvMix

LEMMA TableRoundIs ==
  ASSUME NEW x \in Block, NEW key
  PROVE  TableRound(x, key) = IF Encrypting THEN FullRound(x, key) ELSE InvRound(x, key)
<1>1. CASE Encrypting
  <2>1. \A c \in 0 .. 3 : EncWord(x, c) = Mix(Unmixed(x)[c])
    BY EncWordMix
  <2>2. [c \in 0 .. 3 |-> IF Encrypting THEN EncWord(x, c) ELSE DecWord(x, c)] =
          MixColumns(Unmixed(x))
    BY <1>1, <2>1 DEF MixColumns
  <2> QED BY <1>1, <2>2 DEF TableRound, FullRound
<1>2. CASE ~Encrypting
  <2>1. \A c \in 0 .. 3 : DecWord(x, c) = InvMix(DecBytes(x)[c])
    BY DecWordMix
  <2>2. [c \in 0 .. 3 |-> IF Encrypting THEN EncWord(x, c) ELSE DecWord(x, c)] =
          [c \in 0 .. 3 |-> InvMix(DecBytes(x)[c])]
    BY <1>2, <2>1
  <2> QED BY <1>2, <2>2 DEF TableRound, InvRound
<1> QED BY <1>1, <1>2

LEMMA InstructionBytes ==
  ASSUME NEW x \in Block
  PROVE  Substituted(Shifted(x)) = TableLast(x)
<1>1. CASE Encrypting
  <2>1. \A c \in 0 .. 3, b \in 0 .. 3 : Shifted(x)[c][b] = x[EncSource(c, b)][b]
    BY <1>1 DEF Shifted, EncSource
  <2>2. ASSUME NEW c \in 0 .. 3
        PROVE  [b \in 0 .. 3 |-> Sbox[Shifted(x)[c][b]]] =
                 [b \in 0 .. 3 |-> Sbox[x[EncSource(c, b)][b]]]
    BY <2>1
  <2>3. Substituted(Shifted(x)) = [c \in 0 .. 3 |-> [b \in 0 .. 3 |-> Sbox[Shifted(x)[c][b]]]]
    BY <1>1 DEF Substituted
  <2> QED BY <1>1, <2>2, <2>3 DEF TableLast, EncBytes
<1>2. CASE ~Encrypting
  <2>1. \A c \in 0 .. 3, b \in 0 .. 3 : Shifted(x)[c][b] = x[DecSource(c, b)][b]
    BY <1>2 DEF Shifted, DecSource
  <2>2. ASSUME NEW c \in 0 .. 3
        PROVE  [b \in 0 .. 3 |-> InvSbox[Shifted(x)[c][b]]] =
                 [b \in 0 .. 3 |-> InvSbox[x[DecSource(c, b)][b]]]
    BY <2>1
  <2>3. Substituted(Shifted(x)) = [c \in 0 .. 3 |-> [b \in 0 .. 3 |-> InvSbox[Shifted(x)[c][b]]]]
    BY <1>2 DEF Substituted
  <2> QED BY <1>2, <2>2, <2>3 DEF TableLast, DecBytes
<1> QED BY <1>1, <1>2

LEMMA InstructionRoundIs ==
  ASSUME NEW x \in Block, NEW key
  PROVE  InstructionRound(x, key) = TableRound(x, key)
<1> DEFINE y == Substituted(Shifted(x))
<1>1. y = TableLast(x)
  BY InstructionBytes
<1> HIDE DEF y
<1>2. CASE Encrypting
  <2>1. y = Unmixed(x)
    BY <1>1, <1>2, EncBytesUnmixed DEF TableLast
  <2>2. Mixed(y) = MixColumns(Unmixed(x))
    BY <1>2, <2>1 DEF Mixed, MixColumns
  <2>3. InstructionRound(x, key) = FullRound(x, key)
    BY <2>2 DEF InstructionRound, FullRound, y
  <2> QED BY <1>2, <2>3, TableRoundIs
<1>3. CASE ~Encrypting
  <2>1. y = DecBytes(x)
    BY <1>1, <1>3 DEF TableLast
  <2>2. Mixed(y) = [c \in 0 .. 3 |-> InvMix(DecBytes(x)[c])]
    BY <1>3, <2>1 DEF Mixed
  <2>3. InstructionRound(x, key) = InvRound(x, key)
    BY <2>2 DEF InstructionRound, InvRound, y
  <2> QED BY <1>3, <2>3, TableRoundIs
<1> QED BY <1>2, <1>3

(* The bytes of a decryption undo those of an encryption.                  *)
LEMMA DecBytesUndo ==
  ASSUME NEW x \in Block
  PROVE  DecBytes(Unmixed(x)) = x
<1> DEFINE u == Unmixed(x)
<1>1. \A c \in 0 .. 3, b \in 0 .. 3 : u[c][b] = Sbox[x[(c + b) % 4][b]]
  BY UnmixedBytes
<1> HIDE DEF u
<1>2. \A c \in 0 .. 3, b \in 0 .. 3 : x[c][b] \in Byte
  BY DEF Block, Word
<1>3. ASSUME NEW c \in 0 .. 3, NEW b \in 0 .. 3
      PROVE  InvSbox[u[DecSource(c, b)][b]] = x[c][b]
  <2> DEFINE d == DecSource(c, b)
  <2>1. d \in 0 .. 3 /\ (d + b) % 4 = c
    BY SourceInRange DEF DecSource
  <2> HIDE DEF d
  <2>2. u[d][b] = Sbox[x[(d + b) % 4][b]]
    BY <1>1, <2>1
  <2>3. u[d][b] = Sbox[x[c][b]]
    BY <2>1, <2>2
  <2>4. InvSbox[u[d][b]] = x[c][b]
    BY <1>2, <2>3, SboxByte
  <2> QED BY <2>4 DEF d
<1>4. DecBytes(u) = [c \in 0 .. 3 |-> [b \in 0 .. 3 |-> x[c][b]]]
  <2>1. ASSUME NEW c \in 0 .. 3
        PROVE  [b \in 0 .. 3 |-> InvSbox[u[DecSource(c, b)][b]]] = [b \in 0 .. 3 |-> x[c][b]]
    BY <1>3
  <2> QED BY <2>1 DEF DecBytes
<1>5. x = [c \in 0 .. 3 |-> [b \in 0 .. 3 |-> x[c][b]]]
  <2>1. \A c \in 0 .. 3 : x[c] = [b \in 0 .. 3 |-> x[c][b]]
    BY DEF Block, Word
  <2>2. x = [c \in 0 .. 3 |-> x[c]]
    BY DEF Block
  <2> QED BY <2>1, <2>2
<1> QED BY <1>4, <1>5 DEF u

(* A round of the inverse cipher, with the round key of AES through the    *)
(* inverse mix, takes the block of a round back to that before it: the mix *)
(* is linear.                                                              *)
MixedKey(key) == [c \in 0 .. 3 |-> InvMix(key[c])]

LEMMA InvRoundUndo ==
  ASSUME NEW x \in Block, NEW key \in Block
  PROVE  InvRound(Unmixed(FullRound(x, key)), MixedKey(key)) = Unmixed(x)
<1> DEFINE u == Unmixed(x)
<1>1. u \in Block /\ FullRound(x, key) \in Block
  BY UnmixedBytes, RoundBlock
<1>2. DecBytes(Unmixed(FullRound(x, key))) = FullRound(x, key)
  BY <1>1, DecBytesUndo
<1>3. FullRound(x, key) = XorBlock(MixColumns(u), key)
  BY DEF FullRound
<1> HIDE DEF u
<1>4. ASSUME NEW c \in 0 .. 3
      PROVE  InvMix(FullRound(x, key)[c]) = XorWord(u[c], InvMix(key[c]))
             /\ u[c] \in Word /\ InvMix(key[c]) \in Word
  <2>1. u[c] \in Word /\ key[c] \in Word
    BY <1>1 DEF Block
  <2>2. Mix(u[c]) \in Word /\ InvMix(key[c]) \in Word
    BY <2>1, MixWord
  <2>3. FullRound(x, key)[c] = XorWord(Mix(u[c]), key[c])
    BY <1>3 DEF XorBlock, MixColumns
  <2>4. InvMix(XorWord(Mix(u[c]), key[c])) = XorWord(InvMix(Mix(u[c])), InvMix(key[c]))
    BY <2>1, <2>2, InvMixLinear
  <2>5. InvMix(Mix(u[c])) = u[c]
    BY <2>1, MixAssumption
  <2> QED BY <2>1, <2>2, <2>3, <2>4, <2>5
<1>5. [c \in 0 .. 3 |-> InvMix(FullRound(x, key)[c])] = XorBlock(u, MixedKey(key))
  BY <1>4 DEF XorBlock, MixedKey
<1>6. MixedKey(key) \in Block
  BY <1>4 DEF MixedKey, Block
<1>7. InvRound(Unmixed(FullRound(x, key)), MixedKey(key)) =
        XorBlock(XorBlock(u, MixedKey(key)), MixedKey(key))
  BY <1>2, <1>5 DEF InvRound
<1> QED BY <1>1, <1>6, <1>7, XorBlockLaws DEF u

-----------------------------------------------------------------------------
(* The round keys, and the states of the trace.                            *)
LEMMA RoundKeyBlocks ==
  ASSUME CallInv, NEW k \in 0 .. nr
  PROVE  /\ keys[k] \in Block
         /\ ~Encrypting => RoundKeys[k] = IF k \in {0, nr} THEN keys[nr - k]
                                                          ELSE MixedKey(keys[nr - k])
         /\ Encrypting => RoundKeys[k] = keys[k]
<1>1. keys \in [0 .. 14 -> Block] /\ nr \in 10 .. 14
  BY SchedulesAssumption DEF CallInv
<1>2. keys[k] \in Block
  BY <1>1
<1>3. ~Encrypting => RoundKeys[k] = IF k \in {0, nr} THEN keys[nr - k]
                                                     ELSE MixedKey(keys[nr - k])
  BY DEF RoundKeys, InverseKeys, MixedKey
<1> QED BY <1>2, <1>3 DEF RoundKeys

LEMMA TraceBlocks ==
  ASSUME TraceInv, NEW n \in 1 .. Len(trace)
  PROVE  trace[n] \in Block
BY ElementOfSeq DEF TraceInv

(* A round applied to the state between two rounds gives the next one, of  *)
(* the encryption or back through it.                                      *)
LEMMA RoundResult ==
  ASSUME CallInv, TraceInv, NEW d \in Nat, d + 1 < nr, NEW h,
         IF Encrypting THEN Len(trace) = d + 1 /\ h = trace[d + 1]
                       ELSE Len(trace) = nr + 1 /\ h = Unmixed(trace[nr - d]),
         NEW x, x = TableRound(h, RoundKeys[d + 1])
  PROVE  /\ h \in Block /\ x \in Block
         /\ Encrypting => x = NextState(d + 1)
         /\ ~Encrypting => x = Unmixed(trace[nr - (d + 1)])
<1>1. nr \in Nat /\ d + 1 \in 0 .. nr /\ d + 1 # 0 /\ d + 1 # nr
  BY DEF CallInv
<1>2. CASE Encrypting
  <2>1. d + 1 \in 1 .. Len(trace)
    BY <1>2, <1>1
  <2>2. h \in Block
    BY <1>2, <2>1, TraceBlocks
  <2>3. x = FullRound(h, keys[d + 1]) /\ keys[d + 1] \in Block
    BY <1>1, <1>2, <2>2, TableRoundIs, RoundKeyBlocks
  <2> QED BY <1>2, <2>2, <2>3, RoundBlock DEF NextState
<1>3. CASE ~Encrypting
  <2> DEFINE n == nr - (d + 1)
  <2>1. n \in 1 .. Len(trace) - 1 /\ n + 1 = nr - d /\ n < nr /\ n \in 0 .. nr /\ n \in Nat
        /\ n \in 1 .. Len(trace) /\ n + 1 \in 1 .. Len(trace)
    BY <1>1, <1>3
  <2> HIDE DEF n
  <2>2. trace[n + 1] = FullRound(trace[n], keys[n])
    BY <2>1 DEF TraceInv, NextState
  <2>3. trace[n] \in Block /\ trace[n + 1] \in Block /\ keys[n] \in Block
    BY <2>1, TraceBlocks, RoundKeyBlocks
  <2>4. h = Unmixed(trace[n + 1]) /\ h \in Block
    BY <1>3, <2>1, <2>3, UnmixedBytes
  <2>5. RoundKeys[d + 1] = MixedKey(keys[n])
    BY <1>1, <1>3, RoundKeyBlocks DEF n
  <2>6. x = InvRound(h, MixedKey(keys[n]))
    BY <1>3, <2>4, <2>5, TableRoundIs
  <2>7. x = Unmixed(trace[n])
    BY <2>2, <2>3, <2>4, <2>6, InvRoundUndo
  <2>8. x \in Block
    BY <2>3, <2>7, UnmixedBytes
  <2> QED BY <1>3, <2>4, <2>7, <2>8 DEF n
<1> QED BY <1>2, <1>3

(* Shifted and substituted only, the state of an encryption is without its *)
(* column mix, and that of a decryption is one of the encryption.          *)
LEMMA LastBytes ==
  ASSUME CallInv, TraceInv, NEW d \in Nat, d < nr, NEW h,
         IF Encrypting THEN Len(trace) = d + 1 /\ h = trace[d + 1]
                       ELSE Len(trace) = nr + 1 /\ h = Unmixed(trace[nr - d])
  PROVE  /\ h \in Block
         /\ Encrypting => TableLast(h) = Unmixed(h)
         /\ ~Encrypting => TableLast(h) = trace[nr - d] /\ TableLast(h) \in Block
<1>1. nr \in Nat
  BY DEF CallInv
<1>2. CASE Encrypting
  <2>1. d + 1 \in 1 .. Len(trace)
    BY <1>2, <1>1
  <2>2. h \in Block
    BY <1>2, <2>1, TraceBlocks
  <2> QED BY <1>2, <2>2, EncBytesUnmixed DEF TableLast
<1>3. CASE ~Encrypting
  <2> DEFINE n == nr - d
  <2>1. n \in 1 .. Len(trace)
    BY <1>1, <1>3
  <2> HIDE DEF n
  <2>2. trace[n] \in Block
    BY <2>1, TraceBlocks
  <2>3. h = Unmixed(trace[n])
    BY <1>3 DEF n
  <2>4. h \in Block /\ DecBytes(h) = trace[n]
    BY <2>2, <2>3, UnmixedBytes, DecBytesUndo
  <2> QED BY <1>3, <2>2, <2>4 DEF TableLast, n
<1> QED BY <1>2, <1>3

LEMMA LastResult ==
  ASSUME CallInv, TraceInv, NEW d \in Nat, d + 1 = nr, NEW h,
         IF Encrypting THEN Len(trace) = d + 1 /\ h = trace[d + 1]
                       ELSE Len(trace) = nr + 1 /\ h = Unmixed(trace[nr - d]),
         NEW x, x = XorBlock(TableLast(h), RoundKeys[nr])
  PROVE  /\ h \in Block /\ x \in Block
         /\ Encrypting => x = NextState(nr)
         /\ ~Encrypting => x = plaintext
<1>1. nr \in Nat /\ nr \in 0 .. nr /\ 0 \in 0 .. nr /\ nr - nr = 0 /\ nr - d = 1 /\ d < nr
  BY DEF CallInv
<1>2. /\ h \in Block
      /\ Encrypting => TableLast(h) = Unmixed(h)
      /\ ~Encrypting => TableLast(h) = trace[nr - d] /\ TableLast(h) \in Block
  BY <1>1, LastBytes
<1>3. CASE Encrypting
  <2>1. RoundKeys[nr] = keys[nr] /\ keys[nr] \in Block
    BY <1>1, <1>3, RoundKeyBlocks
  <2>2. x = LastRound(h, keys[nr])
    BY <1>2, <1>3, <2>1 DEF LastRound
  <2>3. NextState(nr) = LastRound(h, keys[nr])
    BY <1>1, <1>3 DEF NextState
  <2> QED BY <1>2, <1>3, <2>1, <2>2, <2>3, RoundBlock
<1>4. CASE ~Encrypting
  <2>1. RoundKeys[nr] = keys[0] /\ keys[0] \in Block
    BY <1>1, <1>4, RoundKeyBlocks
  <2>2. plaintext \in Block
    BY PlaintextsAssumption DEF CallInv
  <2>3. x = XorBlock(XorBlock(plaintext, keys[0]), keys[0])
    BY <1>1, <1>2, <1>4, <2>1 DEF TraceInv
  <2>4. x = plaintext
    BY <2>1, <2>2, <2>3, XorBlockLaws
  <2> QED BY <1>2, <1>4, <2>2, <2>4
<1> QED BY <1>3, <1>4

(* The trace grows by a round of AES.                                      *)
LEMMA TraceGrows ==
  ASSUME CallInv, TraceInv, Len(trace) <= nr, UNCHANGED <<nr, keys, plaintext>>,
         NEW x \in Block, x = NextState(Len(trace)), trace' = Append(trace, x)
  PROVE  TraceInv' /\ Len(trace') = Len(trace) + 1 /\ trace'[Len(trace) + 1] = x
<1>1. trace \in Seq(Block) /\ Len(trace) \in Nat /\ Len(trace) >= 1 /\ nr \in Nat
  BY LenProperties DEF TraceInv, CallInv
<1>2. /\ trace' \in Seq(Block) /\ Len(trace') = Len(trace) + 1
      /\ trace'[Len(trace) + 1] = x
      /\ \A n \in 1 .. Len(trace) : trace'[n] = trace[n]
  BY <1>1
<1>3. ASSUME NEW n \in 1 .. Len(trace') - 1
      PROVE  trace'[n + 1] = NextState(n)'
  <2>1. n \in 1 .. Len(trace) /\ trace'[n] = trace[n]
    BY <1>1, <1>2
  <2>2. NextState(n)' = NextState(n)
    BY <2>1 DEF NextState
  <2>3. CASE n = Len(trace)
    BY <1>2, <2>2, <2>3
  <2>4. CASE n # Len(trace)
    <3>1. n \in 1 .. Len(trace) - 1 /\ n + 1 \in 1 .. Len(trace)
      BY <1>1, <2>1, <2>4
    <3> QED BY <1>2, <2>2, <3>1 DEF TraceInv
  <2> QED BY <2>3, <2>4
<1>4. trace'[1] = XorBlock(plaintext', keys'[0])
  <2>1. 1 \in 1 .. Len(trace)
    BY <1>1
  <2> QED BY <1>2, <2>1 DEF TraceInv
<1>5. Len(trace') >= 1 /\ Len(trace') <= nr' + 1
  BY <1>1, <1>2
<1> QED BY <1>2, <1>3, <1>4, <1>5 DEF TraceInv

-----------------------------------------------------------------------------
(* A step that does a round of the loop.                                   *)
LEMMA Advance ==
  ASSUME IInv, InProgress, InProgress', pc' \in Places, LoopInv',
         UNCHANGED <<nr, keys, plaintext, impl, rounds, phase, ct, pt>>,
         NEW d \in Nat, d = Done, d + 1 < nr, Done' = d + 1,
         NEW x, x = TableRound(Held, RoundKeys[d + 1]), Held' = x,
         s' \in {s, x}, t' \in {t, x}, trace' = Traced(x)
  PROVE  IInv'
<1>1. CallInv /\ TraceInv /\ LocalsInv /\ HeldInv /\ OutputInv
  BY DEF IInv
<1>2. nr \in Nat /\ Len(trace) \in Nat
  BY <1>1, LenProperties DEF CallInv, TraceInv
<1>3. IF Encrypting THEN Len(trace) = d + 1 /\ Held = trace[d + 1]
                    ELSE Len(trace) = nr + 1 /\ Held = Unmixed(trace[nr - d])
  BY <1>1 DEF HeldInv, OutputInv
<1>4. /\ Held \in Block /\ x \in Block
      /\ Encrypting => x = NextState(d + 1)
      /\ ~Encrypting => x = Unmixed(trace[nr - (d + 1)])
  <2> DEFINE h == Held
  <2>1. /\ IF Encrypting THEN Len(trace) = d + 1 /\ h = trace[d + 1]
                         ELSE Len(trace) = nr + 1 /\ h = Unmixed(trace[nr - d])
        /\ x = TableRound(h, RoundKeys[d + 1])
    BY <1>3
  <2> HIDE DEF h
  <2>2. /\ h \in Block /\ x \in Block
        /\ Encrypting => x = NextState(d + 1)
        /\ ~Encrypting => x = Unmixed(trace[nr - (d + 1)])
    BY <1>1, <2>1, RoundResult
  <2> QED BY <2>2 DEF h
<1>5. CallInv'
  BY <1>1 DEF CallInv
<1>6. LocalsInv'
  BY <1>1, <1>4 DEF LocalsInv
<1>7. Encrypting' = Encrypting
  BY DEF Encrypting
<1>8. pc \notin {"load", "returned"} /\ pc' \notin {"load", "returned"}
  BY DEF InProgress
<1>9. CASE Encrypting
  <2>1. Len(trace) <= nr /\ d + 1 = Len(trace)
    BY <1>2, <1>3, <1>9
  <2>2. x = NextState(Len(trace)) /\ trace' = Append(trace, x)
    BY <1>4, <1>9, <2>1 DEF Traced
  <2>3. TraceInv' /\ Len(trace') = Len(trace) + 1 /\ trace'[Len(trace) + 1] = x
    BY <1>1, <1>4, <2>1, <2>2, TraceGrows
  <2>4. Len(trace') = Done' + 1 /\ trace'[Done' + 1] = x
    BY <2>1, <2>3
  <2>5. HeldInv'
    BY <1>7, <1>9, <2>4 DEF HeldInv
  <2>6. OutputInv'
    BY <1>1, <1>7, <1>8, <1>9 DEF OutputInv
  <2>7. RoundTrip'
    BY <1>8 DEF RoundTrip
  <2> QED BY <1>5, <1>6, <2>3, <2>5, <2>6, <2>7 DEF IInv
<1>10. CASE ~Encrypting
  <2>1. trace' = trace
    BY <1>10 DEF Traced
  <2>2. TraceInv'
    BY <1>1, <2>1 DEF TraceInv, NextState
  <2>3. Held' = Unmixed(trace'[nr' - Done'])
    BY <1>4, <1>10, <2>1
  <2>4. HeldInv'
    BY <1>7, <1>10, <2>3 DEF HeldInv
  <2>5. OutputInv'
    BY <1>1, <1>7, <1>10, <2>1 DEF OutputInv
  <2>6. RoundTrip'
    BY <1>8 DEF RoundTrip
  <2> QED BY <1>5, <1>6, <2>2, <2>4, <2>5, <2>6 DEF IInv
<1> QED BY <1>9, <1>10

(* The rolled loop.                                                        *)
LEMMA RolledTInv ==
  ASSUME IInv, RolledT
  PROVE  IInv'
<1> DEFINE d == rk
           x == TableRound(s, RoundKeys[rk + 1])
<1>1. /\ pc = "toT" /\ t' = x /\ rk' = rk + 2 /\ r' = r - 1
      /\ pc' = (IF r' = 0 THEN "last" ELSE "toS")
      /\ trace' = Traced(x)
      /\ UNCHANGED <<nr, keys, plaintext, impl, rounds, phase, s, ct, pt>>
  BY DEF RolledT, call
<1>2. impl = "rolled" /\ r >= 1 /\ rk = nr - 2 * r /\ rk \in 0 .. nr /\ r \in -1 .. nr
      /\ nr \in {10, 12, 14}
  BY <1>1 DEF IInv, LoopInv, CallInv
<1>3. nr \in Nat /\ r \in Nat /\ d \in Nat /\ d + 1 < nr /\ rk \in Nat
  BY <1>2
<1>4. Held = s /\ Done = d
  <2>1. Done = nr - 2 * r - (IF r = 0 THEN 1 ELSE 0)
    BY <1>1, <1>2 DEF Done
  <2>2. Done = nr - 2 * r
    BY <1>2, <1>3, <2>1
  <2> QED BY <1>1, <1>2, <2>2 DEF Held
<1>5. Held' = x /\ pc' \in {"last", "toS"}
  BY <1>1 DEF Held
<1>6. Done' = d + 1
  <2>1. CASE r' = 0
    <3>1. Done' = nr - 2 * r' - 1
      BY <1>1, <1>2, <2>1 DEF Done
    <3> QED BY <1>1, <1>2, <1>3, <3>1
  <2>2. CASE r' # 0
    <3>1. Done' = nr - 2 * r' - 1
      BY <1>1, <2>2 DEF Done
    <3> QED BY <1>1, <1>2, <1>3, <3>1
  <2> QED BY <2>1, <2>2
<1>7. LoopInv'
  <2>1. rk' \in 0 .. nr /\ r' \in -1 .. nr /\ r' >= 0 /\ rk' = nr - 2 * r' /\ rk' >= 2
    BY <1>1, <1>2, <1>3
  <2>2. CASE r' = 0
    <3>1. rk' = nr
      BY <2>1, <2>2, <1>3
    <3> QED BY <1>1, <1>2, <2>1, <2>2, <3>1 DEF LoopInv
  <2>3. CASE r' # 0
    <3>1. r' >= 1
      BY <2>1, <2>3
    <3> QED BY <1>1, <1>2, <2>1, <2>3, <3>1 DEF LoopInv
  <2> QED BY <2>2, <2>3
<1>8. InProgress /\ InProgress' /\ pc' \in Places
  BY <1>1, <1>5 DEF InProgress, Places
<1>9. x = TableRound(Held, RoundKeys[d + 1])
  BY <1>4
<1> HIDE DEF x, d
<1> QED BY <1>1, <1>3, <1>4, <1>5, <1>6, <1>7, <1>8, <1>9, Advance

LEMMA RolledSInv ==
  ASSUME IInv, RolledS
  PROVE  IInv'
<1> DEFINE d == rk - 1
           x == TableRound(t, RoundKeys[rk])
<1>1. /\ pc = "toS" /\ s' = x /\ pc' = "toT"
      /\ trace' = Traced(x)
      /\ UNCHANGED <<nr, keys, plaintext, impl, rounds, phase, rk, r, t, ct, pt>>
  BY DEF RolledS, call
<1>2. impl = "rolled" /\ r >= 1 /\ rk = nr - 2 * r /\ rk >= 2 /\ rk \in 0 .. nr /\ r \in -1 .. nr
      /\ nr \in {10, 12, 14}
  BY <1>1 DEF IInv, LoopInv, CallInv
<1>3. nr \in Nat /\ r \in Nat /\ d \in Nat /\ d + 1 < nr /\ d + 1 = rk /\ rk \in Nat /\ r # 0
  BY <1>2
<1>4. Held = t /\ Done = d
  <2>1. Done = nr - 2 * r - 1
    BY <1>1 DEF Done
  <2>2. Done = d
    BY <1>2, <1>3, <2>1
  <2> QED BY <1>1, <2>2 DEF Held
<1>5. Held' = x
  BY <1>1 DEF Held
<1>6. Done' = d + 1
  <2>1. Done' = nr' - 2 * r' - (IF r' = 0 THEN 1 ELSE 0)
    BY <1>1, <1>2 DEF Done
  <2>2. nr' = nr /\ r' = r
    BY <1>1
  <2>3. Done' = nr - 2 * r
    BY <1>3, <2>1, <2>2
  <2> QED BY <1>2, <1>3, <2>3
<1>7. LoopInv'
  BY <1>1, <1>2 DEF LoopInv
<1>8. InProgress /\ InProgress' /\ pc' \in Places
  BY <1>1 DEF InProgress, Places
<1>9. x = TableRound(Held, RoundKeys[d + 1])
  BY <1>3, <1>4
<1> HIDE DEF x, d
<1> QED BY <1>1, <1>3, <1>4, <1>5, <1>6, <1>7, <1>8, <1>9, Advance

(* The straight code: the last of the odd rounds is the last before the    *)
(* final one, for each of the three numbers of rounds.                     *)
LEMMA UnrolledInv ==
  ASSUME IInv, Unrolled
  PROVE  IInv'
<1> DEFINE d == r
           h == IF r % 2 = 0 THEN s ELSE t
           x == TableRound(h, RoundKeys[r + 1])
<1>1. /\ pc = "straight" /\ r' = r + 1
      /\ r % 2 = 0 => t' = x /\ s' = s
      /\ r % 2 # 0 => s' = x /\ t' = t
      /\ IF (r' = 9 /\ ~(nr > 10)) \/ (r' = 11 /\ ~(nr > 12)) \/ r' = 13
         THEN pc' = "last" /\ rk' = rk + nr
         ELSE pc' = pc /\ rk' = rk
      /\ trace' = Traced(x)
      /\ UNCHANGED <<nr, keys, plaintext, impl, rounds, phase, ct, pt>>
  BY DEF Unrolled, call
<1>2. impl = "unrolled" /\ r >= 0 /\ r <= nr - 2 /\ rk = 0 /\ r \in -1 .. nr
      /\ nr \in {10, 12, 14}
  BY <1>1 DEF IInv, LoopInv, CallInv
<1>3. nr \in Nat /\ r \in Nat /\ d \in Nat /\ d + 1 < nr
  BY <1>2
<1>4. r % 2 = 0 \/ r % 2 = 1
  BY <1>3
<1>5. Held = h /\ Done = d
  BY <1>1, <1>2, <1>4 DEF Held, Done
<1>6. \/ pc' = "last" /\ rk' = nr /\ r' = nr - 1 /\ r' % 2 = 1
      \/ pc' = "straight" /\ rk' = 0 /\ r' <= nr - 2
  BY <1>1, <1>2, <1>3
<1>7. (r % 2 = 0 => r' % 2 = 1) /\ (r % 2 = 1 => r' % 2 = 0)
  BY <1>1, <1>3
<1>8. Held' = x
  <2>1. CASE r % 2 = 0
    BY <1>1, <1>6, <1>7, <2>1 DEF Held
  <2>2. CASE r % 2 = 1
    <3>1. s' = x /\ r' % 2 = 0 /\ pc' = "straight"
      BY <1>1, <1>6, <1>7, <2>2
    <3> HIDE DEF x
    <3> QED BY <3>1 DEF Held
  <2> QED BY <1>4, <2>1, <2>2
<1>9. Done' = d + 1
  <2>1. Done' = r'
    BY <1>1, <1>2, <1>6 DEF Done
  <2> QED BY <1>1, <2>1
<1>10. LoopInv'
  <2>1. r' >= 0 /\ r' \in -1 .. nr /\ 0 \in 0 .. nr /\ nr \in 0 .. nr
    BY <1>1, <1>2, <1>3
  <2> QED BY <1>1, <1>2, <1>6, <2>1 DEF LoopInv
<1>11. InProgress /\ InProgress' /\ pc' \in Places
  BY <1>1, <1>6 DEF InProgress, Places
<1>12. x = TableRound(Held, RoundKeys[d + 1]) /\ s' \in {s, x} /\ t' \in {t, x}
  BY <1>1, <1>4, <1>5
<1> HIDE DEF x, d
<1> QED BY <1>1, <1>3, <1>5, <1>8, <1>9, <1>10, <1>11, <1>12, Advance

LEMMA KatRoundInv ==
  ASSUME IInv, KatRound
  PROVE  IInv'
<1> DEFINE d == rk - 1
           x == TableRound(s, RoundKeys[rk])
<1>1. /\ pc = "loop" /\ r > 0 /\ t' = x /\ s' = x
      /\ rk' = rk + 1 /\ r' = r - 1
      /\ trace' = Traced(x)
      /\ UNCHANGED <<nr, keys, plaintext, impl, rounds, phase, pc, ct, pt>>
  BY DEF KatRound, call
<1>2. /\ impl = "kat" /\ rk >= 1 /\ rk + r = KatLoops + 1 /\ rk \in 0 .. nr /\ r \in -1 .. nr
      /\ nr \in {10, 12, 14} /\ rounds \in 0 .. nr
  BY <1>1 DEF IInv, LoopInv, CallInv
<1>3. nr \in Nat /\ rk \in Nat /\ r \in Nat /\ rounds \in Nat /\ rounds <= nr
  BY <1>1, <1>2
<1>4. KatLoops <= nr - 1 /\ KatLoops \in Int
  BY <1>3 DEF KatLoops
<1>5. d \in Nat /\ d + 1 = rk /\ rk < nr
  BY <1>1, <1>2, <1>3, <1>4
<1>6. Held = s /\ Done = d /\ Held' = x /\ Done' = d + 1
  <2>1. Done' = rk' - 1
    BY <1>1 DEF Done
  <2> QED BY <1>1, <1>3, <2>1 DEF Held, Done
<1>7. LoopInv'
  <2>1. rk' = rk + 1 /\ r' = r - 1 /\ r > 0 /\ nr' = nr
    BY <1>1
  <2>2. r <= nr /\ rk >= 1 /\ rk < nr
    BY <1>2, <1>3, <1>5
  <2>3. rk' \in 0 .. nr /\ rk' >= 1
    BY <1>3, <2>1, <2>2
  <2>4. r' \in -1 .. nr /\ r' >= 0
    BY <1>3, <2>1, <2>2
  <2>5. rk' + r' = rk + r
    BY <1>3, <2>1
  <2>6. KatLoops' = KatLoops
    BY <1>1 DEF KatLoops, Encrypting
  <2>7. pc' = "loop" /\ impl' = "kat" /\ rk' + r' = KatLoops' + 1
    BY <1>1, <1>2, <2>5, <2>6
  <2> QED BY <2>1, <2>3, <2>4, <2>7 DEF LoopInv
<1>8. InProgress /\ InProgress' /\ pc' \in Places
  BY <1>1 DEF InProgress, Places
<1>9. x = TableRound(Held, RoundKeys[d + 1])
  BY <1>5, <1>6
<1> HIDE DEF x, d
<1> QED BY <1>1, <1>5, <1>6, <1>7, <1>8, <1>9, Advance

LEMMA AesniRoundInv ==
  ASSUME IInv, AesniRound
  PROVE  IInv'
<1> DEFINE d == rk - 1
           x == TableRound(t, RoundKeys[rk])
<1>1. /\ pc = "do" /\ t' = InstructionRound(t, RoundKeys[rk])
      /\ rk' = rk + 1 /\ pc' = (IF rk' < nr THEN "do" ELSE "enclast")
      /\ trace' = Traced(t')
      /\ UNCHANGED <<nr, keys, plaintext, impl, rounds, phase, r, s, ct, pt>>
  BY DEF AesniRound, call
<1>2. impl = "aesni" /\ rk >= 1 /\ rk < nr /\ rk \in 0 .. nr /\ r \in -1 .. nr
      /\ nr \in {10, 12, 14}
  BY <1>1 DEF IInv, LoopInv, CallInv
<1>3. d \in Nat /\ d + 1 = rk /\ rk \in Nat /\ nr \in Nat
  BY <1>2
<1>4. Held = t /\ Done = d
  BY <1>1 DEF Held, Done
<1>5. t \in Block
  <2>1. CallInv /\ TraceInv
    BY DEF IInv
  <2>2. IF Encrypting THEN Len(trace) = d + 1 /\ t = trace[d + 1]
                      ELSE Len(trace) = nr + 1 /\ t = Unmixed(trace[nr - d])
    BY <1>1, <1>4 DEF IInv, HeldInv, OutputInv, InProgress
  <2>3. d < nr
    BY <1>2, <1>3
  <2> QED BY <1>3, <2>1, <2>2, <2>3, LastBytes
<1>6. t' = x
  BY <1>1, <1>5, InstructionRoundIs
<1>7. /\ pc' \in {"do", "enclast"} /\ rk' >= 1 /\ rk' \in 0 .. nr
      /\ pc' = "do" => rk' < nr
      /\ pc' = "enclast" => rk' = nr
  BY <1>1, <1>2, <1>3
<1>8. Held' = x /\ Done' = d + 1
  <2>1. Done' = rk' - 1
    BY <1>7 DEF Done
  <2> QED BY <1>1, <1>3, <1>6, <1>7, <2>1 DEF Held
<1>9. LoopInv'
  BY <1>1, <1>2, <1>7 DEF LoopInv
<1>10. InProgress /\ InProgress' /\ pc' \in Places
  BY <1>1, <1>7 DEF InProgress, Places
<1>11. x = TableRound(Held, RoundKeys[d + 1]) /\ trace' = Traced(x)
  BY <1>1, <1>3, <1>4, <1>6
<1> HIDE DEF x, d
<1> QED BY <1>1, <1>2, <1>3, <1>4, <1>6, <1>8, <1>9, <1>10, <1>11, Advance

(* Reading the block and adding the first round key: of an encryption the  *)
(* state after no rounds, of a decryption the last round without its key.  *)
LEMMA LoadInv ==
  ASSUME IInv, Load
  PROVE  IInv'
<1> DEFINE x == XorBlock(Input, RoundKeys[0])
<1>1. /\ pc = "load"
      /\ IF impl = "aesni" THEN t' = x /\ s' = s ELSE s' = x /\ t' = t
      /\ \/ impl = "rolled" /\ rk' = 0 /\ r' = Pairs(nr) /\ pc' = "toT"
         \/ impl = "unrolled" /\ rk' = 0 /\ r' = 0 /\ pc' = "straight"
         \/ impl = "kat" /\ rk' = 1 /\ r' = KatLoops /\ pc' = "loop"
         \/ impl = "aesni" /\ rk' = 1 /\ r' = 0 /\ pc' = "do"
      /\ UNCHANGED <<nr, keys, plaintext, impl, rounds, phase, ct, pt, trace>>
  BY DEF Load, call
<1>2. CallInv /\ TraceInv /\ LocalsInv /\ OutputInv
  BY DEF IInv
<1>3. /\ nr \in {10, 12, 14} /\ nr \in Nat /\ 0 \in 0 .. nr /\ nr \in 0 .. nr /\ nr # 0
      /\ rounds \in 0 .. nr /\ 1 \in 0 .. nr
  BY <1>2 DEF CallInv
<1>4. Pairs(nr) \in Nat /\ nr = 2 * Pairs(nr) /\ Pairs(nr) >= 1 /\ Pairs(nr) \in -1 .. nr
  BY <1>3 DEF Pairs
<1>5. KatLoops \in -1 .. nr
  BY <1>3 DEF KatLoops
<1>6. keys[0] \in Block /\ keys[nr] \in Block
  BY <1>2, <1>3, RoundKeyBlocks
<1>7. Encrypting => Len(trace) = 1 /\ x = trace[1] /\ x \in Block
  <2>1. Encrypting => RoundKeys[0] = keys[0]
    BY <1>2, <1>3, RoundKeyBlocks
  <2>2. plaintext \in Block
    BY <1>2, PlaintextsAssumption DEF CallInv
  <2> QED BY <1>1, <1>2, <1>6, <2>1, <2>2, XorBlockLaws DEF OutputInv, TraceInv, Input
<1>8. ~Encrypting => Len(trace) = nr + 1 /\ x = Unmixed(trace[nr]) /\ x \in Block
  <2> SUFFICES ASSUME ~Encrypting
               PROVE  Len(trace) = nr + 1 /\ x = Unmixed(trace[nr]) /\ x \in Block
    OBVIOUS
  <2>1. Len(trace) = nr + 1 /\ ct = trace[nr + 1]
    BY <1>2 DEF OutputInv
  <2>2. nr \in 1 .. Len(trace) - 1 /\ nr \in 1 .. Len(trace)
    BY <1>3, <2>1
  <2>3. trace[nr] \in Block /\ Unmixed(trace[nr]) \in Block
    BY <1>2, <2>2, TraceBlocks, UnmixedBytes
  <2>4. trace[nr + 1] = NextState(nr)
    BY <1>2, <2>2 DEF TraceInv
  <2>5. NextState(nr) = XorBlock(Unmixed(trace[nr]), keys[nr])
    BY <1>3 DEF NextState, LastRound
  <2>6. RoundKeys[0] = keys[nr]
    <3>1. nr - 0 = nr
      BY <1>3
    <3> QED BY <1>2, <1>3, <3>1, RoundKeyBlocks
  <2>7. x = XorBlock(XorBlock(Unmixed(trace[nr]), keys[nr]), keys[nr])
    BY <2>1, <2>4, <2>5, <2>6 DEF Input
  <2>8. x = Unmixed(trace[nr])
    BY <1>6, <2>3, <2>7, XorBlockLaws
  <2> QED BY <2>1, <2>3, <2>8
<1>9. x \in Block
  BY <1>7, <1>8
<1> HIDE DEF x
<1>10. Held' = x /\ Done' = 0
  <2>1. CASE impl = "rolled"
    <3>1. rk' = 0 /\ r' = Pairs(nr) /\ pc' = "toT" /\ s' = x /\ impl' = "rolled" /\ nr' = nr
      BY <1>1, <2>1
    <3>2. Done' = nr' - 2 * r' - (IF r' = 0 THEN 1 ELSE 0)
      BY <3>1 DEF Done
    <3>3. Done' = nr - 2 * Pairs(nr)
      BY <1>4, <3>1, <3>2
    <3>4. Done' = 0
      BY <1>4, <3>3
    <3> QED BY <3>1, <3>4 DEF Held
  <2>2. CASE impl = "unrolled"
    <3>1. r' = 0 /\ pc' = "straight" /\ s' = x /\ impl' = "unrolled"
      BY <1>1, <2>2
    <3>2. r' % 2 # 1
      BY <3>1
    <3> QED BY <3>1, <3>2 DEF Held, Done
  <2>3. CASE impl = "kat"
    <3>1. rk' = 1 /\ pc' = "loop" /\ s' = x
      BY <1>1, <2>3
    <3>2. Done' = rk' - 1
      BY <3>1 DEF Done
    <3> QED BY <3>1, <3>2 DEF Held
  <2>4. CASE impl = "aesni"
    <3>1. rk' = 1 /\ pc' = "do" /\ t' = x
      BY <1>1, <2>4
    <3>2. Done' = rk' - 1
      BY <3>1 DEF Done
    <3> QED BY <3>1, <3>2 DEF Held
  <2> QED BY <1>1, <2>1, <2>2, <2>3, <2>4
<1>11. /\ rk' \in 0 .. nr /\ r' \in -1 .. nr
       /\ pc' \in Places \ {"load", "returned"}
  <2>1. rk' \in {0, 1} /\ r' \in {Pairs(nr), 0, KatLoops}
        /\ pc' \in {"toT", "straight", "loop", "do"}
    BY <1>1
  <2>2. 0 \in -1 .. nr
    BY <1>3
  <2> QED BY <1>3, <1>4, <1>5, <2>1, <2>2 DEF Places
<1>12. LoopInv'
  <2>1. pc' = "toT" => impl' = "rolled" /\ r' >= 1 /\ rk' = nr - 2 * r'
    <3>1. pc' = "toT" => impl' = "rolled" /\ r' = Pairs(nr) /\ rk' = 0
      BY <1>1
    <3> QED BY <1>4, <3>1
  <2>2. pc' = "straight" => impl' = "unrolled" /\ r' >= 0 /\ r' <= nr - 2 /\ rk' = 0
    <3>1. pc' = "straight" => impl' = "unrolled" /\ r' = 0 /\ rk' = 0
      BY <1>1
    <3> QED BY <1>3, <3>1
  <2>3. pc' = "loop" => impl' = "kat" /\ rk' = 1 /\ rk' >= 1 /\ rk' + r' = KatLoops' + 1
    <3>1. KatLoops' = KatLoops
      BY <1>1 DEF KatLoops, Encrypting
    <3>2. pc' = "loop" => impl' = "kat" /\ rk' = 1 /\ r' = KatLoops
      BY <1>1
    <3> QED BY <1>5, <3>1, <3>2
  <2>4. pc' = "do" => impl' = "aesni" /\ rk' >= 1 /\ rk' < nr
    <3>1. pc' = "do" => impl' = "aesni" /\ rk' = 1
      BY <1>1
    <3> QED BY <1>3, <3>1
  <2>5. pc' \notin {"toS", "last", "enclast"} /\ nr' = nr
    BY <1>1
  <2> QED BY <1>11, <2>1, <2>2, <2>3, <2>4, <2>5 DEF LoopInv
<1>13. Encrypting' = Encrypting /\ pc' \notin {"load", "returned"} /\ pc' \in Places
  BY <1>11 , <1>1 DEF Encrypting
<1>14. CallInv' /\ TraceInv'
  BY <1>1, <1>2, <1>13 DEF CallInv, TraceInv, NextState
<1>15. LocalsInv'
  BY <1>1, <1>2, <1>9 DEF LocalsInv
<1>16. HeldInv'
  <2>1. Encrypting => Len(trace) = 0 + 1 /\ x = trace[0 + 1]
    BY <1>7
  <2>2. ~Encrypting => x = Unmixed(trace[nr - 0])
    <3>1. nr - 0 = nr
      BY <1>3
    <3> QED BY <1>8, <3>1
  <2> QED BY <1>1, <1>10, <1>13, <2>1, <2>2 DEF HeldInv
<1>17. OutputInv'
  BY <1>1, <1>2, <1>13 DEF OutputInv
<1>18. RoundTrip'
  BY <1>13 DEF RoundTrip
<1> QED BY <1>12, <1>14, <1>15, <1>16, <1>17, <1>18 DEF IInv

(* A function stores its result: of an encryption the last state of the    *)
(* trace, of a decryption what RoundTrip says.                             *)
LEMMA Returned ==
  ASSUME IInv, InProgress, NEW x \in Block, Return(x), TraceInv',
         Encrypting => Len(trace') = rounds + 1 /\ x = trace'[Len(trace')],
         ~Encrypting => trace' = trace /\ x = CASE rounds = nr -> plaintext
                                                [] rounds = 0 -> trace[nr]
                                                [] OTHER -> trace[nr - rounds + 1]
  PROVE  IInv'
<1>1. CallInv /\ LoopInv /\ LocalsInv /\ OutputInv
  BY DEF IInv
<1>2. /\ IF Encrypting THEN ct' = x /\ pt' = pt ELSE pt' = x /\ ct' = ct
      /\ pc' = "returned"
      /\ UNCHANGED <<nr, keys, plaintext, impl, rounds, phase, rk, r, s, t>>
  BY DEF Return, call
<1>3. CallInv'
  BY <1>1, <1>2 DEF CallInv, Places
<1>4. LoopInv'
  BY <1>1, <1>2 DEF LoopInv
<1>5. LocalsInv'
  BY <1>1, <1>2 DEF LocalsInv
<1>6. HeldInv'
  BY <1>2 DEF HeldInv, InProgress
<1>7. Encrypting' = Encrypting
  BY <1>2 DEF Encrypting
<1>8. OutputInv'
  <2>1. CASE Encrypting
    BY <1>2, <1>7, <2>1 DEF OutputInv
  <2>2. CASE ~Encrypting
    BY <1>1, <1>2, <1>7, <2>2 DEF OutputInv
  <2> QED BY <2>1, <2>2
<1>9. RoundTrip'
  <2>1. CASE Encrypting
    BY <1>7, <2>1 DEF RoundTrip
  <2>2. CASE ~Encrypting
    BY <1>2, <2>2 DEF RoundTrip
  <2> QED BY <2>1, <2>2
<1> QED BY <1>3, <1>4, <1>5, <1>6, <1>8, <1>9 DEF IInv

LEMMA ReturnsWhole ==
  ASSUME IInv, InProgress, NEW d \in Nat, d = Done, d + 1 = nr, rounds = nr,
         NEW x, x = XorBlock(TableLast(Held), RoundKeys[nr]),
         Return(x), trace' = Traced(x)
  PROVE  IInv'
<1>1. CallInv /\ TraceInv /\ HeldInv /\ OutputInv
  BY DEF IInv
<1>2. nr \in Nat /\ nr # 0 /\ Len(trace) \in Nat
  BY <1>1, LenProperties DEF CallInv, TraceInv
<1>3. IF Encrypting THEN Len(trace) = d + 1 /\ Held = trace[d + 1]
                    ELSE Len(trace) = nr + 1 /\ Held = Unmixed(trace[nr - d])
  BY <1>1 DEF HeldInv, OutputInv
<1>4. /\ x \in Block
      /\ Encrypting => x = NextState(nr)
      /\ ~Encrypting => x = plaintext
  <2> DEFINE h == Held
  <2>1. /\ IF Encrypting THEN Len(trace) = d + 1 /\ h = trace[d + 1]
                         ELSE Len(trace) = nr + 1 /\ h = Unmixed(trace[nr - d])
        /\ x = XorBlock(TableLast(h), RoundKeys[nr])
    BY <1>3
  <2> HIDE DEF h
  <2> QED BY <1>1, <2>1, LastResult
<1>5. UNCHANGED <<nr, keys, plaintext>>
  BY DEF Return, call
<1>6. CASE Encrypting
  <2>1. Len(trace) = nr /\ Len(trace) <= nr
    BY <1>2, <1>3, <1>6
  <2>2. x = NextState(Len(trace)) /\ trace' = Append(trace, x)
    BY <1>4, <1>6, <2>1 DEF Traced
  <2>3. TraceInv' /\ Len(trace') = Len(trace) + 1 /\ trace'[Len(trace) + 1] = x
    BY <1>1, <1>4, <1>5, <2>1, <2>2, TraceGrows
  <2> QED BY <1>4, <1>6, <2>1, <2>3, Returned
<1>7. CASE ~Encrypting
  <2>1. trace' = trace
    BY <1>7 DEF Traced
  <2>2. TraceInv'
    BY <1>1, <1>5, <2>1 DEF TraceInv, NextState
  <2> QED BY <1>2, <1>4, <1>7, <2>1, <2>2, Returned
<1> QED BY <1>6, <1>7

LEMMA LastInv ==
  ASSUME IInv, Last
  PROVE  IInv'
<1> DEFINE d == nr - 1
           x == XorBlock(TableLast(t), RoundKeys[rk])
<1>1. pc = "last" /\ Return(x) /\ trace' = Traced(x)
  BY DEF Last
<1>2. /\ rk = nr /\ nr \in {10, 12, 14} /\ rounds = nr
      /\ (impl = "rolled" /\ r = 0) \/ (impl = "unrolled" /\ r = nr - 1)
  <2>1. rk = nr /\ ((impl = "rolled" /\ r = 0) \/ (impl = "unrolled" /\ r = nr - 1))
    BY <1>1 DEF IInv, LoopInv
  <2>2. nr \in {10, 12, 14} /\ (impl # "kat" => rounds = nr)
    BY DEF IInv, CallInv
  <2> QED BY <2>1, <2>2
<1>3. d \in Nat /\ d + 1 = nr /\ nr \in Nat
  BY <1>2
<1>4. Held = t /\ InProgress
  BY <1>1 DEF Held, InProgress
<1>5. Done = d
  <2>1. CASE impl = "rolled" /\ r = 0
    BY <1>1, <1>3, <2>1 DEF Done
  <2>2. CASE impl = "unrolled" /\ r = nr - 1
    BY <1>1, <1>3, <2>2 DEF Done
  <2> QED BY <1>2, <2>1, <2>2
<1>6. x = XorBlock(TableLast(Held), RoundKeys[nr])
  BY <1>2, <1>4
<1> HIDE DEF x, d
<1> QED BY <1>1, <1>2, <1>3, <1>4, <1>5, <1>6, ReturnsWhole

LEMMA AesniLastInv ==
  ASSUME IInv, AesniLast
  PROVE  IInv'
<1> DEFINE d == nr - 1
           x == InstructionLast(t, RoundKeys[rk])
<1>1. pc = "enclast" /\ Return(x) /\ trace' = Traced(x)
  BY DEF AesniLast
<1>2. rk = nr /\ nr \in {10, 12, 14} /\ rounds = nr /\ impl = "aesni"
  BY <1>1 DEF IInv, LoopInv, CallInv
<1>3. d \in Nat /\ d + 1 = nr /\ nr \in Nat /\ d < nr
  BY <1>2
<1>4. Held = t /\ InProgress /\ Done = rk - 1
  BY <1>1 DEF Held, InProgress, Done
<1>5. t \in Block
  <2>1. CallInv /\ TraceInv
    BY DEF IInv
  <2>2. IF Encrypting THEN Len(trace) = d + 1 /\ t = trace[d + 1]
                      ELSE Len(trace) = nr + 1 /\ t = Unmixed(trace[nr - d])
    BY <1>2, <1>4 DEF IInv, HeldInv, OutputInv
  <2> QED BY <1>3, <2>1, <2>2, LastBytes
<1>6. x = XorBlock(TableLast(Held), RoundKeys[nr])
  BY <1>2, <1>4, <1>5, InstructionBytes DEF InstructionLast
<1>7. Done = d
  BY <1>2, <1>4
<1> HIDE DEF x, d
<1> QED BY <1>1, <1>2, <1>3, <1>4, <1>6, <1>7, ReturnsWhole

(* The last round of the kat functions, or what they do instead of it when *)
(* they stop before.                                                       *)
LEMMA KatLastInv ==
  ASSUME IInv, KatLast
  PROVE  IInv'
<1> DEFINE y == TableLast(s)
           z == XorBlock(TableLast(s), RoundKeys[nr])
           d == rk - 1
<1>1. /\ pc = "loop" /\ r <= 0
      /\ CallInv /\ TraceInv /\ LocalsInv /\ HeldInv /\ OutputInv
  BY DEF KatLast, IInv
<1>2. /\ impl = "kat" /\ rk >= 1 /\ rk + r = KatLoops + 1 /\ (r >= 0 \/ rk = 1)
      /\ rk \in 0 .. nr /\ r \in -1 .. nr
  BY <1>1 DEF IInv, LoopInv
<1>3. nr \in {10, 12, 14} /\ rounds \in 0 .. nr
  BY <1>1 DEF CallInv
<1>4. nr \in Nat /\ rounds \in Nat /\ rounds <= nr /\ rk \in Nat /\ r \in {-1, 0} /\ nr # 0
  BY <1>1, <1>2, <1>3
<1>5. Held = s /\ Done = rk - 1 /\ InProgress
  BY <1>1 DEF Held, Done, InProgress
<1>6. IF Encrypting THEN Len(trace) = rk - 1 + 1 /\ s = trace[rk - 1 + 1]
                    ELSE Len(trace) = nr + 1 /\ s = Unmixed(trace[nr - (rk - 1)])
  BY <1>1, <1>5 DEF HeldInv, OutputInv
<1>7. Len(trace) \in Nat /\ nr - (rk - 1) = nr - rk + 1 /\ d \in Nat /\ d + 1 = rk
  BY <1>1, <1>2, <1>4, LenProperties DEF TraceInv
<1>8. CASE Encrypting /\ rounds # nr
  <2>1. Return(s) /\ trace' = trace
    BY <1>8 DEF KatLast, Whole
  <2>2. rounds < nr
    BY <1>4, <1>8
  <2>3. KatLoops = rounds
    BY <1>8, <2>2 DEF KatLoops
  <2>4. rk = rounds + 1
    BY <1>2, <1>4, <2>2, <2>3
  <2>5. Len(trace) = rounds + 1 /\ s = trace[Len(trace)] /\ Len(trace) \in 1 .. Len(trace)
    BY <1>4, <1>6, <1>8, <2>4
  <2>6. s \in Block
    BY <1>1, <2>5, TraceBlocks
  <2>7. TraceInv'
    <3>1. UNCHANGED <<nr, keys, plaintext>>
      BY <2>1 DEF Return, call
    <3> QED BY <1>1, <2>1, <3>1 DEF TraceInv, NextState
  <2> QED BY <1>5, <1>8, <2>1, <2>5, <2>6, <2>7, Returned
<1>9. CASE rounds = nr
  <2>1. KatLoops = nr - 1
    BY <1>4, <1>9 DEF KatLoops
  <2>2. rk = nr
    BY <1>2, <1>3, <1>4, <2>1
  <2>3. Return(z) /\ trace' = Traced(z)
    BY <1>9, <2>2 DEF KatLast, Whole
  <2>4. z = XorBlock(TableLast(Held), RoundKeys[nr])
    BY <1>5
  <2>5. d = Done /\ d + 1 = nr
    BY <1>5, <1>7, <2>2
  <2> HIDE DEF z, d
  <2> QED BY <1>5, <1>7, <1>9, <2>3, <2>4, <2>5, ReturnsWhole
<1>10. CASE ~Encrypting /\ rounds # nr
  <2>1. Return(y) /\ trace' = Traced(y)
    BY <1>10 DEF KatLast, Whole
  <2>2. trace' = trace
    BY <1>10, <2>1 DEF Traced
  <2>3. KatLoops = rounds - 1 /\ rounds < nr
    <3>1. rounds < nr
      BY <1>4, <1>10
    <3> QED BY <1>10, <3>1 DEF KatLoops
  <2>4. rk + r = rounds
    BY <1>2, <1>4, <2>3
  <2>5. d < nr /\ (rounds = 0 => nr - d = nr) /\ (rounds # 0 => nr - d = nr - rounds + 1)
    BY <1>2, <1>4, <2>3, <2>4
  <2>6. IF Encrypting THEN Len(trace) = d + 1 /\ s = trace[d + 1]
                      ELSE Len(trace) = nr + 1 /\ s = Unmixed(trace[nr - d])
    BY <1>6
  <2> HIDE DEF d
  <2>7. y = trace[nr - d] /\ y \in Block
    BY <1>1, <1>7, <1>10, <2>5, <2>6, LastBytes
  <2>8. TraceInv'
    <3>1. UNCHANGED <<nr, keys, plaintext>>
      BY <2>1 DEF Return, call
    <3> QED BY <1>1, <2>2, <3>1 DEF TraceInv, NextState
  <2>9. y = CASE rounds = nr -> plaintext
              [] rounds = 0 -> trace[nr]
              [] OTHER -> trace[nr - rounds + 1]
    BY <1>10, <2>5, <2>7
  <2> HIDE DEF y
  <2> QED BY <1>5, <1>10, <2>1, <2>2, <2>7, <2>8, <2>9, Returned
<1> QED BY <1>8, <1>9, <1>10

(* The caller turns to the decryption.                                     *)
LEMMA DecryptInv ==
  ASSUME IInv, Decrypt
  PROVE  IInv'
<1>1. /\ pc = "returned" /\ Encrypting /\ rounds = nr
      /\ impl' \in Impls /\ rounds' \in (IF impl' = "kat" THEN 0 .. nr ELSE {nr})
      /\ phase' = "decrypt" /\ pc' = "load"
      /\ UNCHANGED <<nr, keys, plaintext, rk, r, s, t, ct, pt, trace>>
  BY DEF Decrypt
<1>2. CallInv /\ LoopInv /\ TraceInv /\ LocalsInv /\ OutputInv
  BY DEF IInv
<1>3. CallInv'
  <2>1. nr \in 0 .. nr
    BY <1>2 DEF CallInv
  <2> QED BY <1>1, <1>2, <2>1 DEF CallInv, Places
<1>4. LoopInv'
  BY <1>1, <1>2 DEF LoopInv
<1>5. TraceInv'
  BY <1>1, <1>2 DEF TraceInv, NextState
<1>6. LocalsInv'
  BY <1>1, <1>2 DEF LocalsInv
<1>7. HeldInv' /\ RoundTrip'
  BY <1>1 DEF HeldInv, InProgress, RoundTrip
<1>8. OutputInv'
  BY <1>1, <1>2 DEF OutputInv, Encrypting
<1> QED BY <1>3, <1>4, <1>5, <1>6, <1>7, <1>8 DEF IInv

LEMMA InitIInv == Init => IInv
<1> SUFFICES ASSUME Init PROVE IInv
  OBVIOUS
<1>1. CallInv
  BY DEF Init, CallInv, Places
<1>2. LoopInv
  BY DEF Init, LoopInv
<1>3. XorBlock(plaintext, keys[0]) \in Block
  <2>1. keys[0] \in Block
    BY <1>1, SchedulesAssumption DEF CallInv
  <2>2. plaintext \in Block
    BY <1>1, PlaintextsAssumption DEF CallInv
  <2> QED BY <2>1, <2>2, XorBlockLaws
<1>4. TraceInv
  BY <1>1, <1>3 DEF Init, TraceInv, CallInv
<1>5. LocalsInv /\ HeldInv /\ RoundTrip
  BY DEF Init, LocalsInv, HeldInv, InProgress, RoundTrip
<1>6. OutputInv
  BY DEF Init, OutputInv, Encrypting
<1> QED BY <1>1, <1>2, <1>4, <1>5, <1>6 DEF IInv

LEMMA NextIInv == IInv /\ [Next]_vars => IInv'
<1> SUFFICES ASSUME IInv, [Next]_vars PROVE IInv'
  OBVIOUS
<1>1. CASE Load
  BY <1>1, LoadInv
<1>2. CASE RolledT
  BY <1>2, RolledTInv
<1>3. CASE RolledS
  BY <1>3, RolledSInv
<1>4. CASE Unrolled
  BY <1>4, UnrolledInv
<1>5. CASE Last
  BY <1>5, LastInv
<1>6. CASE KatRound
  BY <1>6, KatRoundInv
<1>7. CASE KatLast
  BY <1>7, KatLastInv
<1>8. CASE AesniRound
  BY <1>8, AesniRoundInv
<1>9. CASE AesniLast
  BY <1>9, AesniLastInv
<1>10. CASE Decrypt
  BY <1>10, DecryptInv
<1>11. CASE UNCHANGED vars
  <2>1. /\ CallInv' = CallInv /\ LocalsInv' = LocalsInv /\ TraceInv' = TraceInv
        /\ Encrypting' = Encrypting /\ InProgress' = InProgress
    BY <1>11 DEF vars, CallInv, LocalsInv, TraceInv, NextState, Encrypting, InProgress
  <2>2. KatLoops' = KatLoops /\ Held' = Held /\ Done' = Done
    BY <1>11, <2>1 DEF vars, KatLoops, Held, Done
  <2>3. LoopInv' = LoopInv
    BY <1>11, <2>2 DEF vars, LoopInv
  <2>4. HeldInv' = HeldInv /\ OutputInv' = OutputInv /\ RoundTrip' = RoundTrip
    BY <1>11, <2>1, <2>2 DEF vars, HeldInv, OutputInv, RoundTrip
  <2> QED BY <2>1, <2>3, <2>4 DEF IInv
<1> QED BY <1>1, <1>2, <1>3, <1>4, <1>5, <1>6, <1>7, <1>8, <1>9, <1>10, <1>11 DEF Next

LEMMA Inductive == Spec => []IInv
BY InitIInv, NextIInv, PTL DEF Spec

-----------------------------------------------------------------------------
(* The state between two rounds is a block: of an encryption the last of   *)
(* the trace, of a decryption one of the trace without its column mix.     *)
LEMMA HeldIsBlock ==
  ASSUME IInv, InProgress
  PROVE  Held \in Block
<1> DEFINE d == Done
           h == Held
<1>1. CallInv /\ LoopInv /\ TraceInv /\ HeldInv /\ OutputInv
  BY DEF IInv
<1>2. nr \in {10, 12, 14} /\ rounds \in 0 .. nr /\ nr \in Nat
  BY <1>1 DEF CallInv
<1>3. d \in Nat /\ d < nr
  <2>1. CASE pc = "toT"
    <3>1. impl = "rolled" /\ r >= 1 /\ rk = nr - 2 * r /\ rk \in 0 .. nr /\ r \in -1 .. nr
      BY <1>1, <2>1 DEF LoopInv
    <3>2. d = nr - 2 * r - (IF r = 0 THEN 1 ELSE 0)
      BY <2>1, <3>1 DEF Done
    <3>3. r # 0 /\ r \in Nat /\ rk \in Nat
      BY <1>2, <3>1
    <3>4. d = nr - 2 * r
      BY <1>2, <3>2, <3>3
    <3> HIDE DEF d
    <3> QED BY <1>2, <3>1, <3>3, <3>4
  <2>2. CASE pc = "toS"
    <3>1. r >= 1 /\ rk = nr - 2 * r /\ rk >= 2 /\ rk \in 0 .. nr /\ r \in -1 .. nr
      BY <1>1, <2>2 DEF LoopInv
    <3>2. d = nr - 2 * r - 1
      BY <2>2 DEF Done
    <3> HIDE DEF d
    <3> QED BY <1>2, <3>1, <3>2
  <2>3. CASE pc = "straight"
    <3>1. impl = "unrolled" /\ r >= 0 /\ r <= nr - 2 /\ r \in -1 .. nr
      BY <1>1, <2>3 DEF LoopInv
    <3>2. d = r
      BY <2>3, <3>1 DEF Done
    <3> HIDE DEF d
    <3> QED BY <1>2, <3>1, <3>2
  <2>4. CASE pc = "last"
    <3>1. CASE impl = "rolled" /\ r = 0
      <4>1. d = nr - 1
        BY <1>2, <2>4, <3>1 DEF Done
      <4> HIDE DEF d
      <4> QED BY <1>2, <4>1
    <3>2. CASE impl = "unrolled" /\ r = nr - 1
      <4>1. d = nr - 1
        BY <1>2, <2>4, <3>2 DEF Done
      <4> HIDE DEF d
      <4> QED BY <1>2, <4>1
    <3> QED BY <1>1, <2>4, <3>1, <3>2 DEF LoopInv
  <2>5. CASE pc \in {"loop", "do", "enclast"}
    <3>1. rk \in 0 .. nr /\ rk >= 1
      <4>1. CASE pc = "enclast"
        BY <1>1, <1>2, <4>1 DEF LoopInv
      <4> QED BY <1>1, <2>5, <4>1 DEF LoopInv
    <3>2. d = rk - 1
      BY <2>5 DEF Done
    <3> HIDE DEF d
    <3> QED BY <1>2, <3>1, <3>2
  <2> QED BY <1>1, <2>1, <2>2, <2>3, <2>4, <2>5 DEF CallInv, Places, InProgress
<1>4. IF Encrypting THEN Len(trace) = d + 1 /\ h = trace[d + 1]
                    ELSE Len(trace) = nr + 1 /\ h = Unmixed(trace[nr - d])
  BY <1>1 DEF HeldInv, OutputInv
<1> HIDE DEF d
<1>5. h \in Block
  <2> HIDE DEF h
  <2> QED BY <1>1, <1>3, <1>4, LastBytes
<1> QED BY <1>5 DEF h

(* Types; and every round key that is read lies in the schedule.           *)
THEOREM TypeCorrect == Spec => []TypeOK
<1>1. IInv => TypeOK
  <2> SUFFICES ASSUME IInv PROVE TypeOK
    OBVIOUS
  <2>1. CallInv /\ LoopInv /\ TraceInv /\ LocalsInv
    BY DEF IInv
  <2>2. nr \in {10, 12, 14} /\ nr \in Nat /\ rk \in 0 .. nr /\ r \in -1 .. nr
    BY <2>1 DEF CallInv, LoopInv
  <2>3. pc = "toT" => rk + 1 <= nr
    <3> SUFFICES ASSUME pc = "toT" PROVE rk + 1 <= nr
      OBVIOUS
    <3>1. r >= 1 /\ rk = nr - 2 * r
      BY <2>1 DEF LoopInv
    <3> QED BY <2>2, <3>1
  <2>4. pc = "loop" /\ r = 0 /\ rounds = nr => rk = nr
    <3> SUFFICES ASSUME pc = "loop", r = 0, rounds = nr PROVE rk = nr
      OBVIOUS
    <3>1. rk + r = KatLoops + 1
      BY <2>1 DEF LoopInv
    <3>2. KatLoops = nr - 1
      BY <2>2 DEF KatLoops
    <3> QED BY <2>2, <3>1, <3>2
  <2>5. pc \in {"last", "enclast"} \/ (pc = "loop" /\ r = 0 /\ rounds = nr) => rk = nr
    BY <2>1, <2>4 DEF LoopInv
  <2>6. InProgress => Held \in Block
    BY HeldIsBlock
  <2> QED BY <2>1, <2>2, <2>3, <2>5, <2>6
          DEF TypeOK, CallInv, TraceInv, LocalsInv, Places
<1> QED BY <1>1, Inductive, PTL

(* A decryption goes back through the states of the encryption, and the    *)
(* locals and the output of an encryption are what its trace says.         *)
THEOREM DecryptionRetraces == Spec => []DecryptRetraces
<1>1. IInv => DecryptRetraces
  <2> SUFFICES ASSUME IInv PROVE DecryptRetraces
    OBVIOUS
  <2>1. CASE Encrypting /\ pc # "returned"
    BY <2>1 DEF IInv, HeldInv, OutputInv, DecryptRetraces
  <2>2. CASE ~(Encrypting /\ pc # "returned")
    BY <2>2 DEF IInv, HeldInv, OutputInv, DecryptRetraces
  <2> QED BY <2>1, <2>2
<1> QED BY <1>1, Inductive, PTL

(* What one implementation encrypts every implementation decrypts; and a   *)
(* decryption of some rounds meets the encryption of the remaining ones.   *)
THEOREM DecryptionUndoes == Spec => []RoundTrip
<1>1. IInv => RoundTrip
  BY DEF IInv
<1> QED BY <1>1, Inductive, PTL

-----------------------------------------------------------------------------
(* The blocks of AesRounds are those of the implementations.               *)
LEMMA SameRounds ==
  ASSUME NEW x, NEW key
  PROVE  /\ Abstract!XorBlock(x, key) = XorBlock(x, key)
         /\ Abstract!FullRound(x, key) = FullRound(x, key)
         /\ Abstract!LastRound(x, key) = LastRound(x, key)
<1>1. ASSUME NEW y PROVE Abstract!XorBlock(y, key) = XorBlock(y, key)
  BY DEF Abstract!XorBlock, XorBlock, Abstract!XorWord, XorWord
<1>2. Abstract!Unmixed(x) = Unmixed(x)
  BY DEF Abstract!Unmixed, Unmixed, Abstract!ShiftRows, ShiftRows, Abstract!SubBytes, SubBytes
<1>3. ASSUME NEW y PROVE Abstract!MixColumns(y) = MixColumns(y)
  BY DEF Abstract!MixColumns, MixColumns, Abstract!Mix, Mix, Abstract!Xor4, Xor4,
         Abstract!XorWord, XorWord
<1> QED BY <1>1, <1>2, <1>3 DEF Abstract!FullRound, FullRound, Abstract!LastRound, LastRound

(* A step that records a state is a round of AesRounds, and the others are *)
(* stutters of it.                                                         *)
LEMMA TraceStep ==
  ASSUME CallInv, TraceInv, TraceInv', UNCHANGED <<nr, keys, plaintext>>,
         trace' = trace \/ \E x : trace' = Append(trace, x)
  PROVE  [Abstract!Round]_(Abstract!aesVars)
<1>1. CASE trace' = trace
  BY <1>1 DEF Abstract!aesVars
<1>2. CASE \E x : trace' = Append(trace, x)
  <2> PICK x : trace' = Append(trace, x)
    BY <1>2
  <2> PICK n : n = Len(trace)
    OBVIOUS
  <2>1. trace \in Seq(Block) /\ n \in Nat /\ n >= 1 /\ nr \in Nat
    BY LenProperties DEF TraceInv, CallInv
  <2>2. Len(trace') = n + 1 /\ trace'[n] = trace[n]
    <3>1. trace \in Seq(Block \cup {x})
      BY <2>1
    <3>2. n \in 1 .. n
      BY <2>1
    <3> QED BY <3>1, <3>2, AppendProperties
  <2>3. n \in 1 .. Len(trace') - 1 /\ n <= nr
    BY <2>1, <2>2 DEF TraceInv
  <2>4. trace'[n + 1] = NextState(n)'
    BY <2>2, <2>3 DEF TraceInv
  <2>5. NextState(n)' = IF n < nr THEN FullRound(trace[n], keys[n])
                                  ELSE LastRound(trace[n], keys[n])
    BY <2>2 DEF NextState
  <2>6. Len(trace) - 1 < nr /\ (Len(trace) - 1 < nr - 1 <=> n < nr)
        /\ Len(trace) - 1 + 1 = n /\ Len(trace') - 1 = Len(trace) - 1 + 1
    BY <2>1, <2>2, <2>3
  <2>7. trace'[Len(trace')] = IF n < nr THEN FullRound(trace[n], keys[n])
                                        ELSE LastRound(trace[n], keys[n])
    BY <2>2, <2>4, <2>5
  <2>8. Abstract!Round
    BY <2>6, <2>7, SameRounds DEF Abstract!Round
  <2> QED BY <2>8
<1> QED BY <1>1, <1>2

(* Every encryption computes the rounds of AES.                            *)
THEOREM EncryptionRefines == Spec => EncryptRefines
<1>1. Init => Abstract!Init
  <2> SUFFICES ASSUME Init PROVE Abstract!Init
    OBVIOUS
  <2>1. trace = <<XorBlock(plaintext, keys[0])>>
    BY DEF Init
  <2>2. Len(trace) = 1 /\ trace[Len(trace)] = XorBlock(plaintext, keys[0]) /\ Len(trace) - 1 = 0
    BY <2>1
  <2> QED BY <2>2, SameRounds DEF Init, Abstract!Init
<1>2. IInv /\ [Next]_vars => [Abstract!Round]_(Abstract!aesVars)
  <2> SUFFICES ASSUME IInv, [Next]_vars PROVE [Abstract!Round]_(Abstract!aesVars)
    OBVIOUS
  <2>1. CallInv /\ TraceInv
    BY DEF IInv
  <2>2. TraceInv'
    BY NextIInv DEF IInv
  <2>3. UNCHANGED <<nr, keys, plaintext>>
    BY DEF Next, Load, RolledT, RolledS, Unrolled, Last, KatRound, KatLast, AesniRound,
           AesniLast, Decrypt, Return, call, vars
  <2>4. ASSUME NEW x, trace' = Traced(x) PROVE trace' = trace \/ \E y : trace' = Append(trace, y)
    BY <2>4 DEF Traced
  <2>5. trace' = trace \/ \E x : trace' = Traced(x)
    <3>1. CASE RolledT \/ RolledS \/ Unrolled
      BY <3>1 DEF RolledT, RolledS, Unrolled
    <3>2. CASE Last \/ KatLast \/ AesniLast
      BY <3>2 DEF Last, KatLast, AesniLast
    <3>3. CASE KatRound \/ AesniRound
      BY <3>3 DEF KatRound, AesniRound
    <3>4. CASE Load \/ Decrypt \/ UNCHANGED vars
      BY <3>4 DEF Load, Decrypt, vars
    <3> QED BY <3>1, <3>2, <3>3, <3>4 DEF Next
  <2> QED BY <2>1, <2>2, <2>3, <2>4, <2>5, TraceStep
<1> QED BY <1>1, <1>2, Inductive, PTL DEF Spec, EncryptRefines, Abstract!Spec
=============================================================================
