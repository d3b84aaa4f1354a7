------------------------ MODULE KeySchedules_proofs ------------------------
(***************************************************************************)
(* Proofs about the two key setups of rijndael/ and aes-ni/: for every key *)
(* of the three sizes, every S-box with an inverse, every round constants  *)
(* and whatever lies in memory behind a key of 192 bits.                   *)
(***************************************************************************)
EXTENDS KeySchedules, TLAPS

-----------------------------------------------------------------------------
(* Quotient and remainder by a positive modulus.                           *)
LEMMA DivMod ==
  ASSUME NEW n \in Int, NEW d \in Nat \ {0}
  PROVE  n \div d \in Int /\ n % d \in 0 .. d-1 /\ n = (n \div d) * d + (n % d)
<1>1. \A z \in Int, l \in Nat \ {0} :
        z \div l \in Int /\ z % l \in 0 .. l-1 /\ z = (z \div l) * l + (z % l)
  BY ONLY SMT
<1> QED BY <1>1, Zenon

(* Quotient and remainder are determined by the equation they satisfy.     *)
LEMMA DivModUnique ==
  ASSUME NEW d \in Nat \ {0}, NEW q \in Int, NEW r \in 0 .. d-1
  PROVE  (q * d + r) \div d = q /\ (q * d + r) % d = r
<1> DEFINE n == q * d + r
           p == n \div d
           s == n % d
<1>1. d \in Nat \ {0} /\ q \in Int /\ r \in 0 .. d-1
  OBVIOUS
<1>2. n \in Int
  BY ONLY <1>1
<1>3. p \in Int /\ s \in 0 .. d-1 /\ q * d + r = p * d + s
  BY ONLY <1>1, <1>2, DivMod, Zenon
<1> HIDE DEF n, p, s
<1>4. ~(p >= q + 1)
  <2>1. p >= q + 1 => d * p >= d * (q + 1)
    BY ONLY <1>1, <1>3
  <2> QED BY ONLY <1>1, <1>3, <2>1
<1>5. ~(q >= p + 1)
  <2>1. q >= p + 1 => d * q >= d * (p + 1)
    BY ONLY <1>1, <1>3
  <2> QED BY ONLY <1>1, <1>3, <2>1
<1>6. p = q /\ s = r
  BY ONLY <1>1, <1>3, <1>4, <1>5
<1> QED BY <1>6 DEF n, p, s

(* The parts of a natural number.                                          *)
LEMMA DivNat ==
  ASSUME NEW d \in Nat \ {0}, NEW n \in Nat
  PROVE  n \div d \in Nat
<1> DEFINE p == n \div d
           s == n % d
<1>1. d \in Nat \ {0} /\ n \in Nat
  OBVIOUS
<1>2. p \in Int /\ s \in 0 .. d-1 /\ n = p * d + s
  <2>1. n \in Int
    BY ONLY <1>1
  <2> QED BY ONLY <1>1, <2>1, DivMod, Zenon
<1> HIDE DEF p, s
<1>3. p < 0 => p * d <= (-1) * d
  BY ONLY <1>1, <1>2
<1>4. p \in Nat
  BY ONLY <1>1, <1>2, <1>3
<1> QED BY <1>4 DEF p

LEMMA DivModParts ==
  ASSUME NEW d \in Nat \ {0}, NEW n \in Nat
  PROVE  \E q \in Nat, r \in 0 .. d-1 : n = q * d + r /\ n \div d = q /\ n % d = r
<1> DEFINE q == n \div d
           r == n % d
<1>1. q \in Nat /\ r \in 0 .. d-1 /\ n = q * d + r
  <2>1. d \in Nat \ {0} /\ n \in Nat
    OBVIOUS
  <2>2. n \in Int
    BY ONLY <2>1
  <2> QED BY ONLY <2>1, <2>2, DivMod, DivNat, Zenon
<1> HIDE DEF q, r
<1>2. \E h \in Nat, z \in 0 .. d-1 : n = h * d + z /\ q = h /\ r = z
  BY ONLY <1>1
<1> QED BY <1>2 DEF q, r

-----------------------------------------------------------------------------
(* Arrays with words in their first places, and arrays that agree as far   *)
(* as both are done.                                                       *)
Words(w, a) == \A n \in 0 .. a-1 : w[n] \in Word
SameBelow(w, v, a, b) == \A n \in Nat : n < a /\ n < b => w[n] = v[n]

(* The words from a to b-1 of v are the expected ones.                     *)
Expected(w, n, key, bits) ==
  IF n < Nk(bits) THEN key[n] ELSE XorWord(w[n - Nk(bits)], Mixin(w, n, bits))
NewWords(v, a, b, key, bits) ==
  \A n \in a .. b-1 : v[n] = Expected(v, n, key, bits) /\ v[n] \in Word

(* Every word of x is combined with the one before it; where the vectors   *)
(* lie in the array v: x from place a, u a whole key before it.            *)
Cascaded(u, x, y) ==
  x[0] = XorWord(u[0], y) /\ \A l \in 1 .. 3 : x[l] = XorWord(u[l], x[l - 1])
Behind(w, u, a, size) == \A l \in 0 .. 3 : u[l] = w[a + l - size]
Placed(v, u, x, a, size) == \A l \in 0 .. 3 : u[l] = v[a + l - size] /\ v[a + l] = x[l]

(* The word from the assist for place a, in a group of Nk words at its     *)
(* beginning or at its middle.                                             *)
AssistAt(w, a, q, r, y) ==
  y = IF r = 0 THEN WithRcon(SubWord(RotWord(w[a - 1])), q) ELSE SubWord(w[a - 1])
InGroup(a, q, r, size) ==
  /\ a \in Nat /\ q \in Nat /\ q >= 1 /\ size \in {4, 6, 8} /\ a = q * size + r
  /\ r \in {0, 4} /\ (r = 4 => size = 8)

(* The array g is f with vector x stored at p.                             *)
Stored(g, f, p, x) == DOMAIN f = 0 .. 14 /\ p \in 0 .. 14 /\ g = [f EXCEPT ![p] = x]

KeyInv == keyBits \in KeyBits /\ cipherKey \in Keys

-----------------------------------------------------------------------------
(* The table-driven key setup: the pointer has moved by a whole key for    *)
(* every round constant whose loop body is left.                           *)
RTypes ==
  /\ rk \in [0 .. 59 -> Word \cup {Unset}]
  /\ rpc \in {"expand", "invert", "swap", "mix", "done"}
  /\ base + Nk(keyBits) + k \in 0 .. 59 /\ k \in 0 .. Nk(keyBits) - 1 /\ base \in Nat

ExpandInv ==
  rpc = "expand" =>
    /\ i \in 0 .. LastRcon(keyBits) - 1
    /\ IF k <= 3 THEN base = Nk(keyBits) * i ELSE i >= 1 /\ base = Nk(keyBits) * (i - 1)
    /\ Words(rk, RijndaelDone)
    /\ Scheduled(rk, RijndaelDone, cipherKey, keyBits)

EncInv ==
  rpc # "expand" =>
    /\ Words(enc, ScheduleLen(keyBits))
    /\ Scheduled(enc, ScheduleLen(keyBits), cipherKey, keyBits)

(* Which round keys are reversed, and which of them mixed.                 *)
SwappedTo(a) ==
  \A q \in 0 .. Rounds(keyBits), l \in 0 .. 3 :
    rk[4*q + l] = IF q < a \/ q > Rounds(keyBits) - a THEN enc[4*(Rounds(keyBits) - q) + l]
                                                      ELSE enc[4*q + l]
MixedTo(a) ==
  \A q \in 0 .. Rounds(keyBits), l \in 0 .. 3 :
    rk[4*q + l] = IF q >= 1 /\ q < a THEN InvMix(enc[4*(Rounds(keyBits) - q) + l])
                                     ELSE enc[4*(Rounds(keyBits) - q) + l]

InvertInv ==
  /\ rpc = "invert" => rk = enc
  /\ rpc = "swap" => \E a \in Nat : /\ i = 4*a /\ j = 4*(Rounds(keyBits) - a)
                                    /\ 2*a <= Rounds(keyBits) /\ SwappedTo(a)
  /\ rpc = "mix" => i \in 1 .. Rounds(keyBits) /\ MixedTo(i)
  /\ rpc = "done" => MixedTo(Rounds(keyBits))

RInv == RTypes /\ ExpandInv /\ EncInv /\ InvertInv

-----------------------------------------------------------------------------
(* The key setup by instructions: the registers hold the last words of the *)
(* schedule.                                                               *)
ATypes ==
  /\ ks \in [0 .. 14 -> [0 .. 3 -> Word \cup {Unset}]]
  /\ half \in BOOLEAN /\ c \in 0 .. LastAssist(keyBits)
  /\ half => keyBits = 256 /\ c \in 1 .. 6
  /\ t1 \in Vec /\ (keyBits # 128 => t3 \in Vec)

RegisterInv ==
  /\ keyBits = 128 => \A l \in 0 .. 3 : t1[l] = Flat(ks)[4*c + l]
  /\ keyBits = 192 => /\ \A l \in 0 .. 3 : t1[l] = Flat(ks)[6*c + l]
                      /\ c < 8 => \A l \in 0 .. 1 : t3[l] = Flat(ks)[6*c + 4 + l]
  /\ keyBits = 256 => /\ \A l \in 0 .. 3 : t1[l] = Flat(ks)[8*c + l]
                      /\ half => \A l \in 0 .. 3 : t3[l] = Flat(ks)[8*c - 4 + l]
                      /\ ~half /\ c < 7 => \A l \in 0 .. 3 : t3[l] = Flat(ks)[8*c + 4 + l]

ScheduleInv == Words(Flat(ks), AesniDone) /\ Scheduled(Flat(ks), AesniDone, cipherKey, keyBits)

CopyInv ==
  /\ apc \in {"expand", "copy", "done"} /\ m \in 0 .. Rounds(keyBits) + 1
  /\ DOMAIN ckey = 0 .. 14
  /\ apc = "expand" => m = 0
  /\ apc # "expand" => c = LastAssist(keyBits) /\ ~half
  /\ apc = "copy" => m <= Rounds(keyBits)
  /\ apc = "done" => m = Rounds(keyBits) + 1
  /\ \A r \in 0 .. m-1 : ckey[r] = Cooked(r)

AInv == ATypes /\ RegisterInv /\ ScheduleInv /\ CopyInv

-----------------------------------------------------------------------------
(* Both schedules are the same as far as both are done.                    *)
REnc == IF rpc = "expand" THEN rk ELSE enc
AgreeInv == SameBelow(REnc, Flat(ks), RijndaelDone, AesniDone)

IInv == KeyInv /\ RInv /\ AInv /\ AgreeInv

-----------------------------------------------------------------------------
(* Words under exclusive or, substitution, rotation and mixing.            *)
LEMMA XorWordIsWord ==
  ASSUME NEW u \in Word, NEW v \in Word
  PROVE  XorWord(u, v) \in Word
<1>1. \A b \in 0 .. 3 : u[b] \in Byte /\ v[b] \in Byte
  BY DEF Word
<1> QED BY <1>1, XorAssumption DEF XorWord, Word

LEMMA XorWordAlgebra ==
  ASSUME NEW u \in Word, NEW v \in Word, NEW w \in Word
  PROVE  /\ XorWord(u, v) = XorWord(v, u)
         /\ XorWord(XorWord(u, v), w) = XorWord(u, XorWord(v, w))
         /\ XorWord(u, Zero(v)) = u
<1>1. \A b \in 0 .. 3 : u[b] \in Byte /\ v[b] \in Byte /\ w[b] \in Byte
  BY DEF Word
<1>2. XorWord(u, v) = XorWord(v, u)
  <2>1. \A b \in 0 .. 3 : XOR(u[b], v[b]) = XOR(v[b], u[b])
    BY <1>1, XorAssumption
  <2> QED BY <2>1 DEF XorWord
<1>3. XorWord(XorWord(u, v), w) = XorWord(u, XorWord(v, w))
  <2>1. \A b \in 0 .. 3 : XOR(XOR(u[b], v[b]), w[b]) = XOR(u[b], XOR(v[b], w[b]))
    <3> SUFFICES ASSUME NEW b \in 0 .. 3
                 PROVE  XOR(XOR(u[b], v[b]), w[b]) = XOR(u[b], XOR(v[b], w[b]))
      OBVIOUS
    <3>1. u[b] \in Byte /\ v[b] \in Byte /\ w[b] \in Byte
      BY <1>1
    <3>2. ASSUME NEW x \in Byte, NEW y \in Byte, NEW z \in Byte
          PROVE  XOR(XOR(x, y), z) = XOR(x, XOR(y, z))
      BY XorAssumption
    <3> QED BY <3>1, <3>2
  <2> QED BY <2>1 DEF XorWord
<1>4. XorWord(u, Zero(v)) = u
  <2>1. \A b \in 0 .. 3 : XOR(u[b], XOR(v[b], v[b])) = u[b]
    <3> SUFFICES ASSUME NEW b \in 0 .. 3 PROVE XOR(u[b], XOR(v[b], v[b])) = u[b]
      OBVIOUS
    <3>1. u[b] \in Byte /\ v[b] \in Byte
      BY <1>1
    <3>2. XOR(XOR(u[b], v[b]), v[b]) = XOR(u[b], XOR(v[b], v[b]))
      BY <3>1, XorAssumption
    <3>3. XOR(XOR(u[b], v[b]), v[b]) = u[b]
      BY <3>1, XorAssumption
    <3> QED BY <3>2, <3>3
  <2>2. u = [b \in 0 .. 3 |-> u[b]]
    BY DEF Word
  <2>3. XorWord(u, Zero(v)) = [b \in 0 .. 3 |-> XOR(u[b], XOR(v[b], v[b]))]
    BY DEF XorWord, Zero
  <2> QED BY <2>1, <2>2, <2>3
<1> QED BY <1>2, <1>3, <1>4

LEMMA SubstitutedWord ==
  ASSUME NEW u \in Word
  PROVE  /\ SubWord(u) \in Word /\ RotWord(u) \in Word
         /\ RotWord(SubWord(u)) = SubWord(RotWord(u))
         /\ SubRot(u) = SubWord(RotWord(u)) /\ Sub(u) = SubWord(u)
<1>1. \A b \in 0 .. 3 : u[b] \in Byte /\ (b + 1) % 4 \in 0 .. 3 /\ u[(b + 1) % 4] \in Byte
  BY DEF Word
<1>2. SubWord(u) \in Word /\ RotWord(u) \in Word
  BY <1>1, SboxAssumption DEF SubWord, RotWord, Word
<1>3. RotWord(SubWord(u)) = [b \in 0 .. 3 |-> Sbox[u[(b + 1) % 4]]]
  BY <1>1 DEF RotWord, SubWord
<1>4. SubWord(RotWord(u)) = [b \in 0 .. 3 |-> Sbox[u[(b + 1) % 4]]]
  BY <1>1 DEF RotWord, SubWord
<1> QED BY <1>2, <1>3, <1>4 DEF SubRot, Sub, SubWord

LEMMA RconWord ==
  ASSUME NEW u \in Word, NEW n \in 1 .. 10
  PROVE  WithRcon(u, n) \in Word
<1>1. u[0] \in Byte /\ Rcon[n] \in Byte
  BY RconAssumption DEF Word
<1> QED BY <1>1, XorAssumption DEF WithRcon, Word

LEMMA MixedWord ==
  ASSUME NEW u \in Word
  PROVE  InvMix(u) \in Word /\ InvMixWord(u) = InvMix(u)
<1>1. \A b \in 0 .. 3 : u[b] \in Byte /\ InvCol(b, u[b]) \in Word
  BY ColAssumption DEF Word
<1>2. InvMix(u) \in Word
  BY <1>1, XorWordIsWord DEF InvMix, Xor4
<1>3. \A b \in 0 .. 3 : Td(b, Sbox[u[b]]) = InvCol(b, u[b])
  BY <1>1, SboxAssumption DEF Td
<1> QED BY <1>2, <1>3 DEF InvMixWord, InvMix

-----------------------------------------------------------------------------
(* The three key sizes.                                                    *)
LEMMA Sizes ==
  ASSUME KeyInv
  PROVE  /\ \/ keyBits = 128 /\ Nk(keyBits) = 4 /\ Rounds(keyBits) = 10
               /\ ScheduleLen(keyBits) = 44 /\ LastRcon(keyBits) = 10 /\ LastAssist(keyBits) = 10
            \/ keyBits = 192 /\ Nk(keyBits) = 6 /\ Rounds(keyBits) = 12
               /\ ScheduleLen(keyBits) = 52 /\ LastRcon(keyBits) = 8 /\ LastAssist(keyBits) = 8
            \/ keyBits = 256 /\ Nk(keyBits) = 8 /\ Rounds(keyBits) = 14
               /\ ScheduleLen(keyBits) = 60 /\ LastRcon(keyBits) = 7 /\ LastAssist(keyBits) = 7
         /\ keyBits \in {128, 192, 256}
         /\ cipherKey \in [0 .. 7 -> Word]
<1>1. keyBits \in {128, 192, 256} /\ cipherKey \in [0 .. 7 -> Word]
  BY KeyBitsAssumption, KeysAssumption DEF KeyInv
<1>2. CASE keyBits = 128
  BY <1>1, <1>2 DEF Nk, Rounds, ScheduleLen, LastRcon, LastAssist
<1>3. CASE keyBits = 192
  BY <1>1, <1>3 DEF Nk, Rounds, ScheduleLen, LastRcon, LastAssist
<1>4. CASE keyBits = 256
  BY <1>1, <1>4 DEF Nk, Rounds, ScheduleLen, LastRcon, LastAssist
<1> QED BY <1>1, <1>2, <1>3, <1>4

-----------------------------------------------------------------------------
(* A word of a schedule depends on those before it only.                   *)
LEMMA ExpectedKept ==
  ASSUME NEW w, NEW v, NEW n \in Nat, NEW key, NEW bits, Nk(bits) \in {4, 6, 8},
         \A x \in Nat : x < n => v[x] = w[x]
  PROVE  Expected(v, n, key, bits) = Expected(w, n, key, bits)
<1>1. CASE n < Nk(bits)
  BY <1>1 DEF Expected
<1>2. CASE ~(n < Nk(bits))
  <2>1. n - 1 \in Nat /\ n - 1 < n /\ n - Nk(bits) \in Nat /\ n - Nk(bits) < n
    BY <1>2
  <2>2. v[n - 1] = w[n - 1] /\ v[n - Nk(bits)] = w[n - Nk(bits)]
    BY <2>1
  <2>3. Mixin(v, n, bits) = Mixin(w, n, bits)
    BY <2>2 DEF Mixin
  <2> QED BY <1>2, <2>2, <2>3 DEF Expected
<1> QED BY <1>1, <1>2

LEMMA ScheduledIs ==
  ASSUME NEW w, NEW a, NEW key, NEW bits
  PROVE  Scheduled(w, a, key, bits) <=> \A n \in 0 .. a-1 : w[n] = Expected(w, n, key, bits)
BY DEF Scheduled, Expected

(* A prefix of a schedule stays one in an array that has the same words,   *)
(* and is longer by a word that is the expected one.                       *)
LEMMA ScheduledKept ==
  ASSUME NEW w, NEW v, NEW a \in Nat, NEW key, NEW bits, Nk(bits) \in {4, 6, 8},
         Scheduled(w, a, key, bits), Words(w, a),
         \A x \in 0 .. a-1 : v[x] = w[x]
  PROVE  Scheduled(v, a, key, bits) /\ Words(v, a)
<1>1. ASSUME NEW n \in 0 .. a-1 PROVE v[n] = Expected(v, n, key, bits)
  <2>1. n \in Nat /\ \A x \in Nat : x < n => v[x] = w[x]
    OBVIOUS
  <2>2. Expected(v, n, key, bits) = Expected(w, n, key, bits)
    BY <2>1, ExpectedKept
  <2> QED BY <2>2, ScheduledIs
<1>2. Words(v, a)
  BY DEF Words
<1> QED BY <1>1, <1>2, ScheduledIs

LEMMA ScheduledMore ==
  ASSUME NEW w, NEW a \in Nat, NEW key, NEW bits,
         Scheduled(w, a, key, bits), Words(w, a),
         w[a] = Expected(w, a, key, bits), w[a] \in Word
  PROVE  Scheduled(w, a + 1, key, bits) /\ Words(w, a + 1)
<1>1. \A n \in 0 .. (a + 1) - 1 : n \in 0 .. a-1 \/ n = a
  OBVIOUS
<1> QED BY <1>1, ScheduledIs DEF Words

(* Two schedules of the same key agree on one more word.                   *)
LEMMA AgreeMore ==
  ASSUME NEW w, NEW v, NEW a \in Nat, NEW b \in Nat, NEW key, NEW bits,
         Nk(bits) \in {4, 6, 8},
         Scheduled(w, a + 1, key, bits), Scheduled(v, b, key, bits), SameBelow(w, v, a, b)
  PROVE  SameBelow(w, v, a + 1, b)
<1> SUFFICES ASSUME NEW n \in Nat, n < a + 1, n < b PROVE w[n] = v[n]
  BY DEF SameBelow
<1>1. CASE n < a
  BY <1>1 DEF SameBelow
<1>2. CASE n = a
  <2>1. \A x \in Nat : x < n => w[x] = v[x]
    BY <1>2 DEF SameBelow
  <2>2. Expected(w, n, key, bits) = Expected(v, n, key, bits)
    BY <2>1, ExpectedKept
  <2>3. n \in 0 .. (a + 1) - 1 /\ n \in 0 .. b-1
    BY <1>2
  <2> QED BY <2>2, <2>3, ScheduledIs
<1> QED BY <1>1, <1>2

-----------------------------------------------------------------------------
(* Where the loop body of the table-driven expansion is: the word it       *)
(* computes next is number RijndaelDone of the schedule.                   *)
LEMMA ExpandPlace ==
  ASSUME KeyInv, RTypes, ExpandInv, rpc = "expand"
  PROVE  /\ RijndaelDone = base + Nk(keyBits) + k
         /\ RijndaelDone \in Nat /\ RijndaelDone >= Nk(keyBits)
         /\ RijndaelDone < ScheduleLen(keyBits) /\ RijndaelDone \in 0 .. 59
         /\ RijndaelDone % Nk(keyBits) = k
         /\ k = 0 => RijndaelDone \div Nk(keyBits) = i + 1
         /\ i + 1 \in 1 .. 10
         /\ IF k = 3 /\ i + 1 = LastRcon(keyBits)
            THEN RijndaelDone + 1 = ScheduleLen(keyBits)
            ELSE RijndaelDone + 1 < ScheduleLen(keyBits)
<1> DEFINE N == Nk(keyBits)
           L == ScheduleLen(keyBits)
           R == LastRcon(keyBits)
           p == IF k <= 3 THEN i ELSE i - 1
           d == RijndaelDone
<1>1. (N = 4 /\ L = 44 /\ R = 10) \/ (N = 6 /\ L = 52 /\ R = 8) \/ (N = 8 /\ L = 60 /\ R = 7)
  BY Sizes
<1>2. /\ i \in 0 .. R - 1 /\ k \in 0 .. N - 1 /\ base \in Nat
      /\ IF k <= 3 THEN base = N * i ELSE i >= 1 /\ base = N * (i - 1)
  BY DEF RTypes, ExpandInv
<1>3. d = base + N + k
  BY DEF RijndaelDone
<1> HIDE DEF N, L, R, d
<1>4. i \in Nat /\ k \in Nat /\ p \in Nat /\ N \in Nat \ {0} /\ N \in Nat
  BY <1>1, <1>2
<1>5. base = N * p /\ (k <= 3 => p <= R - 1) /\ (k > 3 => p <= R - 2) /\ (k <= 3 => p = i)
  BY <1>1, <1>2, <1>4
<1> HIDE DEF p
<1>6. d \in Nat /\ d >= N
  BY <1>2, <1>3, <1>4
<1>7. d < L /\ IF k = 3 /\ p + 1 = R THEN d + 1 = L ELSE d + 1 < L
  <2>1. CASE N = 4
    BY <1>1, <1>2, <1>3, <1>4, <1>5, <2>1
  <2>2. CASE N = 6
    BY <1>1, <1>2, <1>3, <1>4, <1>5, <2>2
  <2>3. CASE N = 8
    BY <1>1, <1>2, <1>3, <1>4, <1>5, <2>3
  <2> QED BY <1>1, <2>1, <2>2, <2>3
<1>8. d = (p + 1) * N + k
  <2>1. CASE N = 4
    BY <1>3, <1>4, <1>5, <2>1
  <2>2. CASE N = 6
    BY <1>3, <1>4, <1>5, <2>2
  <2>3. CASE N = 8
    BY <1>3, <1>4, <1>5, <2>3
  <2> QED BY <1>1, <2>1, <2>2, <2>3
<1>9. d % N = k /\ d \div N = p + 1
  <2> DEFINE q == p + 1
  <2>1. q \in Int /\ d = q * N + k /\ k \in 0 .. N - 1
    BY <1>2, <1>4, <1>8
  <2> HIDE DEF q
  <2>2. d % N = k /\ d \div N = q
    BY <1>4, <2>1, DivModUnique
  <2> QED BY <2>2 DEF q
<1>10. i + 1 \in 1 .. 10 /\ (k <= 3 => p = i)
  BY <1>1, <1>2, <1>5
<1>11. d \in 0 .. 59
  BY <1>1, <1>6, <1>7
<1> QED BY <1>3, <1>4, <1>6, <1>7, <1>9, <1>10, <1>11 DEF N, L, R, d

(* The word is the one that the schedule wants there.                      *)
LEMMA NewWordIs ==
  ASSUME KeyInv, RTypes, ExpandInv, rpc = "expand"
  PROVE  NewWord = Expected(rk, RijndaelDone, cipherKey, keyBits) /\ NewWord \in Word
<1> DEFINE N == Nk(keyBits)
           d == RijndaelDone
           temp == rk[d - 1]
           old == rk[d - N]
<1>1. N \in {4, 6, 8} /\ (N = 8 <=> keyBits = 256) /\ k \in 0 .. N - 1 /\ base \in Nat
  BY Sizes DEF RTypes
<1>2. /\ d = base + N + k /\ d \in Nat /\ d >= N
      /\ d % N = k /\ (k = 0 => d \div N = i + 1) /\ i + 1 \in 1 .. 10
  BY ExpandPlace
<1>3. Words(rk, d)
  BY DEF ExpandInv
<1>4. NewWord = CASE k = 0 -> XorWord(old, WithRcon(SubRot(temp), i + 1))
                  [] k = 4 /\ keyBits = 256 -> XorWord(old, Sub(temp))
                  [] OTHER -> XorWord(old, temp)
  <2>1. base + N + k - 1 = d - 1 /\ base + k = d - N
    <3> HIDE DEF d, N
    <3>1. base \in Int /\ N \in Int /\ k \in Int /\ d = base + N + k
      BY <1>1, <1>2
    <3> QED BY <3>1
  <2> QED BY <2>1 DEF NewWord
<1>5. Expected(rk, d, cipherKey, keyBits) = XorWord(old, Mixin(rk, d, keyBits))
  BY <1>1, <1>2 DEF Expected
<1> HIDE DEF d, N
<1>6. temp \in Word /\ old \in Word
  <2>1. d - 1 \in 0 .. d-1 /\ d - N \in 0 .. d-1
    BY <1>1, <1>2
  <2> QED BY <1>3, <2>1 DEF Words
<1>7. CASE k = 0
  <2>1. Mixin(rk, d, keyBits) = WithRcon(SubWord(RotWord(temp)), i + 1)
    BY <1>2, <1>7 DEF Mixin, N
  <2>2. SubRot(temp) = SubWord(RotWord(temp)) /\ SubWord(RotWord(temp)) \in Word
    BY <1>6, SubstitutedWord
  <2>3. NewWord = XorWord(old, WithRcon(SubRot(temp), i + 1))
    BY <1>4, <1>7
  <2>4. NewWord \in Word
    BY <1>2, <1>6, <2>2, <2>3, RconWord, XorWordIsWord
  <2> QED BY <1>5, <2>1, <2>2, <2>3, <2>4 DEF d
<1>8. CASE k = 4 /\ keyBits = 256
  <2>1. N = 8 /\ d % 8 = 4
    BY <1>1, <1>2, <1>8
  <2>2. Mixin(rk, d, keyBits) = SubWord(temp)
    BY <1>2, <1>8, <2>1 DEF Mixin, N
  <2>3. Sub(temp) = SubWord(temp) /\ SubWord(temp) \in Word
    BY <1>6, SubstitutedWord
  <2>4. NewWord = XorWord(old, Sub(temp))
    BY <1>4, <1>8
  <2>5. NewWord \in Word
    BY <1>6, <2>3, <2>4, XorWordIsWord
  <2> QED BY <1>5, <2>2, <2>3, <2>4, <2>5 DEF d
<1>9. CASE k # 0 /\ ~(k = 4 /\ keyBits = 256)
  <2>1. Mixin(rk, d, keyBits) = temp
    <3>1. d % N # 0 /\ ~(N = 8 /\ d % 8 = 4)
      BY <1>1, <1>2, <1>9
    <3> QED BY <3>1 DEF Mixin, N
  <2>2. NewWord = XorWord(old, temp)
    BY <1>4, <1>9
  <2> QED BY <1>5, <1>6, <2>1, <2>2, XorWordIsWord DEF d
<1> QED BY <1>7, <1>8, <1>9

(* A turn of the loop body: the schedule is longer by one word.            *)
LEMMA KeySetupEncInv ==
  ASSUME KeyInv, RInv, KeySetupEnc, UNCHANGED <<keyBits, cipherKey>>
  PROVE  /\ RInv'
         /\ RijndaelDone \in Nat /\ RijndaelDone' = RijndaelDone + 1
         /\ \A n \in 0 .. RijndaelDone - 1 : REnc'[n] = REnc[n]
<1> DEFINE N == Nk(keyBits)
           L == ScheduleLen(keyBits)
           R == LastRcon(keyBits)
           d == RijndaelDone
<1>1. /\ rpc = "expand" /\ keyBits' = keyBits /\ cipherKey' = cipherKey
      /\ RTypes /\ ExpandInv
  BY DEF KeySetupEnc, RInv
<1>2. (N = 4 /\ L = 44 /\ R = 10) \/ (N = 6 /\ L = 52 /\ R = 8) \/ (N = 8 /\ L = 60 /\ R = 7)
  BY Sizes
<1>3. /\ d = base + N + k /\ d \in Nat /\ d >= N /\ d < L /\ d \in 0 .. 59
      /\ IF k = 3 /\ i + 1 = R THEN d + 1 = L ELSE d + 1 < L
  BY <1>1, ExpandPlace
<1>4. NewWord = Expected(rk, d, cipherKey, keyBits) /\ NewWord \in Word
  BY <1>1, NewWordIs
<1>5. /\ i \in 0 .. R - 1 /\ k \in 0 .. N - 1 /\ base \in Nat
      /\ IF k <= 3 THEN base = N * i ELSE i >= 1 /\ base = N * (i - 1)
      /\ rk \in [0 .. 59 -> Word \cup {Unset}]
  BY <1>1 DEF RTypes, ExpandInv
<1>6. Words(rk, d) /\ Scheduled(rk, d, cipherKey, keyBits)
  BY <1>1 DEF ExpandInv
<1>7. /\ rk' = [rk EXCEPT ![base + N + k] = NewWord]
      /\ i' = (IF k = 3 THEN i + 1 ELSE i)
      /\ IF k = 3 /\ i' = R
         THEN rpc' = "invert" /\ enc' = rk' /\ base' = base /\ k' = k
         ELSE /\ IF k = N - 1 THEN base' = base + N /\ k' = 0
                              ELSE base' = base /\ k' = k + 1
              /\ rpc' = rpc /\ enc' = enc
  BY DEF KeySetupEnc
<1>8. Nk(keyBits') = N /\ ScheduleLen(keyBits') = L /\ LastRcon(keyBits') = R
  BY <1>1
<1>9. RijndaelDone' = IF rpc' = "expand" THEN base' + N + k' ELSE L
  BY <1>8 DEF RijndaelDone
<1>10. REnc = rk /\ REnc' = rk'
  BY <1>1, <1>7 DEF REnc
<1>11. Nk(keyBits) \in {4, 6, 8}
  BY <1>2
<1> HIDE DEF N, L, R, d
<1>12. rk' = [rk EXCEPT ![d] = NewWord]
  BY <1>3, <1>7
<1>13. rk' \in [0 .. 59 -> Word \cup {Unset}] /\ rk'[d] = NewWord
       /\ \A n \in 0 .. d-1 : rk'[n] = rk[n]
  BY <1>3, <1>4, <1>5, <1>12
<1>14. Words(rk', d + 1) /\ Scheduled(rk', d + 1, cipherKey, keyBits)
  <2>1. Scheduled(rk', d, cipherKey, keyBits) /\ Words(rk', d)
    BY <1>3, <1>6, <1>11, <1>13, ScheduledKept
  <2>2. \A x \in Nat : x < d => rk'[x] = rk[x]
    BY <1>3, <1>13
  <2>3. Expected(rk', d, cipherKey, keyBits) = Expected(rk, d, cipherKey, keyBits)
    BY <1>3, <1>11, <2>2, ExpectedKept
  <2> QED BY <1>3, <1>4, <1>13, <2>1, <2>3, ScheduledMore
<1>15. CASE k = 3 /\ i' = R
  <2>1. rpc' = "invert" /\ enc' = rk' /\ base' = base /\ k' = k /\ d + 1 = L
    BY <1>3, <1>7, <1>15
  <2>2. RijndaelDone' = d + 1
    BY <1>9, <2>1
  <2>3. RTypes'
    BY <1>1, <1>13, <2>1 DEF RTypes
  <2>4. ExpandInv'
    BY <2>1 DEF ExpandInv
  <2>5. EncInv'
    BY <1>1, <1>14, <2>1 DEF EncInv, L
  <2>6. InvertInv'
    BY <2>1 DEF InvertInv
  <2> QED BY <1>3, <1>10, <1>13, <2>2, <2>3, <2>4, <2>5, <2>6 DEF RInv, d
<1>16. CASE ~(k = 3 /\ i' = R)
  <2>1. /\ IF k = N - 1 THEN base' = base + N /\ k' = 0
                        ELSE base' = base /\ k' = k + 1
        /\ rpc' = "expand" /\ d + 1 < L
    BY <1>1, <1>3, <1>7, <1>16
  <2>2. base' + N + k' = d + 1
    BY <1>2, <1>3, <1>5, <2>1
  <2>3. RijndaelDone' = d + 1
    BY <1>9, <2>1, <2>2
  <2>4. d + 1 \in 0 .. 59
    BY <1>2, <1>3, <2>1
  <2>5. base' \in Nat /\ k' \in 0 .. N - 1
    BY <1>2, <1>5, <2>1
  <2>6. RTypes'
    BY <1>13, <2>1, <2>2, <2>4, <2>5 DEF RTypes, N
  <2>7. i' \in 0 .. R - 1
    BY <1>2, <1>5, <1>7, <1>16
  <2>8. IF k' <= 3 THEN base' = N * i' ELSE i' >= 1 /\ base' = N * (i' - 1)
    <3>1. CASE N = 4
      BY <1>5, <1>7, <2>1, <3>1
    <3>2. CASE N = 6
      BY <1>5, <1>7, <2>1, <3>2
    <3>3. CASE N = 8
      BY <1>5, <1>7, <2>1, <3>3
    <3> QED BY <1>2, <3>1, <3>2, <3>3
  <2>9. ExpandInv'
    BY <1>1, <1>8, <1>14, <2>3, <2>7, <2>8 DEF ExpandInv, N, R
  <2>10. EncInv' /\ InvertInv'
    BY <2>1 DEF EncInv, InvertInv
  <2> QED BY <1>3, <1>10, <1>13, <2>3, <2>6, <2>9, <2>10 DEF RInv, d
<1> QED BY <1>15, <1>16

(* Behind the expansion the schedule itself does not change any more.      *)
LEMMA BehindExpand ==
  ASSUME KeyInv, RInv, rpc # "expand", rpc' \in {"swap", "mix", "done"},
         UNCHANGED <<keyBits, cipherKey, base, k, enc>>,
         rk' \in [0 .. 59 -> Word \cup {Unset}], InvertInv'
  PROVE  RInv' /\ RijndaelDone' = RijndaelDone /\ REnc' = REnc
<1>1. RTypes /\ EncInv
  BY DEF RInv
<1>2. RTypes'
  BY <1>1 DEF RTypes
<1>3. ExpandInv' /\ EncInv'
  BY <1>1 DEF ExpandInv, EncInv
<1>4. RijndaelDone' = RijndaelDone /\ REnc' = REnc
  BY DEF RijndaelDone, REnc
<1> QED BY <1>2, <1>3, <1>4 DEF RInv

LEMMA StartSwapInv ==
  ASSUME KeyInv, RInv, StartSwap, UNCHANGED <<keyBits, cipherKey>>
  PROVE  RInv' /\ RijndaelDone' = RijndaelDone /\ REnc' = REnc
<1> DEFINE R == Rounds(keyBits)
<1>1. /\ rpc = "invert" /\ rpc' = "swap" /\ i' = 0 /\ j' = 4 * R
      /\ UNCHANGED <<rk, base, k, enc>> /\ R' = R
  BY DEF StartSwap
<1>2. rk = enc /\ rk \in [0 .. 59 -> Word \cup {Unset}]
  BY <1>1 DEF RInv, InvertInv, RTypes
<1>3. R \in Nat
  BY Sizes
<1>4. SwappedTo(0)'
  <2> SUFFICES ASSUME NEW q \in 0 .. R, NEW l \in 0 .. 3
               PROVE  rk'[4*q + l] = IF q < 0 \/ q > R - 0 THEN enc'[4*(R - q) + l]
                                                           ELSE enc'[4*q + l]
    BY <1>1 DEF SwappedTo
  <2>1. ~(q < 0 \/ q > R - 0)
    BY <1>3
  <2> QED BY <1>1, <1>2, <2>1
<1>5. 0 \in Nat /\ i' = 4*0 /\ j' = 4*(R - 0) /\ 2*0 <= R
  BY <1>1, <1>3
<1>6. InvertInv'
  BY <1>1, <1>4, <1>5 DEF InvertInv
<1> QED BY <1>1, <1>2, <1>6, BehindExpand

LEMMA SwapKeysInv ==
  ASSUME KeyInv, RInv, SwapKeys, UNCHANGED <<keyBits, cipherKey>>
  PROVE  RInv' /\ RijndaelDone' = RijndaelDone /\ REnc' = REnc
<1> DEFINE R == Rounds(keyBits)
<1>1. /\ rpc = "swap" /\ UNCHANGED <<base, k, enc>> /\ R' = R
      /\ IF i < j
         THEN /\ rk' = [n \in 0 .. 59 |->
                          CASE n \in i .. i + 3 -> rk[j + (n - i)]
                            [] n \in j .. j + 3 -> rk[i + (n - j)]
                            [] OTHER -> rk[n]]
              /\ i' = i + 4 /\ j' = j - 4 /\ rpc' = rpc
         ELSE rpc' = "mix" /\ i' = 1 /\ rk' = rk /\ j' = j
  BY DEF SwapKeys, MoreSwaps
<1>2. rk \in [0 .. 59 -> Word \cup {Unset}]
  BY DEF RInv, RTypes
<1>3. PICK a \in Nat : /\ i = 4*a /\ j = 4*(R - a) /\ 2*a <= R /\ SwappedTo(a)
  BY <1>1 DEF RInv, InvertInv
<1>4. R \in {10, 12, 14} /\ R \in Nat
  BY Sizes
<1>5. \A q \in 0 .. R, l \in 0 .. 3 :
         rk[4*q + l] = IF q < a \/ q > R - a THEN enc[4*(R - q) + l] ELSE enc[4*q + l]
  BY <1>3 DEF SwappedTo
<1> HIDE DEF R
<1>6. CASE i < j
  <2>1. 2*a < R /\ 2*(a + 1) <= R /\ a + 1 \in Nat /\ a \in 0 .. R /\ R - a \in 0 .. R
        /\ a < R - a
    BY <1>3, <1>4, <1>6
  <2> DEFINE Swap(n) == CASE n \in i .. i + 3 -> rk[j + (n - i)]
                          [] n \in j .. j + 3 -> rk[i + (n - j)]
                          [] OTHER -> rk[n]
  <2>7. rk' = [n \in 0 .. 59 |-> Swap(n)] /\ i' = i + 4 /\ j' = j - 4
    BY <1>1, <1>6
  <2>8. ASSUME NEW n \in 0 .. 59
        PROVE  /\ n \in i .. i + 3 /\ n \notin j .. j + 3 => rk'[n] = rk[j + (n - i)]
               /\ n \in j .. j + 3 /\ n \notin i .. i + 3 => rk'[n] = rk[i + (n - j)]
    <3>1. rk'[n] = Swap(n)
      <4> HIDE DEF Swap
      <4> QED BY <2>7
    <3> QED BY <3>1
  <2> HIDE DEF Swap
  <2>2. ASSUME NEW q \in 0 .. R, NEW l \in 0 .. 3
        PROVE  rk'[4*q + l] = IF q < a + 1 \/ q > R - (a + 1) THEN enc[4*(R - q) + l]
                                                              ELSE enc[4*q + l]
    <3>1. 4*q + l \in 0 .. 59
      BY <1>4
    <3>2. CASE q = a
      <4>2. rk'[4*q + l] = rk[4*(R - a) + l]
        <5> DEFINE n == 4*q + l
        <5>1. /\ n \in 0 .. 59 /\ n \in i .. i + 3 /\ n \notin j .. j + 3
              /\ j + (n - i) = 4*(R - a) + l
          BY <1>3, <1>4, <2>1, <3>1, <3>2
        <5> HIDE DEF n
        <5>2. rk'[n] = rk[j + (n - i)]
          BY <2>8, <5>1
        <5>3. rk'[n] = rk[4*(R - a) + l]
          BY <5>1, <5>2
        <5> QED BY <5>3 DEF n
      <4>3. rk[4*(R - a) + l] = enc[4*(R - a) + l]
        <5>1. ~(R - a < a \/ R - a > R - a)
          BY <1>4, <2>1
        <5> QED BY <1>5, <2>1, <5>1
      <4>4. q < a + 1
        BY <3>2
      <4> QED BY <3>2, <4>2, <4>3, <4>4
    <3>3. CASE q = R - a
      <4>1. R - q = a /\ q > R - (a + 1)
        BY <1>3, <1>4, <2>1, <3>3
      <4>2. rk'[4*q + l] = rk[4*a + l]
        <5> DEFINE n == 4*q + l
        <5>1. /\ n \in 0 .. 59 /\ n \in j .. j + 3 /\ n \notin i .. i + 3
              /\ i + (n - j) = 4*a + l
          BY <1>3, <1>4, <2>1, <3>1, <3>3
        <5> HIDE DEF n
        <5>2. rk'[n] = rk[i + (n - j)]
          BY <2>8, <5>1
        <5>3. rk'[n] = rk[4*a + l]
          BY <5>1, <5>2
        <5> QED BY <5>3 DEF n
      <4>3. rk[4*a + l] = enc[4*a + l]
        <5>1. ~(a < a \/ a > R - a)
          BY <1>4, <2>1
        <5> QED BY <1>5, <2>1, <5>1
      <4> QED BY <4>1, <4>2, <4>3
    <3>4. CASE q # a /\ q # R - a
      <4>1. 4*q + l \notin j .. j + 3 /\ 4*q + l \notin i .. i + 3
        BY <1>3, <1>4, <2>1, <3>4
      <4>2. rk'[4*q + l] = rk[4*q + l]
        BY <1>1, <1>6, <3>1, <4>1
      <4>3. (q < a + 1 \/ q > R - (a + 1)) <=> (q < a \/ q > R - a)
        BY <1>4, <2>1, <3>4
      <4> QED BY <1>5, <4>2, <4>3
    <3> QED BY <3>2, <3>3, <3>4
  <2>3. SwappedTo(a + 1)'
    BY <1>1, <2>2 DEF SwappedTo, R
  <2>4. i' = 4*(a + 1) /\ j' = 4*(R - (a + 1))
    BY <1>3, <1>4, <2>7
  <2>5. InvertInv'
    <3>1. rpc' = "swap"
      BY <1>1, <1>6
    <3> QED BY <1>1, <2>1, <2>3, <2>4, <3>1 DEF InvertInv, R
  <2>6. rk' \in [0 .. 59 -> Word \cup {Unset}]
    <3>1. ASSUME NEW n \in 0 .. 59
          PROVE  /\ n \in i .. i + 3 => j + (n - i) \in 0 .. 59
                 /\ n \in j .. j + 3 => i + (n - j) \in 0 .. 59
      BY <1>3, <1>4, <2>1
    <3> QED BY <1>1, <1>2, <1>6, <3>1
  <2> QED BY <1>1, <1>6, <2>5, <2>6, BehindExpand
<1>7. CASE ~(i < j)
  <2>1. 2*a = R
    BY <1>3, <1>4, <1>7
  <2>2. ASSUME NEW q \in 0 .. R, NEW l \in 0 .. 3
        PROVE  rk[4*q + l] = enc[4*(R - q) + l]
    <3>1. CASE q = a
      <4>1. R - q = q /\ ~(q < a \/ q > R - a)
        BY <1>4, <2>1, <3>1
      <4> QED BY <1>5, <4>1
    <3>2. CASE q # a
      <4>1. q < a \/ q > R - a
        BY <1>4, <2>1, <3>2
      <4> QED BY <1>5, <4>1
    <3> QED BY <3>1, <3>2
  <2>3. MixedTo(1)'
    <3> SUFFICES ASSUME NEW q \in 0 .. R, NEW l \in 0 .. 3
                 PROVE  rk'[4*q + l] = IF q >= 1 /\ q < 1 THEN InvMix(enc'[4*(R - q) + l])
                                                          ELSE enc'[4*(R - q) + l]
      BY <1>1 DEF MixedTo, R
    <3>1. ~(q >= 1 /\ q < 1)
      OBVIOUS
    <3> QED BY <1>1, <1>7, <2>2, <3>1
  <2>4. InvertInv'
    <3>1. i' = 1 /\ rpc' = "mix" /\ 1 \in 1 .. R'
      BY <1>1, <1>4, <1>7
    <3> QED BY <2>3, <3>1 DEF InvertInv, R
  <2> QED BY <1>1, <1>2, <1>7, <2>4, BehindExpand
<1> QED BY <1>6, <1>7

LEMMA InvMixKeyInv ==
  ASSUME KeyInv, RInv, InvMixKey, UNCHANGED <<keyBits, cipherKey>>
  PROVE  RInv' /\ RijndaelDone' = RijndaelDone /\ REnc' = REnc
<1> DEFINE R == Rounds(keyBits)
<1>1. /\ rpc = "mix" /\ UNCHANGED <<base, k, enc>> /\ R' = R
      /\ IF i < R
         THEN /\ rk' = [n \in 0 .. 59 |->
                          IF n \in 4*i .. 4*i + 3 THEN InvMixWord(rk[n]) ELSE rk[n]]
              /\ i' = i + 1 /\ rpc' = rpc
         ELSE rpc' = "done" /\ rk' = rk /\ i' = i
  BY DEF InvMixKey
<1>2. rk \in [0 .. 59 -> Word \cup {Unset}] /\ Words(enc, ScheduleLen(keyBits))
  BY <1>1 DEF RInv, RTypes, EncInv
<1>3. R \in {10, 12, 14} /\ R \in Nat /\ ScheduleLen(keyBits) = 4 * (R + 1)
  BY Sizes
<1>4. i \in 1 .. R /\ MixedTo(i)
  BY <1>1 DEF RInv, InvertInv
<1>5. \A q \in 0 .. R, l \in 0 .. 3 :
         rk[4*q + l] = IF q >= 1 /\ q < i THEN InvMix(enc[4*(R - q) + l])
                                          ELSE enc[4*(R - q) + l]
  BY <1>4 DEF MixedTo
<1> HIDE DEF R
<1>6. CASE i < R
  <2>1. ASSUME NEW l \in 0 .. 3
        PROVE  /\ rk[4*i + l] = enc[4*(R - i) + l] /\ rk[4*i + l] \in Word
               /\ InvMixWord(rk[4*i + l]) = InvMix(enc[4*(R - i) + l])
               /\ InvMixWord(rk[4*i + l]) \in Word
    <3>1. i \in 0 .. R /\ ~(i >= 1 /\ i < i) /\ 4*(R - i) + l \in 0 .. 4*(R + 1) - 1
      BY <1>3, <1>4
    <3>2. rk[4*i + l] = enc[4*(R - i) + l]
      BY <1>5, <3>1
    <3>3. enc[4*(R - i) + l] \in Word
      BY <1>2, <1>3, <3>1 DEF Words
    <3> QED BY <3>2, <3>3, MixedWord
  <2>2. ASSUME NEW q \in 0 .. R, NEW l \in 0 .. 3
        PROVE  rk'[4*q + l] = IF q >= 1 /\ q < i + 1 THEN InvMix(enc[4*(R - q) + l])
                                                     ELSE enc[4*(R - q) + l]
    <3>1. 4*q + l \in 0 .. 59
      BY <1>3
    <3>2. CASE q = i
      <4>1. 4*q + l \in 4*i .. 4*i + 3 /\ q >= 1 /\ q < i + 1
        BY <1>4, <3>2
      <4>2. rk'[4*q + l] = InvMixWord(rk[4*q + l])
        BY <1>1, <1>6, <3>1, <4>1
      <4> QED BY <2>1, <3>2, <4>1, <4>2
    <3>3. CASE q # i
      <4>1. 4*q + l \notin 4*i .. 4*i + 3 /\ (q < i + 1 <=> q < i)
        BY <1>4, <3>3
      <4>2. rk'[4*q + l] = rk[4*q + l]
        BY <1>1, <1>6, <3>1, <4>1
      <4> QED BY <1>5, <4>1, <4>2
    <3> QED BY <3>2, <3>3
  <2>4. InvertInv'
    <3>1. i' \in 1 .. R' /\ rpc' = "mix" /\ i' = i + 1
      BY <1>1, <1>3, <1>4, <1>6
    <3>2. MixedTo(i)'
      BY <1>1, <1>6, <2>2 DEF MixedTo, R
    <3> QED BY <3>1, <3>2 DEF InvertInv, R
  <2>5. rk' \in [0 .. 59 -> Word \cup {Unset}]
    <3>1. ASSUME NEW n \in 0 .. 59, n \in 4*i .. 4*i + 3 PROVE InvMixWord(rk[n]) \in Word
      <4>1. n - 4*i \in 0 .. 3 /\ n = 4*i + (n - 4*i)
        BY <1>4, <3>1
      <4> QED BY <2>1, <4>1
    <3> QED BY <1>1, <1>2, <1>6, <3>1
  <2> QED BY <1>1, <1>6, <2>4, <2>5, BehindExpand
<1>7. CASE ~(i < R)
  <2>1. i = R
    BY <1>3, <1>4, <1>7
  <2>2. MixedTo(R)'
    BY <1>1, <1>5, <1>7, <2>1 DEF MixedTo, R
  <2>3. InvertInv'
    BY <1>1, <1>7, <2>2 DEF InvertInv, R
  <2> QED BY <1>1, <1>2, <1>7, <2>3, BehindExpand
<1> QED BY <1>6, <1>7

-----------------------------------------------------------------------------
(* Vectors seen as words.                                                  *)
LEMMA FlatAt ==
  ASSUME NEW v, NEW q \in 0 .. 14, NEW l \in 0 .. 3
  PROVE  Flat(v)[4*q + l] = v[q][l]
<1> DEFINE n == 4*q + l
<1>1. n \in 0 .. 59 /\ n = q * 4 + l
  OBVIOUS
<1>2. n \div 4 = q /\ n % 4 = l
  <2>1. 4 \in Nat \ {0} /\ q \in Int /\ l \in 0 .. 4-1
    OBVIOUS
  <2>2. (q * 4 + l) \div 4 = q /\ (q * 4 + l) % 4 = l
    BY <2>1, DivModUnique
  <2> QED BY <1>1, <2>2
<1> HIDE DEF n
<1>3. Flat(v)[n] = v[q][l]
  BY <1>1, <1>2 DEF Flat
<1> QED BY <1>3 DEF n

LEMMA FlatParts ==
  ASSUME NEW n \in 0 .. 59
  PROVE  \E q \in 0 .. 14, l \in 0 .. 3 : n = 4*q + l
<1>1. 4 \in Nat \ {0} /\ n \in Nat
  OBVIOUS
<1>2. PICK q \in Nat, l \in 0 .. 4-1 : n = q * 4 + l
  BY <1>1, DivModParts
<1>3. q \in 0 .. 14 /\ l \in 0 .. 3 /\ n = 4*q + l
  BY <1>2
<1> QED BY <1>3

-----------------------------------------------------------------------------
(* Exclusive ors from the left are the same one after the other.           *)
LEMMA XorChain ==
  ASSUME NEW e0 \in Word, NEW e1 \in Word, NEW e2 \in Word, NEW e3 \in Word, NEW y \in Word
  PROVE  LET x0 == XorWord(e0, y)
             x1 == XorWord(XorWord(e1, e0), y)
             x2 == XorWord(XorWord(XorWord(e2, e1), e0), y)
             x3 == XorWord(XorWord(XorWord(XorWord(e3, e2), e1), e0), y)
         IN  /\ x0 \in Word
             /\ x1 = XorWord(e1, x0) /\ x1 \in Word
             /\ x2 = XorWord(e2, x1) /\ x2 \in Word
             /\ x3 = XorWord(e3, x2) /\ x3 \in Word
<1>1. ASSUME NEW p \in Word, NEW q \in Word, NEW w \in Word
      PROVE  XorWord(p, q) \in Word /\ XorWord(XorWord(p, q), w) = XorWord(p, XorWord(q, w))
  BY XorWordAlgebra, XorWordIsWord
<1> DEFINE a10 == XorWord(e1, e0)
           a21 == XorWord(e2, e1)
           a32 == XorWord(e3, e2)
           a210 == XorWord(e2, a10)
           a321 == XorWord(e3, a21)
           a3210 == XorWord(e3, a210)
<1>2. a10 \in Word /\ a21 \in Word /\ a32 \in Word
  BY <1>1
<1>3. a210 \in Word /\ a321 \in Word
  <2> HIDE DEF a10, a21
  <2> QED BY <1>1, <1>2
<1>4. a3210 \in Word
  <2> HIDE DEF a210
  <2> QED BY <1>1, <1>3
<1>5. XorWord(a21, e0) = a210 /\ XorWord(a32, e1) = a321
  BY <1>1
<1>6. XorWord(a321, e0) = a3210
  <2>1. XorWord(a321, e0) = XorWord(e3, XorWord(a21, e0))
    <3> HIDE DEF a21
    <3> QED BY <1>1, <1>2
  <2> QED BY <1>5, <2>1
<1>7. XorWord(e0, y) \in Word /\ XorWord(a10, y) = XorWord(e1, XorWord(e0, y))
  BY <1>1
<1>8. XorWord(a10, y) \in Word /\ XorWord(a210, y) = XorWord(e2, XorWord(a10, y))
  <2> HIDE DEF a10
  <2> QED BY <1>1, <1>2
<1>9. XorWord(a210, y) \in Word /\ XorWord(a3210, y) = XorWord(e3, XorWord(a210, y))
  <2> HIDE DEF a210
  <2> QED BY <1>1, <1>3
<1>10. XorWord(a3210, y) \in Word
  <2> HIDE DEF a3210
  <2> QED BY <1>1, <1>4
<1>11. /\ XorWord(XorWord(XorWord(e2, e1), e0), y) = XorWord(a210, y)
       /\ XorWord(XorWord(XorWord(XorWord(e3, e2), e1), e0), y) = XorWord(a3210, y)
  BY <1>5, <1>6
<1> QED BY <1>7, <1>8, <1>9, <1>10, <1>11

(* The instructions: xored with its own shifts and a word in every lane, a *)
(* vector has in each lane its old word and the new one before.            *)
LEMMA CascadeWords ==
  ASSUME NEW u \in Vec, NEW t, NEW a, t[a] \in Word
  PROVE  LET x == mm_xor(Cascade(u), Broadcast(t, a))
         IN  x \in Vec /\ Cascaded(u, x, t[a])
<1> DEFINE y == t[a]
           s1 == mm_slli(u)
           s2 == mm_slli(s1)
           s3 == mm_slli(s2)
           x == mm_xor(Cascade(u), Broadcast(t, a))
           z == Zero(u[0])
<1>1. u[0] \in Word /\ u[1] \in Word /\ u[2] \in Word /\ u[3] \in Word /\ y \in Word
  BY DEF Vec
<1>2. z \in Word /\ Zero(z) \in Word /\ Zero(Zero(z)) \in Word
  <2>1. \A w \in Word : Zero(w) \in Word
    BY XorWordIsWord DEF Zero
  <2> QED BY <1>1, <2>1
<1>3. s1[0] = z /\ s1[1] = u[0] /\ s1[2] = u[1] /\ s1[3] = u[2]
  BY DEF mm_slli
<1>4. s2[0] = Zero(z) /\ s2[1] = z /\ s2[2] = u[0] /\ s2[3] = u[1]
  <2> HIDE DEF s1, z
  <2> QED BY <1>3 DEF mm_slli
<1>5. s3[0] = Zero(Zero(z)) /\ s3[1] = Zero(z) /\ s3[2] = z /\ s3[3] = u[0]
  <2> HIDE DEF s1, s2, z
  <2> QED BY <1>4 DEF mm_slli
<1>6. x = [l \in 0 .. 3 |-> XorWord(XorWord(XorWord(XorWord(u[l], s1[l]), s2[l]), s3[l]), y)]
  BY DEF mm_xor, Cascade, Broadcast
<1> HIDE DEF s1, s2, s3, x, y, z
<1>7. \A w \in Word : XorWord(w, z) = w /\ XorWord(w, Zero(z)) = w /\ XorWord(w, Zero(Zero(z))) = w
  BY <1>1, <1>2, XorWordAlgebra DEF z
<1>8. x[0] = XorWord(u[0], y)
  <2>1. x[0] = XorWord(XorWord(XorWord(XorWord(u[0], z), Zero(z)), Zero(Zero(z))), y)
    BY <1>3, <1>4, <1>5, <1>6
  <2> QED BY <1>1, <1>7, <2>1
<1>9. x[1] = XorWord(XorWord(u[1], u[0]), y)
  <2>1. x[1] = XorWord(XorWord(XorWord(XorWord(u[1], u[0]), z), Zero(z)), y)
    BY <1>3, <1>4, <1>5, <1>6
  <2> QED BY <1>1, <1>7, <2>1, XorWordIsWord
<1>10. x[2] = XorWord(XorWord(XorWord(u[2], u[1]), u[0]), y)
  <2>1. x[2] = XorWord(XorWord(XorWord(XorWord(u[2], u[1]), u[0]), z), y)
    BY <1>3, <1>4, <1>5, <1>6
  <2> QED BY <1>1, <1>7, <2>1, XorWordIsWord
<1>11. x[3] = XorWord(XorWord(XorWord(XorWord(u[3], u[2]), u[1]), u[0]), y)
  BY <1>3, <1>4, <1>5, <1>6
<1>12. /\ x[0] \in Word
       /\ x[1] = XorWord(u[1], x[0]) /\ x[1] \in Word
       /\ x[2] = XorWord(u[2], x[1]) /\ x[2] \in Word
       /\ x[3] = XorWord(u[3], x[2]) /\ x[3] \in Word
  <2> DEFINE e0 == u[0]
             e1 == u[1]
             e2 == u[2]
             e3 == u[3]
  <2>1. /\ e0 \in Word /\ e1 \in Word /\ e2 \in Word /\ e3 \in Word
        /\ x[0] = XorWord(e0, y) /\ x[1] = XorWord(XorWord(e1, e0), y)
        /\ x[2] = XorWord(XorWord(XorWord(e2, e1), e0), y)
        /\ x[3] = XorWord(XorWord(XorWord(XorWord(e3, e2), e1), e0), y)
    BY <1>1, <1>8, <1>9, <1>10, <1>11
  <2> HIDE DEF e0, e1, e2, e3
  <2>2. /\ x[0] \in Word
        /\ x[1] = XorWord(e1, x[0]) /\ x[1] \in Word
        /\ x[2] = XorWord(e2, x[1]) /\ x[2] \in Word
        /\ x[3] = XorWord(e3, x[2]) /\ x[3] \in Word
    BY <1>1, <2>1, XorChain
  <2> QED BY <2>2 DEF e0, e1, e2, e3
<1>16. x \in Vec
  <2>1. \A l \in 0 .. 3 : x[l] \in Word
    <3>1. \A l \in 0 .. 3 : l = 0 \/ l = 1 \/ l = 2 \/ l = 3
      OBVIOUS
    <3> QED BY <1>12, <3>1
  <2> QED BY <1>6, <2>1 DEF Vec
<1>17. \A l \in 1 .. 3 : x[l] = XorWord(u[l], x[l - 1])
  <2>1. \A l \in 1 .. 3 : l = 1 \/ l = 2 \/ l = 3
    OBVIOUS
  <2> QED BY <1>12, <2>1
<1> QED BY <1>8, <1>16, <1>17 DEF x, y, Cascaded

LEMMA AssistWords ==
  ASSUME NEW u \in Vec, NEW n \in 0 .. 10
  PROVE  /\ Assisted(u, n) = {keygenassist(u, n)}
         /\ keygenassist(u, n)[2] = SubWord(u[3]) /\ SubWord(u[3]) \in Word
         /\ n # 0 => \A l \in {1, 3} :
                       /\ keygenassist(u, n)[l] = WithRcon(SubWord(RotWord(u[l])), n)
                       /\ WithRcon(SubWord(RotWord(u[l])), n) \in Word
<1>1. u[1] \in Word /\ u[3] \in Word
  BY DEF Vec
<1>2. Assisted(u, n) = {keygenassist(u, n)}
  BY DEF Assisted, StubCases
<1>3. keygenassist(u, n)[2] = SubWord(u[3]) /\ SubWord(u[3]) \in Word
  BY <1>1, SubstitutedWord DEF keygenassist
<1>4. ASSUME n # 0, NEW l \in {1, 3}
      PROVE  /\ keygenassist(u, n)[l] = WithRcon(SubWord(RotWord(u[l])), n)
             /\ WithRcon(SubWord(RotWord(u[l])), n) \in Word
  <2>1. n \in 1 .. 10 /\ u[l] \in Word
    BY <1>1, <1>4
  <2>2. RotWord(SubWord(u[l])) = SubWord(RotWord(u[l])) /\ RotWord(u[l]) \in Word
    BY <2>1, SubstitutedWord
  <2>3. SubWord(RotWord(u[l])) \in Word
    BY <2>2, SubstitutedWord
  <2>4. keygenassist(u, n)[l] = WithRcon(RotWord(SubWord(u[l])), n)
    BY <1>4 DEF keygenassist
  <2> QED BY <2>1, <2>2, <2>3, <2>4, RconWord
<1> QED BY <1>2, <1>3, <1>4

-----------------------------------------------------------------------------
(* The expected word by its place in a group of Nk words.                  *)
LEMMA ExpectedAt ==
  ASSUME NEW w, NEW key, NEW bits, NEW q \in Nat, NEW r \in Nat, NEW n \in Nat,
         Nk(bits) \in {4, 6, 8}, q >= 1, r < Nk(bits), n = q * Nk(bits) + r
  PROVE  Expected(w, n, key, bits) =
           XorWord(w[n - Nk(bits)],
                   IF r = 0 THEN WithRcon(SubWord(RotWord(w[n - 1])), q)
                   ELSE IF r = 4 /\ Nk(bits) = 8 THEN SubWord(w[n - 1]) ELSE w[n - 1])
<1> DEFINE N == Nk(bits)
<1>1. N \in Nat \ {0} /\ r \in 0 .. N - 1 /\ q \in Int
  OBVIOUS
<1>2. n >= N
  <2>1. CASE N = 4
    BY <2>1
  <2>2. CASE N = 6
    BY <2>2
  <2>3. CASE N = 8
    BY <2>3
  <2> QED BY <2>1, <2>2, <2>3
<1>3. n % N = r /\ n \div N = q
  <2> HIDE DEF N
  <2> QED BY <1>1, DivModUnique DEF N
<1>4. Expected(w, n, key, bits) = XorWord(w[n - N], Mixin(w, n, bits))
  <2> HIDE DEF N
  <2>1. ~(n < N)
    BY <1>1, <1>2
  <2> QED BY <2>1 DEF Expected, N
<1>5. Mixin(w, n, bits) = IF r = 0 THEN WithRcon(SubWord(RotWord(w[n - 1])), q)
                          ELSE IF N = 8 /\ n % 8 = 4 THEN SubWord(w[n - 1]) ELSE w[n - 1]
  <2> HIDE DEF N
  <2> QED BY <1>3 DEF Mixin, N
<1>6. (N = 8 /\ n % 8 = 4) <=> (r = 4 /\ N = 8)
  <2> HIDE DEF N
  <2> QED BY <1>3
<1> HIDE DEF N
<1> QED BY <1>4, <1>5, <1>6 DEF N

LEMMA ExpectedPlain ==
  ASSUME NEW w, NEW key, NEW bits, NEW q \in Nat, NEW r \in Nat, NEW n \in Nat,
         Nk(bits) \in {4, 6, 8}, q >= 1, r < Nk(bits), n = q * Nk(bits) + r,
         r # 0, Nk(bits) # 8
  PROVE  Expected(w, n, key, bits) = XorWord(w[n - Nk(bits)], w[n - 1])
<1>1. Expected(w, n, key, bits) =
        XorWord(w[n - Nk(bits)],
                IF r = 0 THEN WithRcon(SubWord(RotWord(w[n - 1])), q)
                ELSE IF r = 4 /\ Nk(bits) = 8 THEN SubWord(w[n - 1]) ELSE w[n - 1])
  BY ExpectedAt
<1> QED BY <1>1

(* Four words that a vector has got from Cascade are the expected ones.    *)
LEMMA CascadeExpected ==
  ASSUME NEW v, NEW key, NEW bits, NEW q, NEW r, NEW a, InGroup(a, q, r, Nk(bits)),
         NEW u \in Vec, NEW x \in Vec, NEW y \in Word,
         AssistAt(v, a, q, r, y), Cascaded(u, x, y), Placed(v, u, x, a, Nk(bits))
  PROVE  NewWords(v, a, a + 4, key, bits)
<1> USE DEF Cascaded, Placed, AssistAt, InGroup
<1> DEFINE N == Nk(bits)
<1>1. N \in {4, 6, 8} /\ (r = 4 => N = 8)
  OBVIOUS
<1> SUFFICES ASSUME NEW l \in 0 .. 3
             PROVE  v[a + l] = Expected(v, a + l, key, bits) /\ v[a + l] \in Word
  <2> SUFFICES ASSUME NEW z \in a .. (a + 4) - 1
               PROVE  v[z] = Expected(v, z, key, bits) /\ v[z] \in Word
    BY DEF NewWords
  <2> DEFINE o == z - a
  <2>1. o \in 0 .. 3 /\ z = a + o
    OBVIOUS
  <2> HIDE DEF o
  <2>2. v[a + o] = Expected(v, a + o, key, bits) /\ v[a + o] \in Word
    BY <2>1
  <2> QED BY <2>1, <2>2
<1>2. v[a + l] \in Word
  BY DEF Vec
<1> DEFINE n == a + l
           p == r + l
<1>3. n \in Nat /\ p \in Nat /\ p < N
  BY <1>1
<1>4. n = q * N + p
  <2>1. q * N \in Nat
    BY <1>1
  <2> QED BY <2>1
<1>5. (p = 0 <=> l = 0 /\ r = 0) /\ (p = 4 /\ N = 8 <=> l = 0 /\ r = 4)
  BY <1>1
<1> HIDE DEF n, p, N
<1>6. Expected(v, n, key, bits) =
        XorWord(v[n - N],
                IF p = 0 THEN WithRcon(SubWord(RotWord(v[n - 1])), q)
                ELSE IF p = 4 /\ N = 8 THEN SubWord(v[n - 1]) ELSE v[n - 1])
  BY <1>1, <1>3, <1>4, ExpectedAt DEF N
<1>7. v[n - N] = u[l] /\ v[n] = x[l]
  BY DEF n, N
<1>8. CASE l = 0
  <2>1. n = a
    BY <1>8 DEF n
  <2>2. Expected(v, n, key, bits) = XorWord(u[0], y)
    BY <1>1, <1>5, <1>6, <1>7, <1>8, <2>1
  <2> QED BY <1>2, <1>7, <1>8, <2>2 DEF n
<1>9. CASE l # 0
  <2>1. l \in 1 .. 3 /\ l - 1 \in 0 .. 3 /\ n - 1 = a + (l - 1)
    BY <1>9 DEF n
  <2>2. v[n - 1] = x[l - 1]
    BY <2>1
  <2>3. Expected(v, n, key, bits) = XorWord(u[l], x[l - 1])
    BY <1>5, <1>6, <1>7, <1>9, <2>2
  <2> QED BY <1>2, <1>7, <2>1, <2>3 DEF n
<1> QED BY <1>8, <1>9

-----------------------------------------------------------------------------
(* A schedule that is longer by several words, and agreement on them.      *)
LEMMA ScheduledLonger ==
  ASSUME NEW w, NEW v, NEW a \in Nat, NEW b \in Nat, a <= b, NEW key, NEW bits,
         Nk(bits) \in {4, 6, 8}, Scheduled(w, a, key, bits), Words(w, a),
         \A z \in 0 .. a-1 : v[z] = w[z],
         NewWords(v, a, b, key, bits)
  PROVE  Scheduled(v, b, key, bits) /\ Words(v, b)
<1>1. Scheduled(v, a, key, bits) /\ Words(v, a)
  BY ScheduledKept
<1>2. \A z \in 0 .. b-1 : z \in 0 .. a-1 \/ z \in a .. b-1
  OBVIOUS
<1>3. \A z \in 0 .. a-1 : v[z] = Expected(v, z, key, bits) /\ v[z] \in Word
  BY <1>1, ScheduledIs DEF Words
<1>4. \A z \in 0 .. b-1 : v[z] = Expected(v, z, key, bits) /\ v[z] \in Word
  BY <1>2, <1>3 DEF NewWords
<1> QED BY <1>4, ScheduledIs DEF Words

LEMMA ScheduledPrefix ==
  ASSUME NEW w, NEW a \in Nat, NEW b \in Nat, a <= b, NEW key, NEW bits,
         Scheduled(w, b, key, bits)
  PROVE  Scheduled(w, a, key, bits)
<1>1. \A z \in 0 .. a-1 : z \in 0 .. b-1
  OBVIOUS
<1> QED BY <1>1, ScheduledIs

LEMMA AgreeLonger ==
  ASSUME NEW w, NEW v, NEW a \in Nat, NEW b \in Nat, NEW x \in {4, 6}, NEW key, NEW bits,
         Nk(bits) \in {4, 6, 8},
         Scheduled(w, a, key, bits), Scheduled(v, b + x, key, bits), SameBelow(w, v, a, b)
  PROVE  SameBelow(w, v, a, b + x)
<1>1. ASSUME NEW z \in Nat, z < b + x, SameBelow(v, w, z, a)
      PROVE  SameBelow(v, w, z + 1, a)
  <2>1. Scheduled(v, z + 1, key, bits)
    BY <1>1, ScheduledPrefix
  <2> QED BY <1>1, <2>1, AgreeMore
<1>2. SameBelow(v, w, b, a)
  BY DEF SameBelow
<1>3. SameBelow(v, w, b + 1, a)
  BY <1>1, <1>2
<1>4. SameBelow(v, w, b + 2, a)
  <2>1. b + 1 \in Nat /\ b + 1 < b + x /\ (b + 1) + 1 = b + 2
    OBVIOUS
  <2> QED BY <1>1, <1>3, <2>1
<1>5. SameBelow(v, w, b + 3, a)
  <2>1. b + 2 \in Nat /\ b + 2 < b + x /\ (b + 2) + 1 = b + 3
    OBVIOUS
  <2> QED BY <1>1, <1>4, <2>1
<1>6. SameBelow(v, w, b + 4, a)
  <2>1. b + 3 \in Nat /\ b + 3 < b + x /\ (b + 3) + 1 = b + 4
    OBVIOUS
  <2> QED BY <1>1, <1>5, <2>1
<1>7. CASE x = 4
  BY <1>6, <1>7 DEF SameBelow
<1>8. CASE x = 6
  <2>1. SameBelow(v, w, b + 5, a)
    <3>1. b + 4 \in Nat /\ b + 4 < b + x /\ (b + 4) + 1 = b + 5
      BY <1>8
    <3> QED BY <1>1, <1>6, <3>1
  <2>2. SameBelow(v, w, b + 6, a)
    <3>1. b + 5 \in Nat /\ b + 5 < b + x /\ (b + 5) + 1 = b + 6
      BY <1>8
    <3> QED BY <1>1, <2>1, <3>1
  <2> QED BY <1>8, <2>2 DEF SameBelow
<1> QED BY <1>7, <1>8

(* A vector stored in an array.                                            *)
LEMMA FlatStored ==
  ASSUME NEW f, NEW p, NEW x, NEW g, Stored(g, f, p, x), NEW l \in 0 .. 3
  PROVE  Flat(g)[4*p + l] = x[l]
<1>1. g[p] = x /\ p \in 0 .. 14
  BY DEF Stored
<1>2. Flat(g)[4*p + l] = g[p][l]
  BY <1>1, FlatAt
<1> QED BY <1>1, <1>2

LEMMA FlatKept ==
  ASSUME NEW f, NEW p, NEW x, NEW g, Stored(g, f, p, x),
         NEW n \in 0 .. 59, n < 4*p \/ n > 4*p + 3
  PROVE  Flat(g)[n] = Flat(f)[n]
<1>1. PICK q \in 0 .. 14, l \in 0 .. 3 : n = 4*q + l
  BY FlatParts
<1>2. q # p
  BY <1>1 DEF Stored
<1>3. g[q] = f[q]
  BY <1>2 DEF Stored
<1>4. Flat(g)[4*q + l] = g[q][l] /\ Flat(f)[4*q + l] = f[q][l]
  BY FlatAt
<1> QED BY <1>1, <1>3, <1>4

(* Storing a vector of four expected words behind a schedule.              *)
LEMMA StoreCascade ==
  ASSUME NEW f, NEW p, NEW key, NEW bits,
         NEW q, NEW r, InGroup(4*p, q, r, Nk(bits)),
         Words(Flat(f), 4*p), Scheduled(Flat(f), 4*p, key, bits),
         NEW u \in Vec, NEW x \in Vec, NEW y \in Word,
         AssistAt(Flat(f), 4*p, q, r, y), Cascaded(u, x, y), Behind(Flat(f), u, 4*p, Nk(bits)),
         NEW g, Stored(g, f, p, x)
  PROVE  /\ Words(Flat(g), 4*p + 4) /\ Scheduled(Flat(g), 4*p + 4, key, bits)
         /\ \A n \in 0 .. 4*p - 1 : Flat(g)[n] = Flat(f)[n]
         /\ \A l \in 0 .. 3 : Flat(g)[4*p + l] = x[l]
<1> DEFINE w == Flat(f)
           v == Flat(g)
           a == 4*p
           N == Nk(bits)
<1>4. p \in 0 .. 14 /\ a = 4*p
  BY DEF Stored
<1>1. ASSUME NEW l \in 0 .. 3 PROVE v[a + l] = x[l]
  BY FlatStored
<1>2. /\ a \in Nat /\ a >= N /\ a >= 1 /\ a = q * N + r
      /\ N \in {4, 6, 8} /\ (r = 4 => N = 8) /\ a - 1 \in 0 .. 59
      /\ q \in Nat /\ q >= 1 /\ r \in {0, 4}
  <2>1. /\ N \in {4, 6, 8} /\ (r = 4 => N = 8) /\ a = q * N + r
        /\ q \in Nat /\ q >= 1 /\ r \in {0, 4}
    BY DEF InGroup
  <2> HIDE DEF N
  <2>2. q * N + r >= N
    <3>1. CASE N = 4
      BY <2>1, <3>1
    <3>2. CASE N = 6
      BY <2>1, <3>2
    <3>3. CASE N = 8
      BY <2>1, <3>3
    <3> QED BY <2>1, <3>1, <3>2, <3>3
  <2> QED BY <1>4, <2>1, <2>2 DEF N
<1>3. /\ y = IF r = 0 THEN WithRcon(SubWord(RotWord(w[a - 1])), q) ELSE SubWord(w[a - 1])
      /\ \A l \in 0 .. 3 : u[l] = w[a + l - N]
      /\ Words(w, a) /\ Scheduled(w, a, key, bits)
  BY DEF AssistAt, Behind
<1>5. ASSUME NEW n \in 0 .. a - 1 PROVE v[n] = w[n]
  <2>1. n \in 0 .. 59 /\ n < 4*p
    BY <1>4
  <2> QED BY <2>1, FlatKept
<1> HIDE DEF w, v, a, N
<1>6. ASSUME NEW l \in 0 .. 3 PROVE u[l] = v[a + l - N]
  <2>1. a + l - N \in 0 .. a-1
    BY <1>2
  <2> QED BY <1>3, <1>5, <2>1
<1>7. AssistAt(v, a, q, r, y)
  <2>1. a - 1 \in 0 .. a-1
    BY <1>2
  <2>2. v[a - 1] = w[a - 1]
    BY <1>5, <2>1
  <2> QED BY <1>3, <2>2 DEF AssistAt
<1>8. NewWords(v, a, a + 4, key, bits)
  <2>1. Placed(v, u, x, a, Nk(bits))
    BY <1>1, <1>6 DEF Placed, N
  <2>2. InGroup(a, q, r, Nk(bits))
    BY DEF a
  <2> QED BY <1>7, <2>1, <2>2, CascadeExpected
<1>9. Scheduled(v, a + 4, key, bits) /\ Words(v, a + 4)
  <2> DEFINE b == a + 4
  <2>1. b \in Nat /\ a <= b
    BY <1>2
  <2>2. NewWords(v, a, b, key, bits)
    BY <1>8
  <2>4. Nk(bits) \in {4, 6, 8}
    BY <1>2 DEF N
  <2> HIDE DEF b
  <2>3. Scheduled(v, b, key, bits) /\ Words(v, b)
    BY <1>2, <1>3, <1>5, <2>1, <2>2, <2>4, ScheduledLonger
  <2> QED BY <2>3 DEF b
<1>10. \A n \in 0 .. a-1 : v[n] = w[n]
  BY <1>5
<1>11. \A l \in 0 .. 3 : v[a + l] = x[l]
  BY <1>1
<1> QED BY <1>9, <1>10, <1>11 DEF w, v, a

-----------------------------------------------------------------------------
(* Every assist makes the schedule longer and leaves what is there.        *)
Longer(x) ==
  /\ AesniDone \in Nat /\ AesniDone' = AesniDone + x
  /\ \A n \in 0 .. AesniDone - 1 : Flat(ks)'[n] = Flat(ks)[n]

(* While the schedule is not complete, no round key is copied.             *)
LEMMA StillExpanding ==
  ASSUME KeyInv, CopyInv, apc = "expand", UNCHANGED <<keyBits, cipherKey, m, ckey, apc>>
  PROVE  CopyInv'
<1>1. /\ m = 0 /\ DOMAIN ckey = 0 .. 14
      /\ m' = 0 /\ ckey' = ckey /\ apc' = "expand" /\ keyBits' = keyBits
  BY DEF CopyInv
<1>2. Rounds(keyBits) \in Nat
  BY Sizes
<1>3. 0 .. m' - 1 = {}
  BY <1>1
<1>4. m' \in 0 .. Rounds(keyBits') + 1
  BY <1>1, <1>2
<1> QED BY <1>1, <1>3, <1>4 DEF CopyInv

LEMMA StoredType ==
  ASSUME NEW f \in [0 .. 14 -> [0 .. 3 -> Word \cup {Unset}]], NEW p, NEW x \in Vec, NEW g,
         Stored(g, f, p, x)
  PROVE  g \in [0 .. 14 -> [0 .. 3 -> Word \cup {Unset}]]
<1>1. x \in [0 .. 3 -> Word \cup {Unset}]
  BY DEF Vec
<1> QED BY <1>1 DEF Stored

LEMMA Expand128Inv ==
  ASSUME KeyInv, AInv, Expand128, UNCHANGED <<keyBits, cipherKey>>
  PROVE  AInv' /\ Longer(4)
<1> DEFINE p == c + 1
           w == Flat(ks)
           v == Flat(ks')
<1>1. /\ apc = "expand" /\ keyBits = 128 /\ c < 10
      /\ \E t2 \in Assisted(t1, p) : t1' = aesni_128_assist(t1, t2)
      /\ ks' = [ks EXCEPT ![p] = t1'] /\ c' = p
      /\ UNCHANGED <<t3, half, m, ckey, apc>>
  BY DEF Expand128
<1>2. /\ ks \in [0 .. 14 -> [0 .. 3 -> Word \cup {Unset}]] /\ t1 \in Vec
      /\ half \in BOOLEAN /\ (half => keyBits = 256) /\ c \in 0 .. 10
      /\ \A l \in 0 .. 3 : t1[l] = w[4*c + l]
  BY <1>1, Sizes DEF AInv, ATypes, RegisterInv
<1>3. AesniDone = 4*p /\ AesniDone' = 4*(c' + 1)
  BY <1>1 DEF AesniDone
<1>4. p \in 1 .. 10 /\ p \in 0 .. 14 /\ p \in Nat /\ 4*p - 1 = 4*c + 3
      /\ \A l \in 0 .. 3 : 4*p + l - 4 = 4*c + l
  BY <1>1, <1>2
<1>5. Words(w, 4*p) /\ Scheduled(w, 4*p, cipherKey, 128)
  BY <1>1, <1>3 DEF AInv, ScheduleInv
<1> DEFINE t2 == keygenassist(t1, p)
           y == WithRcon(SubWord(RotWord(t1[3])), p)
<1>6. t2[3] = y /\ y \in Word /\ t1' = aesni_128_assist(t1, t2)
  <2>1. p \in 0 .. 10 /\ p # 0 /\ 3 \in {1, 3}
    BY <1>4
  <2> HIDE DEF p
  <2>2. Assisted(t1, p) = {t2} /\ t2[3] = y /\ y \in Word
    BY <1>2, <2>1, AssistWords
  <2> HIDE DEF t2
  <2> QED BY <1>1, <2>2
<1> HIDE DEF p, t2
<1>7. t1' \in Vec /\ Cascaded(t1, t1', y)
  <2>1. t2[3] \in Word
    BY <1>6
  <2>2. t1' = mm_xor(Cascade(t1), Broadcast(t2, 3))
    BY <1>6 DEF aesni_128_assist
  <2>3. t1' \in Vec /\ Cascaded(t1, t1', t2[3])
    BY <1>2, <2>1, <2>2, CascadeWords
  <2> QED BY <1>6, <2>3
<1>8. Stored(ks', ks, p, t1')
  BY <1>1, <1>2, <1>4 DEF Stored
<1>9. Nk(128) = 4
  BY DEF Nk
<1>10. /\ Words(v, 4*p + 4) /\ Scheduled(v, 4*p + 4, cipherKey, 128)
       /\ \A n \in 0 .. 4*p - 1 : v[n] = w[n]
       /\ \A l \in 0 .. 3 : v[4*p + l] = t1'[l]
  <2>1. AssistAt(w, 4*p, p, 0, y)
    BY <1>2, <1>4 DEF AssistAt
  <2>2. Behind(w, t1, 4*p, Nk(128))
    BY <1>2, <1>4, <1>9 DEF Behind
  <2>3. InGroup(4*p, p, 0, Nk(128))
    BY <1>4, <1>9 DEF InGroup
  <2> HIDE DEF y
  <2> QED BY <1>2, <1>5, <1>6, <1>7, <1>8, <2>1, <2>2, <2>3, StoreCascade
<1>11. AesniDone' = 4*p + 4
  BY <1>1, <1>3, <1>4
<1>12. ScheduleInv'
  BY <1>1, <1>10, <1>11 DEF ScheduleInv
<1>13. Longer(4)
  BY <1>3, <1>4, <1>10, <1>11 DEF Longer
<1>14. ATypes'
  <2>1. ks' \in [0 .. 14 -> [0 .. 3 -> Word \cup {Unset}]]
    BY <1>2, <1>7, <1>8, StoredType
  <2>2. c' \in 0 .. 10 /\ LastAssist(keyBits') = 10
    BY <1>1, <1>4 DEF LastAssist
  <2> QED BY <1>1, <1>2, <1>7, <2>1, <2>2 DEF ATypes
<1>15. RegisterInv'
  <2>1. \A l \in 0 .. 3 : t1'[l] = v[4*c' + l]
    BY <1>1, <1>10
  <2> QED BY <1>1, <2>1 DEF RegisterInv
<1>16. CopyInv'
  BY <1>1, StillExpanding DEF AInv
<1> QED BY <1>12, <1>13, <1>14, <1>15, <1>16 DEF AInv

LEMMA Expand256Inv ==
  ASSUME KeyInv, AInv, Expand256, UNCHANGED <<keyBits, cipherKey>>
  PROVE  AInv' /\ Longer(4)
<1> DEFINE p == 2*c + 2
           q == c + 1
           w == Flat(ks)
           v == Flat(ks')
<1>1. /\ apc = "expand" /\ keyBits = 256 /\ c < 7 /\ half = FALSE
      /\ \E t2 \in Assisted(t3, q) : t1' = aesni_256_assist_1(t1, t2)
      /\ ks' = [ks EXCEPT ![p] = t1'] /\ c' = q /\ half' = (c < 6)
      /\ UNCHANGED <<t3, m, ckey, apc>> /\ keyBits' = 256 /\ cipherKey' = cipherKey
  BY DEF Expand256, AInv, ATypes
<1>2. /\ ks \in [0 .. 14 -> [0 .. 3 -> Word \cup {Unset}]] /\ t1 \in Vec /\ t3 \in Vec
      /\ c \in 0 .. 7
      /\ \A l \in 0 .. 3 : t1[l] = w[8*c + l] /\ t3[l] = w[8*c + 4 + l]
  BY <1>1, Sizes DEF AInv, ATypes, RegisterInv
<1>3. AesniDone = 4*p
  BY <1>1, <1>2 DEF AesniDone
<1>4. /\ q \in 1 .. 7 /\ q \in Nat /\ p \in 0 .. 14 /\ 4*p = 8*c + 8 /\ 4*p - 1 = 8*c + 4 + 3
      /\ \A l \in 0 .. 3 : 4*p + l - 8 = 8*c + l
  BY <1>1, <1>2
<1>5. Words(w, 4*p) /\ Scheduled(w, 4*p, cipherKey, 256)
  BY <1>1, <1>3 DEF AInv, ScheduleInv
<1> DEFINE t2 == keygenassist(t3, q)
           y == WithRcon(SubWord(RotWord(t3[3])), q)
<1>6. t2[3] = y /\ y \in Word /\ t1' = aesni_256_assist_1(t1, t2)
  <2>1. q \in 0 .. 10 /\ q # 0 /\ 3 \in {1, 3}
    BY <1>4
  <2> HIDE DEF q
  <2>2. Assisted(t3, q) = {t2} /\ t2[3] = y /\ y \in Word
    BY <1>2, <2>1, AssistWords
  <2> HIDE DEF t2
  <2> QED BY <1>1, <2>2
<1> HIDE DEF p, q, t2
<1>7. t1' \in Vec /\ Cascaded(t1, t1', y)
  <2>1. t2[3] \in Word
    BY <1>6
  <2>2. t1' = mm_xor(Cascade(t1), Broadcast(t2, 3))
    BY <1>6 DEF aesni_256_assist_1
  <2>3. t1' \in Vec /\ Cascaded(t1, t1', t2[3])
    BY <1>2, <2>1, <2>2, CascadeWords
  <2> QED BY <1>6, <2>3
<1>8. Stored(ks', ks, p, t1')
  BY <1>1, <1>2, <1>4 DEF Stored
<1>9. Nk(256) = 8
  BY DEF Nk
<1>10. /\ Words(v, 4*p + 4) /\ Scheduled(v, 4*p + 4, cipherKey, 256)
       /\ \A n \in 0 .. 4*p - 1 : v[n] = w[n]
       /\ \A l \in 0 .. 3 : v[4*p + l] = t1'[l]
  <2>1. AssistAt(w, 4*p, q, 0, y)
    BY <1>2, <1>4 DEF AssistAt
  <2>2. Behind(w, t1, 4*p, Nk(256))
    BY <1>2, <1>4, <1>9 DEF Behind
  <2>3. InGroup(4*p, q, 0, Nk(256))
    <3>1. 4*p = q * 8 + 0
      BY <1>2, <1>4 DEF q
    <3> QED BY <1>4, <1>9, <3>1 DEF InGroup
  <2> HIDE DEF y
  <2> QED BY <1>2, <1>5, <1>6, <1>7, <1>8, <2>1, <2>2, <2>3, StoreCascade
<1>17. (half' <=> c < 6) /\ half' \in BOOLEAN
  <2>1. (c < 6) \in BOOLEAN
    OBVIOUS
  <2> QED BY ONLY <1>1, <2>1, Zenon
<1>18. c' = c + 1 /\ c' \in 1 .. 7 /\ 8*c' = 4*p /\ (c < 6 <=> c' < 7)
  <2>1. c' = c + 1 /\ c \in 0 .. 7 /\ c < 7 /\ 4*p = 8*c + 8
    BY <1>1, <1>2, <1>4 DEF q
  <2> QED BY ONLY <2>1
<1>11. AesniDone' = 4*p + 4
  <2>1. AesniDone' = 8 + 4*c' + 4 * (IF half' \/ c' = 7 THEN c' - 1 ELSE c')
    BY <1>1 DEF AesniDone
  <2>2. half' \/ c' = 7
    BY <1>17, <1>18
  <2> QED BY <1>18, <2>1, <2>2
<1>12. ScheduleInv'
  BY <1>1, <1>10, <1>11 DEF ScheduleInv
<1>13. Longer(4)
  BY <1>3, <1>4, <1>10, <1>11 DEF Longer
<1>14. ATypes'
  <2>1. ks' \in [0 .. 14 -> [0 .. 3 -> Word \cup {Unset}]]
    BY <1>2, <1>7, <1>8, StoredType
  <2>2. c' \in 0 .. 7 /\ LastAssist(keyBits') = 7 /\ half' \in BOOLEAN /\ (half' => c' \in 1 .. 6)
    BY <1>1, <1>17, <1>18 DEF LastAssist
  <2> QED BY <1>1, <1>2, <1>7, <2>1, <2>2 DEF ATypes
<1>15. RegisterInv'
  <2>2. \A l \in 0 .. 3 : t1'[l] = v[8*c' + l]
    BY <1>10, <1>18
  <2>3. ASSUME NEW l \in 0 .. 3 PROVE t3'[l] = v[8*c' - 4 + l]
    <3>1. 8*c' - 4 + l = 8*c + 4 + l /\ 8*c + 4 + l \in 0 .. 4*p - 1
      BY <1>2, <1>4, <1>18
    <3>2. v[8*c' - 4 + l] = w[8*c + 4 + l]
      <4> HIDE DEF v, w
      <4> QED BY <1>10, <3>1
    <3>3. t3'[l] = t3[l] /\ t3[l] = w[8*c + 4 + l]
      BY <1>1, <1>2
    <3> QED BY <3>2, <3>3
  <2>4. ~half' => ~(c' < 7)
    BY <1>17, <1>18
  <2> QED BY <1>1, <2>2, <2>3, <2>4 DEF RegisterInv
<1>16. CopyInv'
  BY <1>1, StillExpanding DEF AInv
<1> QED BY <1>12, <1>13, <1>14, <1>15, <1>16 DEF AInv

LEMMA Expand256HalfInv ==
  ASSUME KeyInv, AInv, Expand256Half, UNCHANGED <<keyBits, cipherKey>>
  PROVE  AInv' /\ Longer(4)
<1> DEFINE p == 2*c + 1
           w == Flat(ks)
           v == Flat(ks')
<1>1. /\ apc = "expand" /\ keyBits = 256 /\ half
      /\ \E t2 \in Assisted(t1, 0) : t3' = aesni_256_assist_2(t2, t3)
      /\ ks' = [ks EXCEPT ![p] = t3'] /\ half' = FALSE
      /\ UNCHANGED <<t1, c, m, ckey, apc>> /\ keyBits' = 256 /\ cipherKey' = cipherKey
  BY DEF Expand256Half
<1>2. /\ ks \in [0 .. 14 -> [0 .. 3 -> Word \cup {Unset}]] /\ t1 \in Vec /\ t3 \in Vec
      /\ c \in 1 .. 6
      /\ \A l \in 0 .. 3 : t1[l] = w[8*c + l] /\ t3[l] = w[8*c - 4 + l]
  BY <1>1, Sizes DEF AInv, ATypes, RegisterInv
<1>3. AesniDone = 4*p
  BY <1>1, <1>2 DEF AesniDone
<1>4. /\ c \in Nat /\ c >= 1 /\ p \in 0 .. 14 /\ 4*p = 8*c + 4 /\ 4*p - 1 = 8*c + 3
      /\ \A l \in 0 .. 3 : 4*p + l - 8 = 8*c - 4 + l
  BY <1>1, <1>2
<1>5. Words(w, 4*p) /\ Scheduled(w, 4*p, cipherKey, 256)
  BY <1>1, <1>3 DEF AInv, ScheduleInv
<1> DEFINE t2 == keygenassist(t1, 0)
           y == SubWord(t1[3])
<1>6. t2[2] = y /\ y \in Word /\ t3' = aesni_256_assist_2(t2, t3)
  <2>1. Assisted(t1, 0) = {t2} /\ t2[2] = y /\ y \in Word
    BY <1>2, AssistWords
  <2> HIDE DEF t2
  <2> QED BY <1>1, <2>1
<1> HIDE DEF p, t2
<1>7. t3' \in Vec /\ Cascaded(t3, t3', y)
  <2>1. t2[2] \in Word
    BY <1>6
  <2>2. t3' = mm_xor(Cascade(t3), Broadcast(t2, 2))
    BY <1>6 DEF aesni_256_assist_2
  <2>3. t3' \in Vec /\ Cascaded(t3, t3', t2[2])
    BY <1>2, <2>1, <2>2, CascadeWords
  <2> QED BY <1>6, <2>3
<1>8. Stored(ks', ks, p, t3')
  BY <1>1, <1>2, <1>4 DEF Stored
<1>9. Nk(256) = 8
  BY DEF Nk
<1>10. /\ Words(v, 4*p + 4) /\ Scheduled(v, 4*p + 4, cipherKey, 256)
       /\ \A n \in 0 .. 4*p - 1 : v[n] = w[n]
       /\ \A l \in 0 .. 3 : v[4*p + l] = t3'[l]
  <2>1. AssistAt(w, 4*p, c, 4, y)
    BY <1>2, <1>4 DEF AssistAt
  <2>2. Behind(w, t3, 4*p, Nk(256))
    BY <1>2, <1>4, <1>9 DEF Behind
  <2>3. InGroup(4*p, c, 4, Nk(256))
    <3>1. 4*p = c * 8 + 4
      BY <1>2, <1>4
    <3> QED BY <1>4, <1>9, <3>1 DEF InGroup
  <2> HIDE DEF y
  <2> QED BY <1>2, <1>5, <1>6, <1>7, <1>8, <2>1, <2>2, <2>3, StoreCascade
<1>11. AesniDone' = 4*p + 4
  BY <1>1, <1>2 DEF AesniDone, p
<1>12. ScheduleInv'
  BY <1>1, <1>10, <1>11 DEF ScheduleInv
<1>13. Longer(4)
  BY <1>3, <1>4, <1>10, <1>11 DEF Longer
<1>14. ATypes'
  <2>1. ks' \in [0 .. 14 -> [0 .. 3 -> Word \cup {Unset}]]
    BY <1>2, <1>7, <1>8, StoredType
  <2>2. c' \in 0 .. 7 /\ LastAssist(keyBits') = 7
    BY <1>1, <1>2 DEF LastAssist
  <2> QED BY <1>1, <1>2, <1>7, <2>1, <2>2 DEF ATypes
<1>15. RegisterInv'
  <2>1. ASSUME NEW l \in 0 .. 3 PROVE t1'[l] = v[8*c' + l]
    <3>1. 8*c + l \in 0 .. 4*p - 1
      BY <1>2, <1>4
    <3>2. v[8*c + l] = w[8*c + l]
      <4> HIDE DEF v, w
      <4> QED BY <1>10, <3>1
    <3>3. t1'[l] = t1[l] /\ t1[l] = w[8*c + l] /\ c' = c
      BY <1>1, <1>2
    <3> QED BY <3>2, <3>3
  <2>2. \A l \in 0 .. 3 : t3'[l] = v[8*c' + 4 + l]
    BY <1>1, <1>4, <1>10
  <2> QED BY <1>1, <2>1, <2>2 DEF RegisterInv
<1>16. CopyInv'
  BY <1>1, StillExpanding DEF AInv
<1> QED BY <1>12, <1>13, <1>14, <1>15, <1>16 DEF AInv

-----------------------------------------------------------------------------
(* The 192-bit assist: the last two of its six words are combined in the   *)
(* second register, whose upper half never gets into them.                 *)
LEMMA Assist192Words ==
  ASSUME NEW u \in Vec, NEW s \in Vec, NEW p \in 1 .. 10, NEW t2 \in Assisted(s, p)
  PROVE  LET t == aesni_192_assist(u, t2, s)
             y == WithRcon(SubWord(RotWord(s[1])), p)
         IN  /\ t[1] \in Vec /\ Cascaded(u, t[1], y) /\ y \in Word /\ t[2] \in Vec
             /\ t[2][0] = XorWord(s[0], t[1][3]) /\ t[2][1] = XorWord(s[1], t[2][0])
<1> DEFINE x == mm_xor(Cascade(u), Broadcast(t2, 1))
           z == mm_xor(mm_xor(s, mm_slli(s)), Broadcast(x, 3))
           y == WithRcon(SubWord(RotWord(s[1])), p)
<1>1. aesni_192_assist(u, t2, s) = <<x, z>>
  BY DEF aesni_192_assist, Assist192Lane
<1>2. t2[1] = y /\ y \in Word
  <2>1. p \in 0 .. 10 /\ p # 0 /\ 1 \in {1, 3}
    OBVIOUS
  <2>2. Assisted(s, p) = {keygenassist(s, p)} /\ keygenassist(s, p)[1] = y /\ y \in Word
    BY <2>1, AssistWords
  <2> QED BY <2>2
<1>3. x \in Vec /\ Cascaded(u, x, y)
  <2>1. x \in Vec /\ Cascaded(u, x, t2[1])
    BY <1>2, CascadeWords
  <2> QED BY <1>2, <2>1
<1> DEFINE e == x[3]
           s0 == s[0]
           s1 == s[1]
           s2 == s[2]
           s3 == s[3]
<1>4. e \in Word /\ s0 \in Word /\ s1 \in Word /\ s2 \in Word /\ s3 \in Word
  <2> HIDE DEF x
  <2> QED BY <1>3 DEF Vec
<1>5. /\ z[0] = XorWord(XorWord(s0, Zero(s0)), e) /\ z[1] = XorWord(XorWord(s1, s0), e)
      /\ z[2] = XorWord(XorWord(s2, s1), e) /\ z[3] = XorWord(XorWord(s3, s2), e)
      /\ z = [l \in 0 .. 3 |-> z[l]]
  <2> HIDE DEF x
  <2> QED BY DEF mm_xor, mm_slli, Broadcast
<1> HIDE DEF x, z, y, e, s0, s1, s2, s3
<1>6. z[0] = XorWord(s0, e) /\ z[0] \in Word
  BY <1>4, <1>5, XorWordAlgebra, XorWordIsWord
<1>7. z[1] = XorWord(s1, XorWord(s0, e))
  BY <1>4, <1>5, XorWordAlgebra
<1>8. z[1] \in Word
  <2>1. XorWord(s1, s0) \in Word
    BY <1>4, XorWordIsWord
  <2> QED BY <1>4, <1>5, <2>1, XorWordIsWord
<1>9. z[2] \in Word /\ z[3] \in Word
  <2>1. XorWord(s2, s1) \in Word /\ XorWord(s3, s2) \in Word
    BY <1>4, XorWordIsWord
  <2> QED BY <1>4, <1>5, <2>1, XorWordIsWord
<1>10. z \in Vec
  <2>1. \A l \in 0 .. 3 : l = 0 \/ l = 1 \/ l = 2 \/ l = 3
    OBVIOUS
  <2>2. \A l \in 0 .. 3 : z[l] \in Word
    BY <1>6, <1>8, <1>9, <2>1
  <2> QED BY <1>5, <2>2 DEF Vec
<1>11. z[0] = XorWord(s[0], x[3]) /\ z[1] = XorWord(s[1], z[0])
  BY <1>6, <1>7 DEF s0, s1, e
<1> QED BY <1>1, <1>2, <1>3, <1>10, <1>11 DEF x, y, z

LastTwo(v, a, s, x, z) ==
  /\ s[0] = v[a - 2] /\ s[1] = v[a - 1]
  /\ z[0] = XorWord(s[0], x[3]) /\ z[1] = XorWord(s[1], z[0])

LEMMA New192 ==
  ASSUME NEW v, NEW key, NEW bits, Nk(bits) = 6, NEW q, NEW a, InGroup(a, q, 0, 6),
         NEW u \in Vec, NEW x \in Vec, NEW y \in Word, NEW s \in Vec, NEW z \in Vec,
         AssistAt(v, a, q, 0, y), Cascaded(u, x, y), Placed(v, u, x, a, 6),
         LastTwo(v, a, s, x, z)
  PROVE  /\ NewWords(v, a, a + 4, key, bits)
         /\ v[a + 4] = z[0] /\ v[a + 5] = z[1] => NewWords(v, a, a + 6, key, bits)
<1>1. a \in Nat /\ a >= 6 /\ a = q * 6 /\ q \in Nat /\ q >= 1
  BY DEF InGroup
<1>4. /\ s[0] = v[a - 2] /\ s[1] = v[a - 1]
      /\ z[0] = XorWord(s[0], x[3]) /\ z[1] = XorWord(s[1], z[0])
  BY DEF LastTwo
<1>2. NewWords(v, a, a + 4, key, bits)
  <2>1. InGroup(a, q, 0, Nk(bits))
    OBVIOUS
  <2>2. Placed(v, u, x, a, Nk(bits))
    OBVIOUS
  <2> QED BY <2>1, <2>2, CascadeExpected
<1>3. ASSUME v[a + 4] = z[0], v[a + 5] = z[1]
      PROVE  NewWords(v, a, a + 6, key, bits)
  <2>1. ASSUME NEW r \in {4, 5}
        PROVE  Expected(v, a + r, key, bits) = XorWord(v[a + r - 6], v[a + r - 1])
    <3> DEFINE n == a + r
    <3>1. Nk(bits) \in {4, 6, 8} /\ r \in Nat /\ n \in Nat /\ r < Nk(bits)
          /\ n = q * Nk(bits) + r /\ Nk(bits) # 8 /\ r # 0 /\ q \in Nat /\ q >= 1
      BY <1>1
    <3> HIDE DEF n
    <3>2. Expected(v, n, key, bits) = XorWord(v[n - Nk(bits)], v[n - 1])
      BY ONLY <3>1, ExpectedPlain
    <3>3. Nk(bits) = 6
      OBVIOUS
    <3>4. Expected(v, n, key, bits) = XorWord(v[n - 6], v[n - 1])
      BY <3>2, <3>3
    <3> QED BY <1>1, <3>4 DEF n
  <2>2. a + 4 - 6 = a - 2 /\ a + 5 - 6 = a - 1 /\ a + 4 - 1 = a + 3 /\ a + 5 - 1 = a + 4
    BY <1>1
  <2>3. v[a + 3] = x[3] /\ z[0] \in Word /\ z[1] \in Word
    BY DEF Placed, Vec
  <2>4. Expected(v, a + 4, key, bits) = v[a + 4]
    BY <1>3, <1>4, <2>1, <2>2, <2>3
  <2>5. Expected(v, a + 5, key, bits) = v[a + 5]
    BY <1>3, <1>4, <2>1, <2>2
  <2> SUFFICES ASSUME NEW n \in a .. (a + 6) - 1
               PROVE  v[n] = Expected(v, n, key, bits) /\ v[n] \in Word
    BY DEF NewWords
  <2>6. n \in a .. (a + 4) - 1 \/ n = a + 4 \/ n = a + 5
    BY <1>1
  <2> QED BY <1>2, <1>3, <2>3, <2>4, <2>5, <2>6 DEF NewWords
<1> QED BY <1>2, <1>3

(* What Expand192 stores, and where its words get.                         *)
Stored192(g, f, b, x, z) ==
  LET n == 3 * ((b + 1) \div 2)
  IN  /\ DOMAIN f = 0 .. 14 /\ b \in 0 .. 7
      /\ g = IF b % 2 = 0
             THEN [f EXCEPT ![n + 1] = LowLow(@, x), ![n + 2] = HighLow(x, z)]
             ELSE IF b = 7 THEN [f EXCEPT ![n] = x]
             ELSE [f EXCEPT ![n] = x, ![n + 1] = z]

LEMMA Store192 ==
  ASSUME NEW f, NEW g, NEW b, NEW x, NEW z, Stored192(g, f, b, x, z)
  PROVE  /\ \A l \in 0 .. 3 : Flat(g)[6 * (b + 1) + l] = x[l]
         /\ b # 7 => \A l \in 0 .. 1 : Flat(g)[6 * (b + 1) + 4 + l] = z[l]
         /\ \A n \in 0 .. 6 * (b + 1) - 1 : Flat(g)[n] = Flat(f)[n]
<1> DEFINE a == 6 * (b + 1)
           o == 3 * ((b + 1) \div 2)
<1>1. /\ DOMAIN f = 0 .. 14 /\ b \in 0 .. 7
      /\ g = IF b % 2 = 0
             THEN [f EXCEPT ![o + 1] = LowLow(@, x), ![o + 2] = HighLow(x, z)]
             ELSE IF b = 7 THEN [f EXCEPT ![o] = x]
             ELSE [f EXCEPT ![o] = x, ![o + 1] = z]
  BY DEF Stored192
<1>2. PICK h \in Nat, r \in 0 .. 1 : b = h * 2 + r /\ b % 2 = r
  <2>1. b \in Nat /\ 2 \in Nat \ {0} /\ 2 - 1 = 1
    BY <1>1
  <2> QED BY <2>1, DivModParts
<1>3. h \in 0 .. 3
  BY <1>1, <1>2
<1> HIDE DEF o
<1>4. CASE r = 0
  <2>1. o = 3*h
    <3>1. b + 1 = h * 2 + 1 /\ h \in Int /\ 1 \in 0 .. 2-1 /\ 2 \in Nat \ {0}
      BY <1>2, <1>4
    <3>2. (h * 2 + 1) \div 2 = h
      BY <3>1, DivModUnique
    <3> QED BY <3>1, <3>2 DEF o
  <2>2. /\ g[o + 1] = LowLow(f[o + 1], x) /\ g[o + 2] = HighLow(x, z)
        /\ \A q \in 0 .. 14 : q # o + 1 /\ q # o + 2 => g[q] = f[q]
        /\ o + 1 \in 0 .. 14 /\ o + 2 \in 0 .. 14
    <3>1. o + 1 \in 0 .. 14 /\ o + 2 \in 0 .. 14 /\ o + 1 # o + 2
      BY <1>3, <2>1
    <3>2. g = [f EXCEPT ![o + 1] = LowLow(@, x), ![o + 2] = HighLow(x, z)]
      BY <1>1, <1>2, <1>4
    <3> QED BY <1>1, <3>1, <3>2
  <2>3. a = 12*h + 6 /\ a = 4*(o + 1) + 2 /\ b # 7
    BY <1>2, <1>4, <2>1
  <2> HIDE DEF a
  <2>4. ASSUME NEW l \in 0 .. 3
        PROVE  /\ Flat(g)[4*(o + 1) + l] = IF l < 2 THEN f[o + 1][l] ELSE x[l - 2]
               /\ Flat(g)[4*(o + 2) + l] = IF l < 2 THEN x[l + 2] ELSE z[l - 2]
    <3> DEFINE q1 == o + 1
               q2 == o + 2
    <3>1. q1 \in 0 .. 14 /\ q2 \in 0 .. 14 /\ g[q1] = LowLow(f[q1], x) /\ g[q2] = HighLow(x, z)
      BY <2>2
    <3> HIDE DEF q1, q2
    <3>2. Flat(g)[4*q1 + l] = g[q1][l] /\ Flat(g)[4*q2 + l] = g[q2][l]
      BY <3>1, FlatAt
    <3>3. /\ LowLow(f[q1], x)[l] = IF l < 2 THEN f[q1][l] ELSE x[l - 2]
          /\ HighLow(x, z)[l] = IF l < 2 THEN x[l + 2] ELSE z[l - 2]
      BY DEF LowLow, HighLow
    <3>4. /\ Flat(g)[4*q1 + l] = IF l < 2 THEN f[q1][l] ELSE x[l - 2]
          /\ Flat(g)[4*q2 + l] = IF l < 2 THEN x[l + 2] ELSE z[l - 2]
      BY <3>1, <3>2, <3>3
    <3> QED BY <3>4 DEF q1, q2
  <2>5. ASSUME NEW l \in 0 .. 3 PROVE Flat(g)[a + l] = x[l]
    <3>1. CASE l < 2
      <4>1. a + l = 4*(o + 1) + (l + 2) /\ l + 2 \in 0 .. 3 /\ ~(l + 2 < 2) /\ (l + 2) - 2 = l
        BY <1>3, <2>1, <2>3, <3>1
      <4> QED BY <2>4, <4>1
    <3>2. CASE ~(l < 2)
      <4>1. a + l = 4*(o + 2) + (l - 2) /\ l - 2 \in 0 .. 3 /\ l - 2 < 2 /\ (l - 2) + 2 = l
        BY <1>3, <2>1, <2>3, <3>2
      <4> QED BY <2>4, <4>1
    <3> QED BY <3>1, <3>2
  <2>6. ASSUME NEW l \in 0 .. 1 PROVE Flat(g)[a + 4 + l] = z[l]
    <3>1. /\ a + 4 + l = 4*(o + 2) + (l + 2) /\ l + 2 \in 0 .. 3 /\ ~(l + 2 < 2)
          /\ (l + 2) - 2 = l
      BY <1>3, <2>1, <2>3
    <3> QED BY <2>4, <3>1
  <2>7. ASSUME NEW n \in 0 .. a - 1 PROVE Flat(g)[n] = Flat(f)[n]
    <3>1. n \in 0 .. 59
      BY <1>3, <2>3
    <3>2. PICK q \in 0 .. 14, l \in 0 .. 3 : n = 4*q + l
      BY <3>1, FlatParts
    <3>3. q # o + 2 /\ (q = o + 1 => l < 2)
      BY <1>3, <2>1, <2>3, <3>2
    <3>4. Flat(g)[n] = g[q][l] /\ Flat(f)[n] = f[q][l]
      BY <3>2, FlatAt
    <3>5. CASE q = o + 1
      BY <2>4, <3>2, <3>3, <3>4, <3>5
    <3>6. CASE q # o + 1
      BY <2>2, <3>3, <3>4, <3>6
    <3> QED BY <3>5, <3>6
  <2> QED BY <2>5, <2>6, <2>7 DEF a
<1>5. CASE r = 1
  <2>1. o = 3*(h + 1)
    <3>1. b + 1 = (h + 1) * 2 + 0 /\ h + 1 \in Int /\ 0 \in 0 .. 2-1 /\ 2 \in Nat \ {0}
      BY <1>2, <1>5
    <3>2. ((h + 1) * 2 + 0) \div 2 = h + 1
      BY <3>1, DivModUnique
    <3> QED BY <3>1, <3>2 DEF o
  <2>2. a = 4*o /\ (b # 7 => o + 1 \in 0 .. 14) /\ o \in 0 .. 14 /\ o \in Nat
    BY <1>2, <1>3, <1>5, <2>1
  <2>3. /\ g[o] = x /\ (b # 7 => g[o + 1] = z)
        /\ \A q \in 0 .. 14 : q # o /\ q # o + 1 => g[q] = f[q]
    <3>1. g = IF b = 7 THEN [f EXCEPT ![o] = x] ELSE [f EXCEPT ![o] = x, ![o + 1] = z]
      BY <1>1, <1>2, <1>5
    <3>2. o # o + 1
      BY <2>2
    <3> QED BY <1>1, <2>2, <3>1, <3>2
  <2> HIDE DEF a
  <2>4. ASSUME NEW l \in 0 .. 3 PROVE Flat(g)[a + l] = x[l]
    <3>1. Flat(g)[4*o + l] = g[o][l]
      BY <2>2, FlatAt
    <3> QED BY <2>2, <2>3, <3>1
  <2>5. ASSUME b # 7, NEW l \in 0 .. 1 PROVE Flat(g)[a + 4 + l] = z[l]
    <3>1. a + 4 + l = 4*(o + 1) + l /\ l \in 0 .. 3 /\ o + 1 \in 0 .. 14
      BY <2>2, <2>5
    <3>2. Flat(g)[4*(o + 1) + l] = g[o + 1][l]
      BY <3>1, FlatAt
    <3> QED BY <2>3, <2>5, <3>1, <3>2
  <2>6. ASSUME NEW n \in 0 .. a - 1 PROVE Flat(g)[n] = Flat(f)[n]
    <3>1. n \in 0 .. 59
      BY <2>2
    <3>2. PICK q \in 0 .. 14, l \in 0 .. 3 : n = 4*q + l
      BY <3>1, FlatParts
    <3>3. q # o /\ q # o + 1
      BY <2>2, <3>2
    <3>4. Flat(g)[n] = g[q][l] /\ Flat(f)[n] = f[q][l]
      BY <3>2, FlatAt
    <3> QED BY <2>3, <3>3, <3>4
  <2> QED BY <2>4, <2>5, <2>6 DEF a
<1> QED BY <1>2, <1>4, <1>5

LEMMA Store192Type ==
  ASSUME NEW f \in [0 .. 14 -> [0 .. 3 -> Word \cup {Unset}]], NEW g, NEW b,
         NEW x \in Vec, NEW z \in Vec, Stored192(g, f, b, x, z)
  PROVE  g \in [0 .. 14 -> [0 .. 3 -> Word \cup {Unset}]]
<1> DEFINE o == 3 * ((b + 1) \div 2)
           V == [0 .. 3 -> Word \cup {Unset}]
<1>1. g = IF b % 2 = 0
          THEN [f EXCEPT ![o + 1] = LowLow(@, x), ![o + 2] = HighLow(x, z)]
          ELSE IF b = 7 THEN [f EXCEPT ![o] = x]
          ELSE [f EXCEPT ![o] = x, ![o + 1] = z]
  BY DEF Stored192
<1> HIDE DEF o
<1>2. x \in V /\ z \in V
  BY DEF Vec
<1>3. HighLow(x, z) \in V
  <2>1. \A l \in 0 .. 3 : (l < 2 => l + 2 \in 0 .. 3) /\ (~(l < 2) => l - 2 \in 0 .. 3)
    OBVIOUS
  <2> QED BY <1>2, <2>1 DEF HighLow
<1>4. \A q \in 0 .. 14 : LowLow(f[q], x) \in V
  <2> SUFFICES ASSUME NEW q \in 0 .. 14 PROVE LowLow(f[q], x) \in V
    OBVIOUS
  <2>1. f[q] \in V
    OBVIOUS
  <2>2. \A l \in 0 .. 3 : ~(l < 2) => l - 2 \in 0 .. 3
    OBVIOUS
  <2> QED BY <1>2, <2>1, <2>2 DEF LowLow
<1> HIDE DEF V
<1>5. f \in [0 .. 14 -> V]
  BY DEF V
<1>6. g \in [0 .. 14 -> V]
  <2>1. CASE b % 2 = 0
    <3> DEFINE f1 == [f EXCEPT ![o + 1] = LowLow(@, x)]
    <3>1. g = [f1 EXCEPT ![o + 2] = HighLow(x, z)]
      BY <1>1, <2>1
    <3>2. f1 \in [0 .. 14 -> V]
      BY <1>4, <1>5
    <3> HIDE DEF f1
    <3> QED BY <1>3, <3>1, <3>2
  <2>2. CASE b % 2 # 0
    BY <1>1, <1>2, <1>5, <2>2
  <2> QED BY <2>1, <2>2
<1> QED BY <1>6 DEF V

LEMMA Expand192Inv ==
  ASSUME KeyInv, AInv, Expand192, UNCHANGED <<keyBits, cipherKey>>
  PROVE  AInv' /\ \E x \in {4, 6} : Longer(x)
<1> DEFINE q == c + 1
           a == 6*q
           w == Flat(ks)
           v == Flat(ks')
           y == WithRcon(SubWord(RotWord(t3[1])), q)
<1>1. /\ apc = "expand" /\ keyBits = 192 /\ c < 8 /\ c' = q
      /\ UNCHANGED <<half, m, ckey, apc>> /\ keyBits' = 192 /\ cipherKey' = cipherKey
  BY DEF Expand192
<1>2. /\ ks \in [0 .. 14 -> [0 .. 3 -> Word \cup {Unset}]] /\ t1 \in Vec /\ t3 \in Vec
      /\ c \in 0 .. 7 /\ half \in BOOLEAN /\ (half => keyBits = 256)
      /\ \A l \in 0 .. 3 : t1[l] = w[6*c + l]
      /\ \A l \in 0 .. 1 : t3[l] = w[6*c + 4 + l]
  <2>1. c \in 0 .. 8 => c \in 0 .. 7
    BY <1>1
  <2> QED BY <1>1, <2>1, Sizes DEF AInv, ATypes, RegisterInv
<1>3. PICK t2 \in Assisted(t3, q) :
        LET t == aesni_192_assist(t1, t2, t3)
            n == 3 * (q \div 2)
        IN  /\ t1' = t[1] /\ t3' = t[2]
            /\ ks' = IF c % 2 = 0
                     THEN [ks EXCEPT ![n + 1] = LowLow(@, t1'), ![n + 2] = HighLow(t1', t3')]
                     ELSE IF c = 7 THEN [ks EXCEPT ![n] = t1']
                     ELSE [ks EXCEPT ![n] = t1', ![n + 1] = t3']
  BY DEF Expand192
<1>4. /\ t1' \in Vec /\ Cascaded(t1, t1', y) /\ y \in Word /\ t3' \in Vec
      /\ t3'[0] = XorWord(t3[0], t1'[3]) /\ t3'[1] = XorWord(t3[1], t3'[0])
  <2>1. q \in 1 .. 10
    BY <1>2
  <2> HIDE DEF q
  <2> QED BY <1>2, <1>3, <2>1, Assist192Words
<1>5. Stored192(ks', ks, c, t1', t3')
  BY <1>2, <1>3 DEF Stored192
<1>6. /\ \A l \in 0 .. 3 : v[a + l] = t1'[l]
      /\ c # 7 => \A l \in 0 .. 1 : v[a + 4 + l] = t3'[l]
      /\ \A n \in 0 .. a - 1 : v[n] = w[n]
  BY <1>5, Store192
<1>7. AesniDone = a /\ AesniDone' = IF q = 8 THEN 52 ELSE 6 * (q + 1)
  <2>1. c # 8
    BY <1>2
  <2> QED BY <1>1, <2>1 DEF AesniDone
<1>8. Words(w, a) /\ Scheduled(w, a, cipherKey, 192)
  BY <1>1, <1>7 DEF AInv, ScheduleInv
<1>9. /\ q \in 1 .. 8 /\ q \in Nat /\ q >= 1 /\ a \in Nat /\ a = q * 6 /\ a - 1 = 6*c + 4 + 1
      /\ a - 2 = 6*c + 4 + 0 /\ (q = 8 <=> c = 7) /\ (c = 7 => a + 4 = 52)
      /\ 6 * (q + 1) = a + 6
      /\ \A l \in 0 .. 3 : a + l - 6 = 6*c + l /\ 6*c + l \in 0 .. a - 1
      /\ \A l \in 0 .. 1 : 6*c + 4 + l \in 0 .. a - 1
  BY <1>2
<1>10. Nk(192) = 6
  BY DEF Nk
<1> HIDE DEF q, a, v, w, y
<1>11. v[a - 1] = t3[1] /\ v[a - 2] = t3[0] /\ \A l \in 0 .. 3 : t1[l] = v[a + l - 6]
  <2>1. a - 1 \in 0 .. a - 1 /\ a - 2 \in 0 .. a - 1 /\ 0 \in 0 .. 1 /\ 1 \in 0 .. 1
    BY <1>9
  <2>2. v[a - 1] = t3[1] /\ v[a - 2] = t3[0]
    BY <1>2, <1>6, <1>9, <2>1
  <2>3. ASSUME NEW l \in 0 .. 3 PROVE t1[l] = v[a + l - 6]
    <3>1. a + l - 6 = 6*c + l /\ 6*c + l \in 0 .. a - 1
      BY <1>9
    <3>2. v[6*c + l] = w[6*c + l]
      BY <1>6, <3>1
    <3> QED BY <1>2, <3>1, <3>2
  <2> QED BY <2>2, <2>3
<1>12. /\ NewWords(v, a, a + 4, cipherKey, 192)
       /\ v[a + 4] = t3'[0] /\ v[a + 5] = t3'[1] => NewWords(v, a, a + 6, cipherKey, 192)
  <2>1. AssistAt(v, a, q, 0, y)
    BY <1>11 DEF AssistAt, y
  <2>2. Placed(v, t1, t1', a, 6)
    BY <1>6, <1>11 DEF Placed
  <2>3. InGroup(a, q, 0, 6) /\ t1 \in Vec /\ t3 \in Vec
    BY <1>2, <1>9 DEF InGroup
  <2>4. LastTwo(v, a, t3, t1', t3')
    BY <1>4, <1>11 DEF LastTwo
  <2> QED BY <1>4, <1>10, <2>1, <2>2, <2>3, <2>4, New192
<1>13. PICK x \in {4, 6} : AesniDone' = a + x /\ NewWords(v, a, a + x, cipherKey, 192)
  <2>1. CASE c = 7
    BY <1>7, <1>9, <1>12, <2>1
  <2>2. CASE c # 7
    <3>1. v[a + 4] = t3'[0] /\ v[a + 5] = t3'[1]
      <4>1. a + 4 + 0 = a + 4 /\ a + 4 + 1 = a + 5
        BY <1>9
      <4> QED BY <1>6, <2>2, <4>1
    <3> QED BY <1>7, <1>9, <1>12, <2>2, <3>1
  <2> QED BY <2>1, <2>2
<1>14. Scheduled(v, a + x, cipherKey, 192) /\ Words(v, a + x)
  <2> DEFINE b == a + x
  <2>1. b \in Nat /\ a <= b /\ Nk(192) \in {4, 6, 8}
    BY <1>9, <1>10
  <2>2. NewWords(v, a, b, cipherKey, 192)
    BY <1>13
  <2> HIDE DEF b
  <2>3. Scheduled(v, b, cipherKey, 192) /\ Words(v, b)
    BY <1>6, <1>8, <1>9, <2>1, <2>2, ScheduledLonger
  <2> QED BY <2>3 DEF b
<1>15. ScheduleInv'
  BY <1>1, <1>13, <1>14 DEF ScheduleInv, v
<1>16. Longer(x)
  BY <1>6, <1>7, <1>9, <1>13 DEF Longer, v, w
<1>17. ATypes'
  <2>1. ks' \in [0 .. 14 -> [0 .. 3 -> Word \cup {Unset}]]
    BY <1>2, <1>4, <1>5, Store192Type
  <2>2. c' \in 0 .. 8 /\ LastAssist(keyBits') = 8
    BY <1>1, <1>9 DEF LastAssist
  <2> QED BY <1>1, <1>2, <1>4, <2>1, <2>2 DEF ATypes
<1>18. RegisterInv'
  <2>1. 6*c' = a
    BY <1>1, <1>9
  <2>2. \A l \in 0 .. 3 : t1'[l] = v[6*c' + l]
    BY <1>6, <2>1
  <2>3. c' < 8 => \A l \in 0 .. 1 : t3'[l] = v[6*c' + 4 + l]
    BY <1>1, <1>6, <1>9, <2>1
  <2> QED BY <1>1, <2>2, <2>3 DEF RegisterInv, v
<1>19. CopyInv'
  BY <1>1, StillExpanding DEF AInv
<1> QED BY <1>15, <1>16, <1>17, <1>18, <1>19 DEF AInv

-----------------------------------------------------------------------------
(* When the schedule is complete, its round keys are copied from behind.   *)
LEMMA ExpandedInv ==
  ASSUME KeyInv, AInv, Expanded, UNCHANGED <<keyBits, cipherKey>>
  PROVE  AInv' /\ UNCHANGED <<AesniDone, Flat(ks)>>
<1>1. /\ apc = "expand" /\ c = LastAssist(keyBits) /\ ~half /\ apc' = "copy"
      /\ UNCHANGED <<t1, t3, c, half, ks, m, ckey>>
  BY DEF Expanded
<1>2. ATypes' /\ RegisterInv' /\ UNCHANGED AesniDone
  BY <1>1 DEF AInv, ATypes, RegisterInv, AesniDone
<1>3. ScheduleInv'
  BY <1>1, <1>2 DEF AInv, ScheduleInv
<1>4. Rounds(keyBits) \in Nat
  BY Sizes
<1>5. CopyInv'
  <2>1. m = 0 /\ DOMAIN ckey = 0 .. 14
    BY <1>1 DEF AInv, CopyInv
  <2>2. 0 .. m' - 1 = {} /\ m' \in 0 .. Rounds(keyBits') + 1 /\ m' <= Rounds(keyBits')
    BY <1>1, <1>4, <2>1
  <2> QED BY <1>1, <2>1, <2>2 DEF CopyInv
<1> QED BY <1>1, <1>2, <1>3, <1>5 DEF AInv

LEMMA KeySetupDecInv ==
  ASSUME KeyInv, AInv, KeySetupDec, UNCHANGED <<keyBits, cipherKey>>
  PROVE  AInv' /\ UNCHANGED <<AesniDone, Flat(ks)>>
<1> DEFINE R == Rounds(keyBits)
<1>1. /\ apc = "copy" /\ ckey' = [ckey EXCEPT ![m] = Cooked(m)] /\ m' = m + 1
      /\ apc' = IF m = R THEN "done" ELSE "copy"
      /\ UNCHANGED <<t1, t3, c, half, ks>>
  BY DEF KeySetupDec
<1>2. ATypes' /\ RegisterInv' /\ UNCHANGED AesniDone
  BY <1>1 DEF AInv, ATypes, RegisterInv, AesniDone
<1>3. ScheduleInv'
  BY <1>1, <1>2 DEF AInv, ScheduleInv
<1>4. R \in {10, 12, 14} /\ Rounds(keyBits') = R
  BY Sizes
<1>5. /\ DOMAIN ckey = 0 .. 14 /\ c = LastAssist(keyBits) /\ ~half
      /\ m \in 0 .. R + 1 /\ m <= R /\ \A r \in 0 .. m-1 : ckey[r] = Cooked(r)
  BY <1>1 DEF AInv, CopyInv
<1>6. \A r : Cooked(r)' = Cooked(r)
  BY <1>1 DEF Cooked
<1> HIDE DEF R
<1>7. m \in 0 .. 14 /\ m' \in 0 .. R + 1 /\ (m = R => m' = R + 1) /\ (m # R => m' <= R)
  BY <1>1, <1>4, <1>5
<1>8. ASSUME NEW r \in 0 .. m' - 1 PROVE ckey'[r] = Cooked(r)'
  <2>1. CASE r = m
    BY <1>1, <1>5, <1>6, <1>7, <2>1
  <2>2. CASE r # m
    <3>1. r \in 0 .. m-1
      BY <1>1, <1>7, <2>2
    <3> QED BY <1>1, <1>5, <1>6, <2>2, <3>1
  <2> QED BY <2>1, <2>2
<1>9. CopyInv'
  BY <1>1, <1>4, <1>5, <1>7, <1>8 DEF CopyInv
<1> QED BY <1>1, <1>2, <1>3, <1>9 DEF AInv

-----------------------------------------------------------------------------
(* How far both are.                                                       *)
LEMMA DonePlaces ==
  ASSUME KeyInv, RInv, AInv
  PROVE  /\ RijndaelDone \in Nat /\ AesniDone \in Nat
         /\ Scheduled(REnc, RijndaelDone, cipherKey, keyBits)
         /\ Scheduled(Flat(ks), AesniDone, cipherKey, keyBits)
<1>1. ScheduleLen(keyBits) \in Nat /\ Nk(keyBits) \in Nat
  BY Sizes
<1>2. RijndaelDone \in Nat /\ Scheduled(REnc, RijndaelDone, cipherKey, keyBits)
  <2>1. CASE rpc = "expand"
    BY <2>1 DEF RInv, RTypes, ExpandInv, RijndaelDone, REnc
  <2>2. CASE rpc # "expand"
    BY <1>1, <2>2 DEF RInv, EncInv, RijndaelDone, REnc
  <2> QED BY <2>1, <2>2
<1>3. AesniDone \in Nat
  <2>1. half \in BOOLEAN /\ c \in 0 .. LastAssist(keyBits) /\ (half => c \in 1 .. 6)
    BY DEF AInv, ATypes
  <2>2. CASE keyBits = 128
    <3>1. c \in 0 .. 10
      BY <2>1, <2>2 DEF LastAssist
    <3> QED BY <2>2, <3>1 DEF AesniDone
  <2>3. CASE keyBits = 192
    <3>1. c \in 0 .. 8
      BY <2>1, <2>3 DEF LastAssist
    <3> QED BY <2>3, <3>1 DEF AesniDone
  <2>4. CASE keyBits = 256
    <3>1. c \in 0 .. 7
      BY <2>1, <2>4 DEF LastAssist
    <3>2. AesniDone = 8 + 4*c + 4 * (IF half \/ c = 7 THEN c - 1 ELSE c)
      BY <2>4 DEF AesniDone
    <3>3. CASE half \/ c = 7
      BY <2>1, <3>1, <3>2, <3>3
    <3>4. CASE ~(half \/ c = 7)
      BY <3>1, <3>2, <3>4
    <3> QED BY <3>3, <3>4
  <2> QED BY <2>2, <2>3, <2>4, Sizes
<1>4. Scheduled(Flat(ks), AesniDone, cipherKey, keyBits)
  BY DEF AInv, ScheduleInv
<1> QED BY <1>2, <1>3, <1>4

-----------------------------------------------------------------------------
LEMMA InitIInv ==
  ASSUME Init
  PROVE  IInv
<1>1. KeyInv
  BY DEF Init, KeyInv
<1> DEFINE N == Nk(keyBits)
<1>2. /\ rk = [n \in 0 .. 59 |-> IF n < N THEN cipherKey[n] ELSE Unset]
      /\ base = 0 /\ k = 0 /\ i = 0 /\ j = 0 /\ rpc = "expand" /\ enc = rk
  BY DEF Init, RijndaelInit
<1>3. /\ N \in {4, 6, 8} /\ cipherKey \in [0 .. 7 -> Word] /\ LastRcon(keyBits) \in {10, 8, 7}
      /\ LastAssist(keyBits) \in {10, 8, 7} /\ Rounds(keyBits) \in Nat
  BY <1>1, Sizes
<1>4. \A n \in 0 .. N-1 : rk[n] = cipherKey[n] /\ rk[n] \in Word
  BY <1>2, <1>3
<1>5. ASSUME NEW w, \A n \in 0 .. N-1 : w[n] = cipherKey[n]
      PROVE  Words(w, N) /\ Scheduled(w, N, cipherKey, keyBits)
  BY <1>3, <1>5 DEF Words, Scheduled
<1>6. RijndaelDone = N
  BY <1>2, <1>3 DEF RijndaelDone
<1>7. RInv
  <2>1. rk \in [0 .. 59 -> Word \cup {Unset}]
    BY <1>2, <1>3
  <2>2. RTypes
    BY <1>2, <1>3, <2>1 DEF RTypes
  <2>3. 0 \in 0 .. LastRcon(keyBits) - 1 /\ 0 = N * 0 /\ 0 <= 3
    BY <1>3
  <2>4. Words(rk, N) /\ Scheduled(rk, N, cipherKey, keyBits)
    BY <1>4, <1>5
  <2>5. ExpandInv
    BY <1>2, <1>6, <2>3, <2>4 DEF ExpandInv
  <2>6. EncInv /\ InvertInv
    BY <1>2 DEF EncInv, InvertInv
  <2> QED BY <2>2, <2>5, <2>6 DEF RInv
<1>8. /\ t1 = Loaded(0) /\ c = 0 /\ half = FALSE /\ m = 0 /\ apc = "expand"
      /\ \/ keyBits = 128 /\ t3 = NoVec
         \/ keyBits = 192 /\ \E u, v \in Junk : t3 = [Loaded(4) EXCEPT ![2] = u, ![3] = v]
         \/ keyBits = 256 /\ t3 = Loaded(4)
      /\ ks = [r \in 0 .. 14 |-> CASE r = 0 -> t1 [] r = 1 -> t3 [] OTHER -> NoVec]
      /\ ckey = [r \in 0 .. 14 |-> NoVec]
  BY DEF Init, AesniInit
<1>9. \A l \in 0 .. 3 : t1[l] = cipherKey[l] /\ ks[0][l] = t1[l] /\ Flat(ks)[l] = t1[l]
  <2> SUFFICES ASSUME NEW l \in 0 .. 3
               PROVE  t1[l] = cipherKey[l] /\ ks[0][l] = t1[l] /\ Flat(ks)[l] = t1[l]
    OBVIOUS
  <2>1. ks[0] = t1
    BY <1>8
  <2>2. Flat(ks)[4*0 + l] = ks[0][l] /\ 4*0 + l = l
    BY FlatAt
  <2> QED BY <1>8, <2>1, <2>2 DEF Loaded
<1>10. t1 \in Vec
  BY <1>3, <1>8 DEF Loaded, Vec
<1>11. /\ keyBits # 128 => t3 \in Vec /\ \A l \in 0 .. 1 : t3[l] = cipherKey[4 + l]
       /\ keyBits = 256 => \A l \in 0 .. 3 : t3[l] = cipherKey[4 + l]
       /\ t3 \in [0 .. 3 -> Word \cup {Unset}]
  <2>1. Loaded(4) \in Vec /\ \A l \in 0 .. 3 : Loaded(4)[l] = cipherKey[4 + l]
    BY <1>3 DEF Loaded, Vec
  <2>2. CASE keyBits = 128 /\ t3 = NoVec
    BY <2>2 DEF NoVec
  <2>3. CASE keyBits = 192 /\ \E u, v \in Junk : t3 = [Loaded(4) EXCEPT ![2] = u, ![3] = v]
    <3>1. PICK u \in Junk, v \in Junk : t3 = [Loaded(4) EXCEPT ![2] = u, ![3] = v]
      BY <2>3
    <3>2. u \in Word /\ v \in Word
      BY JunkAssumption
    <3> QED BY <2>1, <2>3, <3>1, <3>2 DEF Vec
  <2>4. CASE keyBits = 256 /\ t3 = Loaded(4)
    BY <2>1, <2>4 DEF Vec
  <2> QED BY <1>8, <2>2, <2>3, <2>4
<1>12. ATypes
  <2>1. ks \in [0 .. 14 -> [0 .. 3 -> Word \cup {Unset}]]
    <3>1. t1 \in [0 .. 3 -> Word \cup {Unset}] /\ NoVec \in [0 .. 3 -> Word \cup {Unset}]
      BY <1>10 DEF Vec, NoVec
    <3> QED BY <1>8, <1>11, <3>1
  <2>2. 0 \in 0 .. LastAssist(keyBits)
    BY <1>3
  <2> QED BY <1>8, <1>10, <1>11, <2>1, <2>2 DEF ATypes
<1>13. \A l \in 0 .. 3 : Flat(ks)[4 + l] = t3[l]
  <2> SUFFICES ASSUME NEW l \in 0 .. 3 PROVE Flat(ks)[4 + l] = t3[l]
    OBVIOUS
  <2>1. Flat(ks)[4*1 + l] = ks[1][l] /\ 4*1 + l = 4 + l /\ 1 \in 0 .. 14
    BY FlatAt
  <2>2. ks[1] = t3
    BY <1>8
  <2> QED BY <2>1, <2>2
<1>14. RegisterInv
  <2>1. \A l \in 0 .. 3 : 4*c + l = l /\ 6*c + l = l /\ 8*c + l = l
    BY <1>8
  <2>2. \A l \in 0 .. 3 : 6*c + 4 + l = 4 + l /\ 8*c + 4 + l = 4 + l
    BY <1>8
  <2>3. \A l \in 0 .. 1 : l \in 0 .. 3
    OBVIOUS
  <2> QED BY <1>8, <1>9, <1>13, <2>1, <2>2, <2>3 DEF RegisterInv
<1>15. AesniDone = N /\ \A n \in 0 .. N-1 : Flat(ks)[n] = cipherKey[n]
  <2>1. ASSUME NEW n \in 0 .. 3 PROVE Flat(ks)[n] = cipherKey[n]
    BY <1>9
  <2>2. CASE keyBits = 128
    <3>1. AesniDone = 4 /\ N = 4
      BY <1>8, <2>2 DEF AesniDone, Nk
    <3> QED BY <2>1, <3>1
  <2>3. CASE keyBits = 192
    <3>1. AesniDone = 6 /\ N = 6
      BY <1>8, <2>3 DEF AesniDone, Nk
    <3>2. ASSUME NEW n \in 4 .. 5 PROVE Flat(ks)[n] = cipherKey[n]
      <4>1. n - 4 \in 0 .. 1 /\ n - 4 \in 0 .. 3 /\ 4 + (n - 4) = n
        OBVIOUS
      <4> QED BY <1>11, <1>13, <2>3, <4>1
    <3>3. \A n \in 0 .. N-1 : n \in 0 .. 3 \/ n \in 4 .. 5
      BY <3>1
    <3> QED BY <2>1, <3>1, <3>2, <3>3
  <2>4. CASE keyBits = 256
    <3>1. AesniDone = 8 /\ N = 8
      BY <1>8, <2>4 DEF AesniDone, Nk
    <3>2. ASSUME NEW n \in 4 .. 7 PROVE Flat(ks)[n] = cipherKey[n]
      <4>1. n - 4 \in 0 .. 3 /\ 4 + (n - 4) = n
        OBVIOUS
      <4> QED BY <1>11, <1>13, <2>4, <4>1
    <3>3. \A n \in 0 .. N-1 : n \in 0 .. 3 \/ n \in 4 .. 7
      BY <3>1
    <3> QED BY <2>1, <3>1, <3>2, <3>3
  <2> QED BY <1>1, <2>2, <2>3, <2>4, Sizes
<1>16. ScheduleInv
  BY <1>5, <1>15 DEF ScheduleInv
<1>17. CopyInv
  <2>1. 0 .. 0 - 1 = {} /\ 0 \in 0 .. Rounds(keyBits) + 1
    BY <1>3
  <2> QED BY <1>8, <2>1 DEF CopyInv
<1>18. AgreeInv
  <2>1. REnc = rk
    BY <1>2 DEF REnc
  <2>2. ASSUME NEW n \in Nat, n < N PROVE rk[n] = Flat(ks)[n]
    <3>1. n \in 0 .. N-1
      BY <1>3, <2>2
    <3> QED BY <1>4, <1>15, <3>1
  <2> QED BY <1>6, <1>15, <2>1, <2>2 DEF AgreeInv, SameBelow
<1> QED BY <1>1, <1>7, <1>12, <1>14, <1>16, <1>17, <1>18 DEF IInv, AInv

(* A step of the table-driven key setup leaves the other's state alone,    *)
(* and the other way round.                                                *)
LEMMA AKept ==
  ASSUME AInv, UNCHANGED <<keyBits, cipherKey, aesniVars>>
  PROVE  AInv' /\ UNCHANGED <<AesniDone, Flat(ks)>>
<1>1. UNCHANGED <<t1, t3, c, half, ks, m, ckey, apc>>
  BY DEF aesniVars
<1>2. ATypes' /\ RegisterInv' /\ UNCHANGED AesniDone
  BY <1>1 DEF AInv, ATypes, RegisterInv, AesniDone
<1>3. ScheduleInv'
  BY <1>1, <1>2 DEF AInv, ScheduleInv
<1>4. \A r : Cooked(r)' = Cooked(r)
  BY <1>1 DEF Cooked
<1>5. CopyInv'
  BY <1>1, <1>4 DEF AInv, CopyInv
<1> QED BY <1>1, <1>2, <1>3, <1>5 DEF AInv

LEMMA RKept ==
  ASSUME RInv, UNCHANGED <<keyBits, cipherKey, rijndaelVars>>
  PROVE  RInv' /\ UNCHANGED <<RijndaelDone, REnc>>
<1>1. UNCHANGED <<rk, base, k, i, j, rpc, enc>>
  BY DEF rijndaelVars
<1>2. UNCHANGED <<RijndaelDone, REnc>>
  BY <1>1 DEF RijndaelDone, REnc
<1>3. RTypes' /\ EncInv'
  BY <1>1 DEF RInv, RTypes, EncInv
<1>4. ExpandInv'
  BY <1>1, <1>2 DEF RInv, ExpandInv
<1>5. \A a : SwappedTo(a)' = SwappedTo(a) /\ MixedTo(a)' = MixedTo(a)
  BY <1>1 DEF SwappedTo, MixedTo
<1>6. InvertInv'
  BY <1>1, <1>5 DEF RInv, InvertInv
<1> QED BY <1>2, <1>3, <1>4, <1>6 DEF RInv

LEMMA RijndaelStep ==
  ASSUME IInv, RijndaelNext, UNCHANGED aesniVars
  PROVE  IInv'
<1>1. /\ KeyInv /\ RInv /\ AInv /\ AgreeInv
      /\ keyBits' = keyBits /\ cipherKey' = cipherKey
      /\ KeySetupEnc \/ StartSwap \/ SwapKeys \/ InvMixKey
  BY DEF IInv, RijndaelNext
<1>2. KeyInv' /\ AInv' /\ UNCHANGED <<AesniDone, Flat(ks)>>
  BY <1>1, AKept DEF KeyInv
<1>3. CASE KeySetupEnc
  <2>1. /\ RInv' /\ RijndaelDone \in Nat /\ RijndaelDone' = RijndaelDone + 1
        /\ \A n \in 0 .. RijndaelDone - 1 : REnc'[n] = REnc[n]
    BY <1>1, <1>3, KeySetupEncInv
  <2>2. /\ AesniDone \in Nat
        /\ Scheduled(Flat(ks), AesniDone, cipherKey, keyBits)
    BY <1>1, DonePlaces
  <2>3. Scheduled(REnc', RijndaelDone', cipherKey', keyBits')
    <3>1. (KeyInv /\ RInv /\ AInv => Scheduled(REnc, RijndaelDone, cipherKey, keyBits))'
      BY DonePlaces, PTL
    <3> QED BY <1>2, <2>1, <3>1
  <2> DEFINE w == REnc'
             a == RijndaelDone
             b == AesniDone
             v == Flat(ks)
  <2>4. SameBelow(w, v, a, b)
    BY <1>1, <2>1 DEF AgreeInv, SameBelow
  <2>5. Scheduled(w, a + 1, cipherKey, keyBits)
    BY <1>1, <2>1, <2>3
  <2>6. Nk(keyBits) \in {4, 6, 8}
    BY <1>1, Sizes
  <2>7. SameBelow(w, v, a + 1, b)
    <3> HIDE DEF w, v, a, b
    <3> QED BY <2>1, <2>2, <2>4, <2>5, <2>6, AgreeMore DEF a, b, v
  <2>8. AgreeInv'
    BY <1>2, <2>1, <2>7 DEF AgreeInv
  <2> QED BY <1>2, <2>1, <2>8 DEF IInv
<1>4. CASE StartSwap \/ SwapKeys \/ InvMixKey
  <2>1. RInv' /\ RijndaelDone' = RijndaelDone /\ REnc' = REnc
    BY <1>1, <1>4, StartSwapInv, SwapKeysInv, InvMixKeyInv
  <2>2. AgreeInv'
    BY <1>1, <1>2, <2>1 DEF AgreeInv
  <2> QED BY <1>2, <2>1, <2>2 DEF IInv
<1> QED BY <1>1, <1>3, <1>4

LEMMA AesniStep ==
  ASSUME IInv, AesniNext, UNCHANGED rijndaelVars
  PROVE  IInv'
<1>1. /\ KeyInv /\ RInv /\ AInv /\ AgreeInv
      /\ keyBits' = keyBits /\ cipherKey' = cipherKey
      /\ \/ Expand128 \/ Expand192 \/ Expand256 \/ Expand256Half
         \/ Expanded \/ KeySetupDec
  BY DEF IInv, AesniNext
<1>2. KeyInv' /\ RInv' /\ UNCHANGED <<RijndaelDone, REnc>>
  BY <1>1, RKept DEF KeyInv
<1>3. CASE Expand128 \/ Expand192 \/ Expand256 \/ Expand256Half
  <2>1. AInv' /\ \E x \in {4, 6} : Longer(x)
    BY <1>1, <1>3, Expand128Inv, Expand192Inv, Expand256Inv, Expand256HalfInv
  <2>2. PICK x \in {4, 6} : Longer(x)
    BY <2>1
  <2>3. /\ AesniDone \in Nat /\ AesniDone' = AesniDone + x
        /\ \A n \in 0 .. AesniDone - 1 : Flat(ks)'[n] = Flat(ks)[n]
    BY <2>2 DEF Longer
  <2>4. RijndaelDone \in Nat /\ Scheduled(REnc, RijndaelDone, cipherKey, keyBits)
    BY <1>1, DonePlaces
  <2> DEFINE w == REnc
             a == RijndaelDone
             b == AesniDone
             v == Flat(ks)'
  <2>5. SameBelow(w, v, a, b)
    BY <1>1, <2>3 DEF AgreeInv, SameBelow
  <2>6. Scheduled(v, b + x, cipherKey, keyBits)
    BY <1>1, <2>1, <2>3 DEF AInv, ScheduleInv
  <2>7. Nk(keyBits) \in {4, 6, 8}
    BY <1>1, Sizes
  <2>8. SameBelow(w, v, a, b + x)
    <3> HIDE DEF v
    <3> QED BY <2>3, <2>4, <2>5, <2>6, <2>7, AgreeLonger
  <2>9. AgreeInv'
    BY <1>2, <2>3, <2>8 DEF AgreeInv
  <2> QED BY <1>2, <2>1, <2>9 DEF IInv
<1>4. CASE Expanded \/ KeySetupDec
  <2>1. AInv' /\ UNCHANGED <<AesniDone, Flat(ks)>>
    BY <1>1, <1>4, ExpandedInv, KeySetupDecInv
  <2>2. AgreeInv'
    BY <1>1, <1>2, <2>1 DEF AgreeInv
  <2> QED BY <1>2, <2>1, <2>2 DEF IInv
<1> QED BY <1>1, <1>3, <1>4

LEMMA NextIInv ==
  ASSUME IInv, [Next]_vars
  PROVE  IInv'
<1>1. CASE RijndaelNext /\ UNCHANGED aesniVars
  BY <1>1, RijndaelStep
<1>2. CASE AesniNext /\ UNCHANGED rijndaelVars
  BY <1>2, AesniStep
<1>3. CASE UNCHANGED vars
  <2>1. UNCHANGED <<keyBits, cipherKey, rijndaelVars, aesniVars>>
    BY <1>3 DEF vars
  <2>2. KeyInv' /\ AInv' /\ UNCHANGED <<AesniDone, Flat(ks)>>
    BY <2>1, AKept DEF IInv, KeyInv
  <2>3. RInv' /\ UNCHANGED <<RijndaelDone, REnc>>
    BY <2>1, RKept DEF IInv
  <2>4. AgreeInv'
    BY <2>2, <2>3 DEF IInv, AgreeInv
  <2> QED BY <2>2, <2>3, <2>4 DEF IInv
<1> QED BY <1>1, <1>2, <1>3 DEF Next

(* The invariant holds in every reachable state.                           *)
THEOREM Inductive == Spec => []IInv
<1>1. Init => IInv
  BY InitIInv
<1>2. IInv /\ [Next]_vars => IInv'
  BY NextIInv
<1> QED BY <1>1, <1>2, PTL DEF Spec

-----------------------------------------------------------------------------
(* What the invariant says when an array is complete.                      *)
LEMMA RijndaelComplete ==
  ASSUME KeyInv, RInv, rpc # "expand", NEW q \in 0 .. Rounds(keyBits), NEW l \in 0 .. 3
  PROVE  /\ enc[4*q + l] \in Word /\ rk[4*q + l] \in Word
         /\ rpc = "done" =>
              rk[4*q + l] = IF q \in {0, Rounds(keyBits)} THEN enc[4*(Rounds(keyBits) - q) + l]
                            ELSE InvMix(enc[4*(Rounds(keyBits) - q) + l])
<1> DEFINE R == Rounds(keyBits)
<1>1. R \in {10, 12, 14} /\ ScheduleLen(keyBits) = 4 * (R + 1)
  BY Sizes
<1>2. Words(enc, ScheduleLen(keyBits)) /\ InvertInv
      /\ rpc \in {"invert", "swap", "mix", "done"}
  BY DEF RInv, RTypes, EncInv
<1> HIDE DEF R
<1>3. ASSUME NEW o \in 0 .. R PROVE enc[4*o + l] \in Word
  <2>1. 4*o + l \in 0 .. 4 * (R + 1) - 1
    BY <1>1
  <2> QED BY <1>1, <1>2, <2>1 DEF Words
<1>4. q \in 0 .. R /\ R - q \in 0 .. R
  BY <1>1 DEF R
<1>5. enc[4*q + l] \in Word /\ enc[4*(R - q) + l] \in Word /\ InvMix(enc[4*(R - q) + l]) \in Word
  BY <1>3, <1>4, MixedWord
<1>6. ASSUME NEW a, MixedTo(a)
      PROVE  /\ rk[4*q + l] = IF q >= 1 /\ q < a THEN InvMix(enc[4*(R - q) + l])
                                                 ELSE enc[4*(R - q) + l]
             /\ rk[4*q + l] \in Word
  <2>1. rk[4*q + l] = IF q >= 1 /\ q < a THEN InvMix(enc[4*(R - q) + l])
                                         ELSE enc[4*(R - q) + l]
    BY <1>4, <1>6 DEF MixedTo, R
  <2> QED BY <1>5, <2>1
<1>7. CASE rpc = "invert"
  BY <1>2, <1>5, <1>7 DEF InvertInv
<1>8. CASE rpc = "swap"
  <2>1. PICK a \in Nat : SwappedTo(a)
    BY <1>2, <1>8 DEF InvertInv
  <2>2. rk[4*q + l] = IF q < a \/ q > R - a THEN enc[4*(R - q) + l] ELSE enc[4*q + l]
    BY <1>4, <2>1 DEF SwappedTo, R
  <2> QED BY <1>5, <1>8, <2>2
<1>9. CASE rpc = "mix"
  BY <1>2, <1>5, <1>6, <1>9 DEF InvertInv
<1>10. CASE rpc = "done"
  <2>1. MixedTo(R)
    BY <1>2, <1>10 DEF InvertInv, R
  <2>2. (q >= 1 /\ q < R) <=> q \notin {0, R}
    BY <1>1, <1>4
  <2>3. rk[4*q + l] = IF q \in {0, R} THEN enc[4*(R - q) + l] ELSE InvMix(enc[4*(R - q) + l])
    BY <1>6, <2>1, <2>2
  <2> QED BY <1>5, <1>6, <2>1, <2>3 DEF R
<1> QED BY <1>2, <1>7, <1>8, <1>9, <1>10

LEMMA AesniComplete ==
  ASSUME KeyInv, AInv, apc # "expand"
  PROVE  /\ AesniDone = ScheduleLen(keyBits)
         /\ \A q \in 0 .. Rounds(keyBits) : ks[q] \in Vec
         /\ apc = "done" => \A q \in 0 .. Rounds(keyBits) : ckey[q] = Cooked(q)
<1>1. c = LastAssist(keyBits) /\ ~half
  BY DEF AInv, CopyInv
<1>2. AesniDone = ScheduleLen(keyBits)
  <2>1. CASE keyBits = 128
    BY <1>1, <2>1 DEF AesniDone, LastAssist, ScheduleLen, Rounds, Nk
  <2>2. CASE keyBits = 192
    BY <1>1, <2>2 DEF AesniDone, LastAssist, ScheduleLen, Rounds, Nk
  <2>3. CASE keyBits = 256
    BY <1>1, <2>3 DEF AesniDone, LastAssist, ScheduleLen, Rounds, Nk
  <2> QED BY <2>1, <2>2, <2>3, Sizes
<1>3. Rounds(keyBits) \in {10, 12, 14} /\ ScheduleLen(keyBits) = 4 * (Rounds(keyBits) + 1)
  BY Sizes
<1> DEFINE R == Rounds(keyBits)
<1> HIDE DEF R
<1>4. ASSUME NEW q \in 0 .. R PROVE ks[q] \in Vec
  <2>1. q \in 0 .. 14
    BY <1>3 DEF R
  <2>2. ks[q] \in [0 .. 3 -> Word \cup {Unset}]
    BY <2>1 DEF AInv, ATypes
  <2>3. ASSUME NEW l \in 0 .. 3 PROVE ks[q][l] \in Word
    <3>1. 4*q + l \in 0 .. AesniDone - 1
      BY <1>2, <1>3 DEF R
    <3>2. Flat(ks)[4*q + l] \in Word
      BY <3>1 DEF AInv, ScheduleInv, Words
    <3> QED BY <2>1, <3>2, FlatAt
  <2> QED BY <2>2, <2>3 DEF Vec
<1>5. ASSUME apc = "done", NEW q \in 0 .. R PROVE ckey[q] = Cooked(q)
  <2>1. m = R + 1 /\ \A r \in 0 .. m-1 : ckey[r] = Cooked(r)
    BY <1>5 DEF AInv, CopyInv, R
  <2>2. q \in 0 .. m-1
    BY <1>3, <2>1 DEF R
  <2> QED BY <2>1, <2>2
<1> QED BY <1>2, <1>4, <1>5 DEF R

-----------------------------------------------------------------------------
(* Types; the sliding pointer and the round constants stay in their        *)
(* arrays, and no key setup ends with a word missing.                      *)
THEOREM TypeCorrect == Spec => []TypeOK
<1>1. IInv => TypeOK
  <2> SUFFICES ASSUME IInv PROVE TypeOK
    OBVIOUS
  <2> DEFINE R == Rounds(keyBits)
  <2>1. KeyInv /\ RInv /\ AInv
    BY DEF IInv
  <2>2. RTypes /\ ATypes /\ CopyInv
    BY <2>1 DEF RInv, AInv
  <2>3. R \in {10, 12, 14} /\ ScheduleLen(keyBits) = 4 * (R + 1)
    BY <2>1, Sizes
  <2>4. rpc = "expand" => i \in 0 .. LastRcon(keyBits) - 1
    BY <2>1 DEF RInv, ExpandInv
  <2>5. ASSUME rpc # "expand", NEW n \in 0 .. ScheduleLen(keyBits) - 1
        PROVE  {rk[n], enc[n]} \subseteq Word
    <3>1. n \in 0 .. 59
      BY <2>3
    <3>2. PICK q \in 0 .. 14, l \in 0 .. 3 : n = 4*q + l
      BY <3>1, FlatParts
    <3>3. q \in 0 .. R
      BY <2>3, <3>2
    <3>4. enc[4*q + l] \in Word /\ rk[4*q + l] \in Word
      BY <2>1, <2>5, <3>3, RijndaelComplete
    <3> QED BY <3>2, <3>4
  <2>6. ASSUME NEW r \in 0 .. m-1 PROVE ckey[r] \in Vec
    <3>1. r \in 0 .. R /\ R - r \in 0 .. R
      BY <2>2, <2>3 DEF CopyInv
    <3>2. apc # "expand"
      <4>1. SUFFICES ASSUME apc = "expand" PROVE FALSE
        OBVIOUS
      <4>2. m = 0
        BY <2>2, <4>1 DEF CopyInv
      <4> QED BY <4>2
    <3>3. ks[R - r] \in Vec
      BY <2>1, <3>1, <3>2, AesniComplete
    <3>4. ckey[r] = Cooked(r)
      BY <2>2 DEF CopyInv
    <3>5. [l \in 0 .. 3 |-> InvMix(ks[R - r][l])] \in Vec
      <4> DEFINE u == ks[R - r]
      <4> HIDE DEF u
      <4>1. u \in Vec
        BY <3>3 DEF u
      <4>2. \A l \in 0 .. 3 : InvMix(u[l]) \in Word
        BY <4>1, MixedWord DEF Vec
      <4>3. [l \in 0 .. 3 |-> InvMix(u[l])] \in Vec
        BY <4>2 DEF Vec
      <4> QED BY <4>3 DEF u
    <3> QED BY <3>3, <3>4, <3>5 DEF Cooked
  <2>7. /\ m \in 0 .. R + 1 /\ apc \in {"expand", "copy", "done"}
        /\ t1 \in Vec /\ c \in 0 .. LastAssist(keyBits) /\ half \in BOOLEAN
    BY <2>2 DEF CopyInv, ATypes
  <2> QED BY <2>1, <2>2, <2>4, <2>5, <2>6, <2>7 DEF TypeOK, KeyInv, RTypes
<1> QED BY <1>1, Inductive, PTL

(* rijndaelKeySetupEnc computes the schedule of its key, for the three key *)
(* sizes and whatever the S-box and the round constants are.               *)
THEOREM TableSchedule == Spec => []RijndaelScheduled
<1>1. IInv => RijndaelScheduled
  BY DonePlaces DEF IInv, RijndaelScheduled, REnc
<1> QED BY <1>1, Inductive, PTL

(* So do the key setups by instructions, whatever lies behind a key of 192 *)
(* bits.                                                                   *)
THEOREM AssistSchedule == Spec => []AesniScheduled
<1>1. IInv => AesniScheduled
  BY DonePlaces DEF IInv, AesniScheduled
<1> QED BY <1>1, Inductive, PTL

(* Reversal in place and the copy from behind give the schedule of the     *)
(* equivalent inverse cipher.                                              *)
THEOREM InverseOrder == Spec => []InverseSchedules
<1>1. IInv => InverseSchedules
  <2> DEFINE R == Rounds(keyBits)
  <2> SUFFICES ASSUME IInv, NEW r \in 0 .. R
               PROVE  /\ rpc = "done" => RoundKeys(rk)[r] = InverseKeys(RoundKeys(enc), R)[r]
                      /\ apc = "done" => ckey[r] = InverseKeys(ks, R)[r]
    BY DEF InverseSchedules
  <2>1. KeyInv /\ RInv /\ AInv
    BY DEF IInv
  <2>2. R \in {10, 12, 14}
    BY <2>1, Sizes
  <2>3. ASSUME rpc = "done" PROVE RoundKeys(rk)[r] = InverseKeys(RoundKeys(enc), R)[r]
    <3>1. \A l \in 0 .. 3 : rk[4*r + l] = IF r \in {0, R} THEN enc[4*(R - r) + l]
                                          ELSE InvMix(enc[4*(R - r) + l])
      BY <2>1, <2>3, RijndaelComplete
    <3> DEFINE o == R - r
    <3> HIDE DEF R
    <3>2. r \in 0 .. 14 /\ o \in 0 .. 14 /\ r \in 0 .. R
      BY <2>2
    <3> HIDE DEF o
    <3>3. RoundKeys(rk)[r] = [l \in 0 .. 3 |-> rk[4*r + l]]
          /\ RoundKeys(enc)[o] = [l \in 0 .. 3 |-> enc[4*o + l]]
      BY <3>2 DEF RoundKeys
    <3>4. InverseKeys(RoundKeys(enc), R)[r] =
            IF r \in {0, R} THEN RoundKeys(enc)[o]
            ELSE [l \in 0 .. 3 |-> InvMix(RoundKeys(enc)[o][l])]
      BY <3>2 DEF InverseKeys, o
    <3>5. \A l \in 0 .. 3 : rk[4*r + l] = IF r \in {0, R} THEN enc[4*o + l]
                                          ELSE InvMix(enc[4*o + l])
      BY <3>1 DEF o
    <3>6. CASE r \in {0, R}
      BY <3>3, <3>4, <3>5, <3>6
    <3>7. CASE r \notin {0, R}
      <4>1. InverseKeys(RoundKeys(enc), R)[r] = [l \in 0 .. 3 |-> InvMix(enc[4*o + l])]
        BY <3>3, <3>4, <3>7
      <4> QED BY <3>3, <3>5, <3>7, <4>1
    <3> QED BY <3>6, <3>7
  <2>4. ASSUME apc = "done" PROVE ckey[r] = InverseKeys(ks, R)[r]
    <3>1. ckey[r] = Cooked(r)
      BY <2>1, <2>4, AesniComplete
    <3> QED BY <3>1 DEF Cooked, InverseKeys
  <2> QED BY <2>3, <2>4
<1> QED BY <1>1, Inductive, PTL

(* Both families give the same two schedules: a block encrypted by one     *)
(* can be decrypted by the other.                                          *)
THEOREM Interchangeable == Spec => []SameSchedules
<1>1. IInv => SameSchedules
  <2> DEFINE R == Rounds(keyBits)
             L == ScheduleLen(keyBits)
  <2> SUFFICES ASSUME IInv, rpc = "done", apc = "done", NEW n \in 0 .. L - 1
               PROVE  enc[n] = Flat(ks)[n] /\ rk[n] = Flat(ckey)[n]
    BY DEF SameSchedules
  <2>1. KeyInv /\ RInv /\ AInv /\ AgreeInv
    BY DEF IInv
  <2>2. R \in {10, 12, 14} /\ L = 4 * (R + 1)
    BY <2>1, Sizes
  <2>3. /\ AesniDone = L /\ RijndaelDone = L /\ REnc = enc
        /\ \A q \in 0 .. R : ckey[q] = Cooked(q)
    BY <2>1, AesniComplete DEF RijndaelDone, REnc
  <2>4. ASSUME NEW o \in 0 .. L - 1 PROVE enc[o] = Flat(ks)[o]
    <3>1. o \in Nat /\ o < L
      BY <2>2
    <3> QED BY <2>1, <2>3, <3>1 DEF AgreeInv, SameBelow
  <2>5. PICK q \in 0 .. 14, l \in 0 .. 3 : n = 4*q + l
    <3>1. n \in 0 .. 59
      BY <2>2
    <3> QED BY <3>1, FlatParts
  <2>6. rk[4*q + l] = IF q \in {0, R} THEN enc[4*(R - q) + l] ELSE InvMix(enc[4*(R - q) + l])
    <3>1. q \in 0 .. R
      BY <2>2, <2>5
    <3> QED BY <2>1, <3>1, RijndaelComplete
  <2> HIDE DEF R, L
  <2> DEFINE p == R - q
  <2>7. q \in 0 .. R /\ p \in 0 .. 14 /\ 4*p + l \in 0 .. L - 1
    BY <2>2, <2>5
  <2> HIDE DEF p
  <2>8. enc[4*p + l] = ks[p][l]
    BY <2>4, <2>7, FlatAt
  <2>9. Cooked(q)[l] = IF q \in {0, R} THEN ks[p][l] ELSE InvMix(ks[p][l])
    BY DEF Cooked, R, p
  <2>10. Flat(ckey)[4*q + l] = Cooked(q)[l]
    <3>1. Flat(ckey)[4*q + l] = ckey[q][l]
      BY FlatAt
    <3>2. ckey[q] = Cooked(q)
      BY <2>3, <2>7
    <3> QED BY <3>1, <3>2
  <2>11. rk[4*q + l] = IF q \in {0, R} THEN enc[4*p + l] ELSE InvMix(enc[4*p + l])
    BY <2>6 DEF p
  <2>12. rk[4*q + l] = Flat(ckey)[4*q + l]
    BY <2>8, <2>9, <2>10, <2>11
  <2> QED BY <2>4, <2>5, <2>12
<1> QED BY <1>1, Inductive, PTL
=============================================================================
