----------------------- MODULE ChaCha20Block_proofs -----------------------
(***************************************************************************)
(* Both block functions compute the rounds of ChaCha, for every input and  *)
(* every exclusive or: the scalar one because the quarter rounds of a      *)
(* round touch disjoint words, the vector one because its byte shuffles    *)
(* are rotations, its lanes do not mix, and turning the rows brings the    *)
(* diagonals into the lanes and back.                                      *)
(***************************************************************************)
EXTENDS ChaCha20Block, TLAPS

-----------------------------------------------------------------------------
(* Quotient and remainder by a positive modulus.                           *)
LEMMA DivMod ==
  ASSUME NEW num \in Int, NEW m \in Nat \ {0}
  PROVE  num \div m \in Int /\ num % m \in 0 .. m-1 /\ num = (num \div m) * m + (num % m)
<1>1. \A k \in Int, l \in Nat \ {0} :
        k \div l \in Int /\ k % l \in 0 .. l-1 /\ k = (k \div l) * l + (k % l)
  BY ONLY SMT
<1> QED BY <1>1, Zenon

(* Quotient and remainder are determined by the equation they satisfy.     *)
LEMMA DivModUnique ==
  ASSUME NEW m \in Nat \ {0}, NEW q \in Int, NEW r \in 0 .. m-1
  PROVE  (q * m + r) \div m = q /\ (q * m + r) % m = r
<1> DEFINE num == q * m + r
           p == num \div m
           s == num % m
<1>1. m \in Nat \ {0} /\ q \in Int /\ r \in 0 .. m-1
  OBVIOUS
<1>2. num \in Int
  BY ONLY <1>1
<1>3. p \in Int /\ s \in 0 .. m-1 /\ q * m + r = p * m + s
  BY ONLY <1>1, <1>2, DivMod, Zenon
<1> HIDE DEF num, p, s
<1>4. ~(p >= q + 1)
  <2>1. p >= q + 1 => m * p >= m * (q + 1)
    BY ONLY <1>1, <1>3
  <2> QED BY ONLY <1>1, <1>3, <2>1
<1>5. ~(q >= p + 1)
  <2>1. q >= p + 1 => m * q >= m * (p + 1)
    BY ONLY <1>1, <1>3
  <2> QED BY ONLY <1>1, <1>3, <2>1
<1>6. p = q /\ s = r
  BY ONLY <1>1, <1>3, <1>4, <1>5
<1> QED BY <1>6 DEF num, p, s

LEMMA SmallMod ==
  ASSUME NEW m \in Nat \ {0}, NEW r \in 0 .. m-1
  PROVE  r % m = r /\ r \div m = 0
<1>1. m \in Nat \ {0} /\ r \in 0 .. m-1
  OBVIOUS
<1>2. 0 \in Int /\ 0 * m + r = r
  BY ONLY <1>1
<1>3. (0 * m + r) \div m = 0 /\ (0 * m + r) % m = r
  BY <1>1, <1>2, DivModUnique
<1> QED BY <1>2, <1>3

(* The parts of a natural number.                                          *)
LEMMA DivNat ==
  ASSUME NEW m \in Nat \ {0}, NEW num \in Nat
  PROVE  num \div m \in Nat
<1> DEFINE p == num \div m
           s == num % m
<1>1. m \in Nat \ {0} /\ num \in Nat
  OBVIOUS
<1>2. p \in Int /\ s \in 0 .. m-1 /\ num = p * m + s
  <2>1. num \in Int
    BY ONLY <1>1
  <2> QED BY ONLY <1>1, <2>1, DivMod, Zenon
<1> HIDE DEF p, s
<1>3. p < 0 => p * m <= (-1) * m
  BY ONLY <1>1, <1>2
<1>4. p \in Nat
  BY ONLY <1>1, <1>2, <1>3
<1> QED BY <1>4 DEF p

LEMMA DivModParts ==
  ASSUME NEW m \in Nat \ {0}, NEW num \in Nat
  PROVE  \E q \in Nat, r \in 0 .. m-1 : num = q * m + r /\ num \div m = q /\ num % m = r
<1> DEFINE q == num \div m
           r == num % m
<1>1. q \in Nat /\ r \in 0 .. m-1 /\ num = q * m + r
  <2>1. m \in Nat \ {0} /\ num \in Nat
    OBVIOUS
  <2>2. num \in Int
    BY ONLY <2>1
  <2> QED BY ONLY <2>1, <2>2, DivMod, DivNat, Zenon
<1> HIDE DEF q, r
<1>2. \E h \in Nat, k \in 0 .. m-1 : num = h * m + k /\ q = h /\ r = k
  BY ONLY <1>1
<1> QED BY <1>2 DEF q, r

-----------------------------------------------------------------------------
USE DEF Word, Lanes

-----------------------------------------------------------------------------
(* Rotations.                                                              *)
LEMMA Modulus == M \in Nat \ {0} /\ B * B \in Nat \ {0} /\ M = (B * B) * (B * B)
                 /\ M = (B * B * B) * B /\ B * B * B \in Nat \ {0} /\ B \in Nat \ {0}
<1>1. B \in Nat /\ B > 0
  BY ByteAssumption
<1>2. B * B \in Nat /\ B * B > 0
  BY <1>1
<1>3. B * B * B \in Nat /\ B * B * B > 0
  BY <1>1, <1>2
<1>4. B * B * B * B \in Nat /\ B * B * B * B > 0
  BY <1>1, <1>3
<1>5. M = (B * B) * (B * B) /\ M = (B * B * B) * B
  BY <1>1, <1>2, <1>3 DEF M
<1> QED BY <1>1, <1>2, <1>3, <1>4, <1>5 DEF M

(* A rotation exchanges the two parts that m cuts a word into.             *)
LEMMA RotlParts ==
  ASSUME NEW m \in Nat \ {0}, NEW k \in Nat \ {0}, m * k = M, NEW v \in Word
  PROVE  /\ Rotl(v, m) = (v % k) * m + (v \div k)
         /\ Rotl(v, m) \in Word
         /\ v \div k \in 0 .. m-1 /\ v % k \in 0 .. k-1
<1>1. PICK hi \in Nat, lo \in 0 .. k-1 : v = hi * k + lo /\ v \div k = hi /\ v % k = lo
  <2>1. v \in Nat
    BY Modulus
  <2> QED BY <2>1, DivModParts
<1>2. hi < m
  <2>1. SUFFICES ASSUME hi >= m PROVE FALSE
    BY <1>1
  <2>2. hi * k >= m * k
    BY <1>1, <2>1
  <2> QED BY <1>1, <2>2, Modulus
<1>3. M \div m = k
  <2>1. M \in Int /\ M = k * m + 0 /\ 0 \in 0 .. m-1
    BY Modulus
  <2> QED BY <2>1, DivModUnique
<1>4. lo * m \in 0 .. M-m
  <2>1. lo * m <= (k-1) * m
    BY <1>1
  <2>2. (k-1) * m = M - m
    BY Modulus
  <2> QED BY <1>1, <2>1, <2>2
<1>5. (v * m) % M = lo * m
  <2>1. v * m = hi * (k * m) + lo * m
    BY <1>1
  <2>2. v * m = hi * M + lo * m
    BY <2>1
  <2>3. lo * m \in 0 .. M-1 /\ hi \in Int /\ M \in Nat \ {0}
    BY <1>1, <1>4, Modulus
  <2>4. (hi * M + lo * m) % M = lo * m
    BY <2>3, DivModUnique
  <2> QED BY <2>2, <2>4
<1>6. Rotl(v, m) = lo * m + hi
  BY <1>1, <1>3, <1>5 DEF Rotl
<1>7. lo * m + hi \in 0 .. M-1
  BY <1>1, <1>2, <1>4, Modulus
<1>8. hi \in 0 .. m-1
  BY <1>1, <1>2
<1>9. Rotl(v, m) \in Word /\ lo \in 0 .. k-1
  BY <1>1, <1>6, <1>7
<1> QED BY <1>1, <1>6, <1>8, <1>9

(* A word and its bytes.                                                   *)
LEMMA WordBytes ==
  ASSUME NEW v \in Word
  PROVE  /\ \A k \in 0 .. 3 : Byte(v, k) \in 0 .. B-1
         /\ v % (B * B) = Byte(v, 0) + B * Byte(v, 1)
         /\ v \div (B * B) = Byte(v, 2) + B * Byte(v, 3)
         /\ v % (B * B * B) = Byte(v, 0) + B * Byte(v, 1) + B * B * Byte(v, 2)
         /\ v \div (B * B * B) = Byte(v, 3)
<1>1. /\ B \in Nat \ {0} /\ B * B \in Nat \ {0} /\ B * B * B \in Nat \ {0}
      /\ M = (B * B * B) * B /\ v \in Nat /\ v < M
  BY Modulus
<1>2. PICK q1 \in Nat, b0 \in 0 .. B-1 : v = q1 * B + b0 /\ v \div B = q1 /\ v % B = b0
  BY <1>1, DivModParts
<1>3. PICK p2 \in Nat, b1 \in 0 .. B-1 : q1 = p2 * B + b1 /\ q1 \div B = p2 /\ q1 % B = b1
  BY <1>1, DivModParts
<1>4. v = p2 * (B * B) + (b0 + B * b1)
  BY <1>1, <1>2, <1>3
<1>5. b0 + B * b1 \in 0 .. B * B - 1
  <2>1. B * b1 <= B * (B - 1)
    BY <1>1, <1>3
  <2>2. B * (B - 1) = B * B - B
    BY <1>1
  <2>3. B * b1 \in Nat
    BY <1>1, <1>3
  <2> QED BY <1>1, <1>2, <2>1, <2>2, <2>3
<1>6. v \div (B * B) = p2 /\ v % (B * B) = b0 + B * b1
  BY <1>1, <1>3, <1>4, <1>5, DivModUnique
<1>7. PICK p3 \in Nat, b2 \in 0 .. B-1 : p2 = p3 * B + b2 /\ p2 \div B = p3 /\ p2 % B = b2
  BY <1>1, DivModParts
<1>8. v = p3 * (B * B * B) + (b0 + B * b1 + B * B * b2)
  BY <1>1, <1>2, <1>3, <1>4, <1>5, <1>7
<1>9. b0 + B * b1 + B * B * b2 \in 0 .. B * B * B - 1
  <2>1. (B * B) * b2 <= (B * B) * (B - 1)
    BY <1>1, <1>7
  <2>2. (B * B) * (B - 1) = B * B * B - B * B
    BY <1>1
  <2>3. B * B * b2 \in Nat /\ B * b1 \in Nat
    BY <1>1, <1>3, <1>7
  <2> QED BY <1>1, <1>2, <1>5, <2>1, <2>2, <2>3
<1>10. v \div (B * B * B) = p3 /\ v % (B * B * B) = b0 + B * b1 + B * B * b2
  <2> DEFINE r == b0 + B * b1 + B * B * b2
  <2>1. r \in 0 .. (B * B * B) - 1 /\ v = p3 * (B * B * B) + r
    BY <1>8, <1>9
  <2> HIDE DEF r
  <2>2. v \div (B * B * B) = p3 /\ v % (B * B * B) = r
    BY <1>1, <1>7, <2>1, DivModUnique
  <2> QED BY <2>2 DEF r
<1>11. p3 \in 0 .. B-1
  <2>1. SUFFICES ASSUME p3 >= B PROVE FALSE
    BY <1>1, <1>7
  <2>2. p3 * (B * B * B) >= B * (B * B * B)
    BY <1>1, <1>7, <2>1
  <2>3. B * (B * B * B) = (B * B * B) * B
    BY <1>1
  <2>4. v >= p3 * (B * B * B)
    BY <1>1, <1>7, <1>8, <1>9
  <2> QED BY <1>1, <1>7, <2>2, <2>3, <2>4
<1>12. p3 % B = p3
  BY <1>1, <1>11, SmallMod
<1>13. Byte(v, 0) = b0 /\ Byte(v, 1) = b1 /\ Byte(v, 2) = b2 /\ Byte(v, 3) = p3
  BY <1>2, <1>3, <1>6, <1>7, <1>10, <1>12 DEF Byte
<1>14. \A k \in 0 .. 3 : Byte(v, k) \in 0 .. B-1
  BY <1>2, <1>3, <1>7, <1>11, <1>13
<1> QED BY <1>1, <1>3, <1>6, <1>7, <1>10, <1>13, <1>14

(* Shuffling the bytes of a word is rotating it by two bytes, or by one.   *)
LEMMA ShuffleIsRotl ==
  ASSUME NEW v \in Word
  PROVE  /\ OfBytes(Byte(v, 2), Byte(v, 3), Byte(v, 0), Byte(v, 1)) = Rotl(v, B * B)
         /\ OfBytes(Byte(v, 3), Byte(v, 0), Byte(v, 1), Byte(v, 2)) = Rotl(v, B)
<1> DEFINE b0 == Byte(v, 0)
           b1 == Byte(v, 1)
           b2 == Byte(v, 2)
           b3 == Byte(v, 3)
<1>1. B \in Nat \ {0} /\ B * B \in Nat \ {0} /\ B * B * B \in Nat \ {0}
  BY Modulus
<1>2. b0 \in 0 .. B-1 /\ b1 \in 0 .. B-1 /\ b2 \in 0 .. B-1 /\ b3 \in 0 .. B-1
  BY WordBytes
<1>3. Rotl(v, B * B) = (b0 + B * b1) * (B * B) + (b2 + B * b3)
  BY <1>1, RotlParts, WordBytes, Modulus
<1>4. Rotl(v, B) = (b0 + B * b1 + B * B * b2) * B + b3
  <2>1. B * (B * B * B) = M
    BY Modulus
  <2>2. Rotl(v, B) = (v % (B * B * B)) * B + (v \div (B * B * B))
    BY <1>1, <2>1, RotlParts
  <2> QED BY <2>2, WordBytes
<1> HIDE DEF b0, b1, b2, b3
<1>5. OfBytes(b2, b3, b0, b1) = (b0 + B * b1) * (B * B) + (b2 + B * b3)
  BY <1>1, <1>2 DEF OfBytes
<1>6. OfBytes(b3, b0, b1, b2) = (b0 + B * b1 + B * B * b2) * B + b3
  BY <1>1, <1>2 DEF OfBytes
<1> QED BY <1>3, <1>4, <1>5, <1>6 DEF b0, b1, b2, b3

-----------------------------------------------------------------------------
(* The word operations stay inside a word.                                 *)
LEMMA PlusWord == \A u, v \in Word : Plus(u, v) \in Word
<1> SUFFICES ASSUME NEW u \in Word, NEW v \in Word PROVE Plus(u, v) \in Word
  OBVIOUS
<1>1. u + v \in Int /\ M \in Nat \ {0}
  BY Modulus
<1> QED BY <1>1, DivMod DEF Plus

LEMMA RotlWord ==
  ASSUME NEW v \in Word, NEW m \in {B * B, B, M12, M7}
  PROVE  Rotl(v, m) \in Word
<1>1. \A u \in Nat \ {0} : M % u = 0 => \E k \in Nat \ {0} : u * k = M
  <2> SUFFICES ASSUME NEW u \in Nat \ {0}, M % u = 0
               PROVE  \E k \in Nat \ {0} : u * k = M
    OBVIOUS
  <2>1. PICK q \in Nat, r \in 0 .. u-1 : M = q * u + r /\ M \div u = q /\ M % u = r
    BY Modulus, DivModParts
  <2>2. M = u * q /\ q # 0
    BY <2>1, Modulus
  <2> QED BY <2>2
<1>2. m \in Nat \ {0} /\ \E k \in Nat \ {0} : m * k = M
  <2>1. B * (B * B * B) = M
    BY Modulus
  <2> QED BY <1>1, <2>1, Modulus, RotationAssumption
<1> QED BY <1>2, RotlParts

LEMMA QuarterWords ==
  ASSUME NEW u \in Word, NEW v \in Word, NEW w \in Word, NEW y \in Word
  PROVE  LET q == Quarter(u, v, w, y)
         IN  q[1] \in Word /\ q[2] \in Word /\ q[3] \in Word /\ q[4] \in Word
<1> HIDE DEF Word
<1> DEFINE a1 == Plus(u, v)
           d1 == Rotl(XOR(y, a1), B * B)
           c1 == Plus(w, d1)
           b1 == Rotl(XOR(v, c1), M12)
           a2 == Plus(a1, b1)
           d2 == Rotl(XOR(d1, a2), B)
           c2 == Plus(c1, d2)
           b2 == Rotl(XOR(b1, c2), M7)
<1>1. Quarter(u, v, w, y) = <<a2, b2, c2, d2>>
  BY DEF Quarter
<1>2. a1 \in Word
  BY PlusWord
<1> HIDE DEF a1
<1>3. d1 \in Word
  BY <1>2, XorAssumption, RotlWord
<1> HIDE DEF d1
<1>4. c1 \in Word
  BY <1>3, PlusWord
<1> HIDE DEF c1
<1>5. b1 \in Word
  BY <1>4, XorAssumption, RotlWord
<1> HIDE DEF b1
<1>6. a2 \in Word
  BY <1>2, <1>5, PlusWord
<1> HIDE DEF a2
<1>7. d2 \in Word
  BY <1>3, <1>6, XorAssumption, RotlWord
<1> HIDE DEF d2
<1>8. c2 \in Word
  BY <1>4, <1>7, PlusWord
<1> HIDE DEF c2
<1>9. b2 \in Word
  BY <1>5, <1>8, XorAssumption, RotlWord
<1> HIDE DEF b2
<1> QED BY <1>1, <1>6, <1>7, <1>8, <1>9

-----------------------------------------------------------------------------
(* The lanes of the vectors.                                               *)
Vec == [Lanes -> Word]

(* The two masks rotate every lane.                                        *)
LEMMA MasksRotate ==
  ASSUME NEW v \in Vec
  PROVE  /\ ROTL16(v) = [l \in Lanes |-> Rotl(v[l], B * B)]
         /\ ROTL8(v) = [l \in Lanes |-> Rotl(v[l], B)]
<1>1. v[0] \in Word /\ v[1] \in Word /\ v[2] \in Word /\ v[3] \in Word
  BY DEF Vec
<1> DEFINE f == ROTL16(v)
           g == ROTL8(v)
<1>2. /\ \A l \in Lanes : f[l] = OfBytes(Byte(v[l], 2), Byte(v[l], 3), Byte(v[l], 0), Byte(v[l], 1))
      /\ f = [l \in Lanes |-> f[l]]
  BY DEF ROTL16, PSHUFB, rot16_mask
<1>3. /\ \A l \in Lanes : g[l] = OfBytes(Byte(v[l], 3), Byte(v[l], 0), Byte(v[l], 1), Byte(v[l], 2))
      /\ g = [l \in Lanes |-> g[l]]
  BY DEF ROTL8, PSHUFB, rot8_mask
<1>4. \A l \in Lanes : v[l] \in Word
  BY DEF Vec
<1> HIDE DEF f, g
<1>5. \A l \in Lanes : f[l] = Rotl(v[l], B * B) /\ g[l] = Rotl(v[l], B)
  BY <1>2, <1>3, <1>4, ShuffleIsRotl
<1>6. f = [l \in Lanes |-> Rotl(v[l], B * B)] /\ g = [l \in Lanes |-> Rotl(v[l], B)]
  BY <1>2, <1>3, <1>5
<1> QED BY <1>6 DEF f, g

(* Turning a vector left by one, two and three lanes.                      *)
LEMMA LaneRotations ==
  ASSUME NEW v \in Vec
  PROVE  /\ ROT_W1(v) = [l \in Lanes |-> v[(l + 1) % 4]]
         /\ ROT_W2(v) = [l \in Lanes |-> v[(l + 2) % 4]]
         /\ ROT_W3(v) = [l \in Lanes |-> v[(l + 3) % 4]]
<1>1. \A l \in 0 .. 3 : l = 0 \/ l = 1 \/ l = 2 \/ l = 3
  OBVIOUS
<1> QED BY <1>1 DEF ROT_W1, ROT_W2, ROT_W3, PSHUFD

(* Vector instructions, lane by lane.                                      *)
LEMMA VectorOps ==
  ASSUME NEW u \in Vec, NEW v \in Vec
  PROVE  /\ VEC_ADD(u, v) \in Vec /\ VEC_XOR(u, v) \in Vec
         /\ ROTL16(v) \in Vec /\ ROTL12(v) \in Vec
         /\ ROTL8(v) \in Vec /\ ROTL7(v) \in Vec
         /\ \A l \in Lanes :
              /\ VEC_ADD(u, v)[l] = Plus(u[l], v[l])
              /\ VEC_XOR(u, v)[l] = XOR(u[l], v[l])
              /\ ROTL16(v)[l] = Rotl(v[l], B * B)
              /\ ROTL12(v)[l] = Rotl(v[l], M12)
              /\ ROTL8(v)[l] = Rotl(v[l], B)
              /\ ROTL7(v)[l] = Rotl(v[l], M7)
<1> HIDE DEF Word
<1>1. \A l \in Lanes : u[l] \in Word /\ v[l] \in Word
  BY DEF Vec
<1>2. \A l \in Lanes : Plus(u[l], v[l]) \in Word /\ XOR(u[l], v[l]) \in Word
  BY <1>1, PlusWord, XorAssumption
<1>3. \A l \in Lanes : Rotl(v[l], B * B) \in Word /\ Rotl(v[l], B) \in Word
  BY <1>1, RotlWord
<1>4. \A l \in Lanes : Rotl(v[l], M12) \in Word /\ Rotl(v[l], M7) \in Word
  BY <1>1, RotlWord
<1>5. VEC_ADD(u, v) \in Vec /\ VEC_XOR(u, v) \in Vec
  BY <1>2 DEF VEC_ADD, VEC_XOR, Vec
<1>6. ROTL12(v) \in Vec /\ ROTL7(v) \in Vec
  BY <1>4 DEF ROTL12, ROTL7, Vec
<1>7. ROTL16(v) \in Vec /\ ROTL8(v) \in Vec
  BY <1>3, MasksRotate DEF Vec
<1>8. \A l \in Lanes : VEC_ADD(u, v)[l] = Plus(u[l], v[l])
                      /\ VEC_XOR(u, v)[l] = XOR(u[l], v[l])
  BY DEF VEC_ADD, VEC_XOR
<1>9. \A l \in Lanes : ROTL16(v)[l] = Rotl(v[l], B * B) /\ ROTL8(v)[l] = Rotl(v[l], B)
  BY MasksRotate
<1>10. \A l \in Lanes : ROTL12(v)[l] = Rotl(v[l], M12) /\ ROTL7(v)[l] = Rotl(v[l], M7)
  BY DEF ROTL12, ROTL7
<1> QED BY <1>5, <1>6, <1>7, <1>8, <1>9, <1>10

(* One vector quarter round is a quarter round in every lane.              *)
LEMMA VecQuarterLanes ==
  ASSUME NEW u \in Vec, NEW v \in Vec, NEW w \in Vec, NEW y \in Vec
  PROVE  /\ \A r \in 1 .. 4 : VecQuarter(u, v, w, y)[r] \in Vec
         /\ \A l \in Lanes :
              <<VecQuarter(u, v, w, y)[1][l], VecQuarter(u, v, w, y)[2][l],
                VecQuarter(u, v, w, y)[3][l], VecQuarter(u, v, w, y)[4][l]>>
                = Quarter(u[l], v[l], w[l], y[l])
<1> DEFINE a1 == VEC_ADD(u, v)
           x1 == VEC_XOR(y, a1)
           d1 == ROTL16(x1)
           c1 == VEC_ADD(w, d1)
           y1 == VEC_XOR(v, c1)
           b1 == ROTL12(y1)
           a2 == VEC_ADD(a1, b1)
           x2 == VEC_XOR(d1, a2)
           d2 == ROTL8(x2)
           c2 == VEC_ADD(c1, d2)
           y2 == VEC_XOR(b1, c2)
           b2 == ROTL7(y2)
<1>1. VecQuarter(u, v, w, y) = <<a2, b2, c2, d2>>
  BY DEF VecQuarter
<1> HIDE DEF Lanes, Vec
<1>2. a1 \in Vec /\ \A l \in Lanes : a1[l] = Plus(u[l], v[l])
  BY VectorOps
<1> HIDE DEF a1
<1>3. x1 \in Vec /\ \A l \in Lanes : x1[l] = XOR(y[l], a1[l])
  BY <1>2, VectorOps
<1> HIDE DEF x1
<1>4. d1 \in Vec /\ \A l \in Lanes : d1[l] = Rotl(x1[l], B * B)
  BY <1>3, VectorOps
<1> HIDE DEF d1
<1>5. c1 \in Vec /\ \A l \in Lanes : c1[l] = Plus(w[l], d1[l])
  BY <1>4, VectorOps
<1> HIDE DEF c1
<1>6. y1 \in Vec /\ \A l \in Lanes : y1[l] = XOR(v[l], c1[l])
  BY <1>5, VectorOps
<1> HIDE DEF y1
<1>7. b1 \in Vec /\ \A l \in Lanes : b1[l] = Rotl(y1[l], M12)
  BY <1>6, VectorOps
<1> HIDE DEF b1
<1>8. a2 \in Vec /\ \A l \in Lanes : a2[l] = Plus(a1[l], b1[l])
  BY <1>2, <1>7, VectorOps
<1> HIDE DEF a2
<1>9. x2 \in Vec /\ \A l \in Lanes : x2[l] = XOR(d1[l], a2[l])
  BY <1>4, <1>8, VectorOps
<1> HIDE DEF x2
<1>10. d2 \in Vec /\ \A l \in Lanes : d2[l] = Rotl(x2[l], B)
  BY <1>9, VectorOps
<1> HIDE DEF d2
<1>11. c2 \in Vec /\ \A l \in Lanes : c2[l] = Plus(c1[l], d2[l])
  BY <1>5, <1>10, VectorOps
<1> HIDE DEF c2
<1>12. y2 \in Vec /\ \A l \in Lanes : y2[l] = XOR(b1[l], c2[l])
  BY <1>7, <1>11, VectorOps
<1> HIDE DEF y2
<1>13. b2 \in Vec /\ \A l \in Lanes : b2[l] = Rotl(y2[l], M7)
  BY <1>12, VectorOps
<1> HIDE DEF b2
<1>14. \A l \in Lanes : <<a2[l], b2[l], c2[l], d2[l]>> = Quarter(u[l], v[l], w[l], y[l])
  BY <1>2, <1>3, <1>4, <1>5, <1>6, <1>7, <1>8, <1>9, <1>10, <1>11, <1>12, <1>13
     DEF Quarter
<1>15. \A r \in 1 .. 4 : <<a2, b2, c2, d2>>[r] \in Vec
  BY <1>8, <1>10, <1>11, <1>13
<1> QED BY <1>1, <1>14, <1>15

-----------------------------------------------------------------------------
(* The scalar function.                                                    *)
Words16 == 0 .. 15

LEMMA RoundMatrix ==
  ASSUME NEW y \in Matrix, NEW q \in 1 .. 8
  PROVE  Whole(q, y) \in Matrix
<1>1. \A w \in Words16 : y[w] \in Word
  BY DEF Matrix, Words16
<1> DEFINE Col(k) == Quarter(y[InColumn(0, k)], y[InColumn(1, k)],
                             y[InColumn(2, k)], y[InColumn(3, k)])
           Dia(k) == Quarter(y[InDiagonal(0, k)], y[InDiagonal(1, k)],
                             y[InDiagonal(2, k)], y[InDiagonal(3, k)])
<1>2. \A k \in 0 .. 3, r \in 0 .. 3 : InColumn(r, k) \in Words16 /\ InDiagonal(r, k) \in Words16
  BY DEF InColumn, InDiagonal, Words16
<1>3. \A k \in 0 .. 3 : \A r \in 1 .. 4 : Col(k)[r] \in Word /\ Dia(k)[r] \in Word
  <2> HIDE DEF Word
  <2> TAKE k \in 0 .. 3
  <2>1. Col(k)[1] \in Word /\ Col(k)[2] \in Word /\ Col(k)[3] \in Word /\ Col(k)[4] \in Word
    <3>1. /\ y[InColumn(0, k)] \in Word /\ y[InColumn(1, k)] \in Word
          /\ y[InColumn(2, k)] \in Word /\ y[InColumn(3, k)] \in Word
      BY <1>1, <1>2
    <3> QED BY <3>1, QuarterWords
  <2>2. Dia(k)[1] \in Word /\ Dia(k)[2] \in Word /\ Dia(k)[3] \in Word /\ Dia(k)[4] \in Word
    <3>1. /\ y[InDiagonal(0, k)] \in Word /\ y[InDiagonal(1, k)] \in Word
          /\ y[InDiagonal(2, k)] \in Word /\ y[InDiagonal(3, k)] \in Word
      BY <1>1, <1>2
    <3> QED BY <3>1, QuarterWords
  <2> HIDE DEF Col, Dia
  <2> QED BY <2>1, <2>2
<1> HIDE DEF Word
<1>4. ColumnRound(y) = [w \in 0 .. 15 |-> Col(w % 4)[(w \div 4) + 1]]
  BY DEF ColumnRound
<1>5. DiagonalRound(y) = [w \in 0 .. 15 |-> Dia((w - (w \div 4)) % 4)[(w \div 4) + 1]]
  BY DEF DiagonalRound
<1>6. \A w \in 0 .. 15 : w % 4 \in 0 .. 3 /\ (w \div 4) + 1 \in 1 .. 4 /\ (w - (w \div 4)) % 4 \in 0 .. 3
  OBVIOUS
<1> HIDE DEF Col, Dia
<1>7. ColumnRound(y) \in Matrix /\ DiagonalRound(y) \in Matrix
  BY <1>3, <1>4, <1>5, <1>6 DEF Matrix
<1> QED BY <1>7 DEF Whole

(* The words of the q-th quarter round: one of every row, in the place     *)
(* (q - 1) % 4 of their round.                                             *)
LEMMA QuadWords ==
  ASSUME NEW q \in 1 .. 8, NEW y
  PROVE  LET k == (q - 1) % 4
             z == Quarter(y[Quad(q)[1]], y[Quad(q)[2]], y[Quad(q)[3]], y[Quad(q)[4]])
         IN  /\ \A r \in 1 .. 4 :
                  /\ Quad(q)[r] \in 0 .. 15 /\ Quad(q)[r] \div 4 = r - 1
                  /\ Place(q, Quad(q)[r]) = k
                  /\ Whole(q, y)[Quad(q)[r]] = z[r]
             /\ \A w \in 0 .. 15 :
                  Place(q, w) = k => \E r \in 1 .. 4 : w = Quad(q)[r]
<1>1. CASE q = 1
  BY <1>1 DEF Quad, Place, Whole, ColumnRound, InColumn
<1>2. CASE q = 2
  BY <1>2 DEF Quad, Place, Whole, ColumnRound, InColumn
<1>3. CASE q = 3
  BY <1>3 DEF Quad, Place, Whole, ColumnRound, InColumn
<1>4. CASE q = 4
  BY <1>4 DEF Quad, Place, Whole, ColumnRound, InColumn
<1>5. CASE q = 5
  BY <1>5 DEF Quad, Place, Whole, DiagonalRound, InDiagonal
<1>6. CASE q = 6
  BY <1>6 DEF Quad, Place, Whole, DiagonalRound, InDiagonal
<1>7. CASE q = 7
  BY <1>7 DEF Quad, Place, Whole, DiagonalRound, InDiagonal
<1>8. CASE q = 8
  BY <1>8 DEF Quad, Place, Whole, DiagonalRound, InDiagonal
<1> QED BY <1>1, <1>2, <1>3, <1>4, <1>5, <1>6, <1>7, <1>8

(* One quarter round brings the round one quadruple further.               *)
LEMMA QuarterStep ==
  ASSUME TypeOK, RoundInProgress, QUARTERROUND
  PROVE  /\ x' \in Matrix
         /\ \A w \in 0 .. 15 :
              x'[w] = IF Place(quad, w) <= (quad - 1) % 4 THEN Whole(quad, start)[w]
                                                         ELSE start[w]
<1> DEFINE k == (quad - 1) % 4
           z == Quarter(start[Quad(quad)[1]], start[Quad(quad)[2]],
                        start[Quad(quad)[3]], start[Quad(quad)[4]])
           W(r) == Quad(quad)[r]
<1>1. quad \in 1 .. 8 /\ start \in Matrix /\ x \in Matrix
  BY DEF TypeOK
<1>2. /\ \A r \in 1 .. 4 : W(r) \in 0 .. 15 /\ W(r) \div 4 = r - 1
                          /\ Place(quad, W(r)) = k /\ Whole(quad, start)[W(r)] = z[r]
      /\ \A w \in 0 .. 15 : Place(quad, w) = k => \E r \in 1 .. 4 : w = W(r)
  BY <1>1, QuadWords, ZenonT(30)
<1> HIDE DEF W
<1>3. k \in 0 .. 3 /\ \A w \in 0 .. 15 : Place(quad, w) \in 0 .. 3
  BY <1>1 DEF Place
<1>4. \A r \in 1 .. 4 : x[W(r)] = start[W(r)]
  BY <1>2, <1>3 DEF RoundInProgress
<1>5. x' = [x EXCEPT ![W(1)] = z[1], ![W(2)] = z[2], ![W(3)] = z[3], ![W(4)] = z[4]]
  <2>1. /\ x[Quad(quad)[1]] = start[Quad(quad)[1]] /\ x[Quad(quad)[2]] = start[Quad(quad)[2]]
        /\ x[Quad(quad)[3]] = start[Quad(quad)[3]] /\ x[Quad(quad)[4]] = start[Quad(quad)[4]]
    BY <1>4 DEF W
  <2> QED BY <2>1 DEF QUARTERROUND, W
<1>6. W(1) # W(2) /\ W(1) # W(3) /\ W(1) # W(4) /\ W(2) # W(3) /\ W(2) # W(4) /\ W(3) # W(4)
  <2>1. W(1) \div 4 = 0 /\ W(2) \div 4 = 1 /\ W(3) \div 4 = 2 /\ W(4) \div 4 = 3
    BY <1>2
  <2> QED BY <2>1
<1> HIDE DEF k, z
<1>7. DOMAIN x = 0 .. 15 /\ DOMAIN x' = 0 .. 15
  BY <1>1, <1>5 DEF Matrix
<1>8. x'[W(1)] = z[1] /\ x'[W(2)] = z[2] /\ x'[W(3)] = z[3] /\ x'[W(4)] = z[4]
  BY <1>2, <1>5, <1>6, <1>7
<1>9. \A w \in 0 .. 15 : Place(quad, w) # k => x'[w] = x[w]
  BY <1>2, <1>5, <1>7
<1>10. \A r \in 1 .. 4 : x'[W(r)] = Whole(quad, start)[W(r)]
  <2>1. \A r \in 1 .. 4 : r = 1 \/ r = 2 \/ r = 3 \/ r = 4
    OBVIOUS
  <2> QED BY <1>2, <1>8, <2>1
<1>11. ASSUME NEW w \in 0 .. 15
       PROVE  x'[w] = IF Place(quad, w) <= k THEN Whole(quad, start)[w] ELSE start[w]
  <2>1. CASE Place(quad, w) = k
    <3>1. PICK r \in 1 .. 4 : w = W(r)
      BY <1>2, <2>1
    <3> QED BY <3>1, <1>10, <2>1, <1>3
  <2>2. CASE Place(quad, w) # k
    <3>1. x[w] = IF Place(quad, w) < k THEN Whole(quad, start)[w] ELSE start[w]
      BY DEF RoundInProgress, k
    <3> QED BY <3>1, <1>3, <1>9, <2>2
  <2> QED BY <2>1, <2>2
<1>12. x' \in Matrix
  <2>1. Whole(quad, start) \in Matrix
    BY <1>1, RoundMatrix
  <2>2. x' = [w \in 0 .. 15 |-> x'[w]]
    BY <1>5, <1>7, <1>1 DEF Matrix
  <2>3. \A w \in 0 .. 15 : x'[w] \in Word
    <3> HIDE DEF Word
    <3> QED BY <1>1, <1>11, <2>1 DEF Matrix
  <2> HIDE DEF Word
  <2> QED BY <2>2, <2>3 DEF Matrix
<1> QED BY <1>11, <1>12 DEF k

(* At its last quadruple the round is complete.                            *)
LEMMA RoundComplete ==
  ASSUME TypeOK, RoundInProgress, QUARTERROUND, quad \in {4, 8}
  PROVE  x' = Whole(quad, start) /\ start' = x'
<1>1. quad \in 1 .. 8 /\ start \in Matrix /\ (quad - 1) % 4 = 3
  BY DEF TypeOK
<1>2. \A w \in 0 .. 15 : Place(quad, w) \in 0 .. 3
  BY <1>1 DEF Place
<1>3. \A w \in 0 .. 15 : x'[w] = Whole(quad, start)[w]
  BY <1>1, <1>2, QuarterStep
<1>4. x' \in Matrix /\ Whole(quad, start) \in Matrix
  BY <1>1, QuarterStep, RoundMatrix
<1>5. x' = Whole(quad, start)
  <2> HIDE DEF Word
  <2> QED BY <1>3, <1>4 DEF Matrix
<1> QED BY <1>5 DEF QUARTERROUND

-----------------------------------------------------------------------------
(* The vector function.                                                    *)
(* One step runs a quarter round in every lane.                            *)
LEMMA VecColumn ==
  ASSUME TypeOK, VEC_QUARTERROUND
  PROVE  /\ a' \in Vec /\ b' \in Vec /\ c' \in Vec /\ d' \in Vec
         /\ \A l \in Lanes : <<a'[l], b'[l], c'[l], d'[l]>> = Quarter(a[l], b[l], c[l], d[l])
<1>1. a \in Vec /\ b \in Vec /\ c \in Vec /\ d \in Vec
  BY DEF TypeOK, Row, Vec
<1> HIDE DEF Lanes, Vec
<1> DEFINE y == VecQuarter(a, b, c, d)
<1>2. a' = y[1] /\ b' = y[2] /\ c' = y[3] /\ d' = y[4]
  BY DEF VEC_QUARTERROUND
<1>3. \A r \in 1 .. 4 : y[r] \in Vec
  BY <1>1, VecQuarterLanes
<1>4. \A l \in Lanes : <<y[1][l], y[2][l], y[3][l], y[4][l]>> = Quarter(a[l], b[l], c[l], d[l])
  BY <1>1, VecQuarterLanes
<1> HIDE DEF y
<1>5. y[1] \in Vec /\ y[2] \in Vec /\ y[3] \in Vec /\ y[4] \in Vec
  BY <1>3
<1> QED BY <1>2, <1>4, <1>5

LEMMA HeldMatrix == TypeOK => Held \in Matrix
<1> SUFFICES ASSUME TypeOK PROVE Held \in Matrix
  OBVIOUS
<1>1. \A r \in 0 .. 3, l \in Lanes : Row(r)[l] \in Word
  BY DEF TypeOK
<1>2. \A w \in 0 .. 15 : w \div 4 \in 0 .. 3 /\ w % 4 \in Lanes /\ (w - (w \div 4)) % 4 \in Lanes
  OBVIOUS
<1> HIDE DEF Word
<1>3. \A w \in 0 .. 15 : Row(w \div 4)[IF Turned THEN (w - (w \div 4)) % 4 ELSE w % 4] \in Word
  BY <1>1, <1>2
<1> QED BY <1>3 DEF Held, Matrix

(* A quarter round in the lanes is a whole round of the matrix they hold.  *)
LEMMA VecRound ==
  ASSUME TypeOK, VEC_QUARTERROUND
  PROVE  Held' = IF pc = "column" THEN ColumnRound(Held) ELSE DiagonalRound(Held)
<1> DEFINE Q(l) == Quarter(a[l], b[l], c[l], d[l])
           N(r) == CASE r = 0 -> a' [] r = 1 -> b' [] r = 2 -> c' [] r = 3 -> d'
<1>1. \A l \in Lanes : <<a'[l], b'[l], c'[l], d'[l]>> = Q(l)
  BY VecColumn
<1>2. \A l \in Lanes : a'[l] = Q(l)[1] /\ b'[l] = Q(l)[2] /\ c'[l] = Q(l)[3] /\ d'[l] = Q(l)[4]
  <2> TAKE l \in Lanes
  <2> DEFINE q == Q(l)
  <2>1. <<a'[l], b'[l], c'[l], d'[l]>> = q
    BY <1>1
  <2> HIDE DEF q
  <2>2. a'[l] = q[1] /\ b'[l] = q[2] /\ c'[l] = q[3] /\ d'[l] = q[4]
    BY <2>1
  <2> QED BY <2>2 DEF q
<1> HIDE DEF Q
<1>3. \A l \in Lanes, r \in 0 .. 3 : N(r)[l] = Q(l)[r + 1]
  BY <1>2
<1>4. \A r \in 0 .. 3 : Row(r)' = N(r)
  BY DEF Row
<1> HIDE DEF N
<1>5. CASE pc = "column"
  <2>1. ~Turned /\ ~Turned'
    BY <1>5 DEF Turned, VEC_QUARTERROUND
  <2>2. Held = [w \in 0 .. 15 |-> Row(w \div 4)[w % 4]]
    BY <2>1 DEF Held
  <2>3. Held' = [w \in 0 .. 15 |-> N(w \div 4)[w % 4]]
    BY <2>1, <1>4 DEF Held
  <2>4. ASSUME NEW k \in Lanes
        PROVE  Quarter(Held[InColumn(0, k)], Held[InColumn(1, k)],
                       Held[InColumn(2, k)], Held[InColumn(3, k)]) = Q(k)
    <3>1. /\ Held[InColumn(0, k)] = a[k] /\ Held[InColumn(1, k)] = b[k]
          /\ Held[InColumn(2, k)] = c[k] /\ Held[InColumn(3, k)] = d[k]
      BY <2>2 DEF InColumn, Row
    <3> QED BY <3>1 DEF Q
  <2>5. ColumnRound(Held) = [w \in 0 .. 15 |-> Q(w % 4)[(w \div 4) + 1]]
    BY <2>4 DEF ColumnRound
  <2>6. \A w \in 0 .. 15 : N(w \div 4)[w % 4] = Q(w % 4)[(w \div 4) + 1]
    BY <1>3
  <2> QED BY <1>5, <2>3, <2>5, <2>6
<1>6. CASE pc # "column"
  <2>1. Turned /\ Turned'
    BY <1>6 DEF Turned, VEC_QUARTERROUND
  <2>2. Held = [w \in 0 .. 15 |-> Row(w \div 4)[(w - (w \div 4)) % 4]]
    BY <2>1 DEF Held
  <2>3. Held' = [w \in 0 .. 15 |-> N(w \div 4)[(w - (w \div 4)) % 4]]
    BY <2>1, <1>4 DEF Held
  <2>4. ASSUME NEW k \in Lanes
        PROVE  Quarter(Held[InDiagonal(0, k)], Held[InDiagonal(1, k)],
                       Held[InDiagonal(2, k)], Held[InDiagonal(3, k)]) = Q(k)
    <3>1. /\ Held[InDiagonal(0, k)] = a[k] /\ Held[InDiagonal(1, k)] = b[k]
          /\ Held[InDiagonal(2, k)] = c[k] /\ Held[InDiagonal(3, k)] = d[k]
      BY <2>2 DEF InDiagonal, Row
    <3> QED BY <3>1 DEF Q
  <2>5. DiagonalRound(Held) = [w \in 0 .. 15 |-> Q((w - (w \div 4)) % 4)[(w \div 4) + 1]]
    BY <2>4 DEF DiagonalRound
  <2>6. \A w \in 0 .. 15 : N(w \div 4)[(w - (w \div 4)) % 4]
                           = Q((w - (w \div 4)) % 4)[(w \div 4) + 1]
    BY <1>3
  <2> QED BY <1>6, <2>3, <2>5, <2>6
<1> QED BY <1>5, <1>6

(* Turning the rows, or turning them back, leaves the matrix as it is.     *)
LEMMA TurnsKeep ==
  ASSUME TypeOK, Turn \/ Unturn
  PROVE  Held' = Held /\ a' \in Vec /\ b' \in Vec /\ c' \in Vec /\ d' \in Vec
<1>1. a \in Vec /\ b \in Vec /\ c \in Vec /\ d \in Vec
  BY DEF TypeOK, Row, Vec
<1>2. a' = a
  BY DEF Turn, Unturn
<1>3. CASE Turn
  <2>1. /\ b' = [l \in Lanes |-> b[(l + 1) % 4]] /\ c' = [l \in Lanes |-> c[(l + 2) % 4]]
        /\ d' = [l \in Lanes |-> d[(l + 3) % 4]] /\ ~Turned /\ Turned'
    BY <1>1, <1>3, LaneRotations DEF Turn, Turned
  <2>2. ASSUME NEW w \in 0 .. 15
        PROVE  Row(w \div 4)'[(w - (w \div 4)) % 4] = Row(w \div 4)[w % 4]
    BY <2>1, <1>2 DEF Row
  <2>3. Held' = Held
    BY <2>1, <2>2 DEF Held
  <2> QED BY <1>1, <1>2, <2>1, <2>3 DEF Vec
<1>4. CASE Unturn
  <2>1. /\ b' = [l \in Lanes |-> b[(l + 3) % 4]] /\ c' = [l \in Lanes |-> c[(l + 2) % 4]]
        /\ d' = [l \in Lanes |-> d[(l + 1) % 4]] /\ Turned /\ ~Turned'
    BY <1>1, <1>4, LaneRotations DEF Unturn, Turned
  <2>2. ASSUME NEW w \in 0 .. 15
        PROVE  Row(w \div 4)'[w % 4] = Row(w \div 4)[(w - (w \div 4)) % 4]
    BY <2>1, <1>2 DEF Row
  <2>3. Held' = Held
    BY <2>1, <2>2 DEF Held
  <2> QED BY <1>1, <1>2, <2>1, <2>3 DEF Vec
<1> QED BY <1>3, <1>4

-----------------------------------------------------------------------------
(* TypeOK and RoundInProgress together are inductive: where a round is     *)
(* rests on the words being words, and that they stay words on which of    *)
(* them the round has written.                                             *)
IInv == TypeOK /\ RoundInProgress

LEMMA HalfRounds == \E h \in Nat : Rounds = 2 * h /\ Rounds \div 2 = h
<1>1. PICK q \in Nat, r \in 0 .. 1 : Rounds = q * 2 + r /\ Rounds \div 2 = q /\ Rounds % 2 = r
  BY RoundsAssumption, DivModParts
<1> QED BY <1>1, RoundsAssumption

LEMMA InitIInv == Init => IInv
<1> SUFFICES ASSUME Init PROVE IInv
  OBVIOUS
<1>1. in \in States /\ x = in /\ start = in /\ in \in Matrix
  BY StatesAssumption DEF Init
<1>2. Rounds \div 2 \in Nat
  BY HalfRounds
<1>3. a \in Vec /\ b \in Vec /\ c \in Vec /\ d \in Vec
  <2>1. \A w \in 0 .. 15 : in[w] \in Word
    BY <1>1 DEF Matrix
  <2>2. \A l \in Lanes : in[l] \in Word /\ in[4 + l] \in Word
                         /\ in[8 + l] \in Word /\ in[12 + l] \in Word
    BY <2>1
  <2> HIDE DEF Word
  <2> QED BY <2>2 DEF Init, Vec
<1>4. TypeOK
  BY <1>1, <1>2, <1>3 DEF Init, TypeOK, Row, Vec
<1>5. RoundInProgress
  <2>1. \A w \in 0 .. 15 : Place(1, w) \in 0 .. 3
    BY DEF Place
  <2> QED BY <1>1, <2>1 DEF Init, RoundInProgress
<1> QED BY <1>4, <1>5 DEF IInv

LEMMA QuarterIInv ==
  ASSUME IInv, QUARTERROUND
  PROVE  IInv'
<1>1. quad \in 1 .. 8 /\ i \in 1 .. Rounds \div 2 /\ start \in Matrix
  BY HalfRounds DEF IInv, TypeOK, QUARTERROUND
<1>2. x' \in Matrix /\ start' \in Matrix
  BY <1>1, QuarterStep DEF IInv, QUARTERROUND
<1>3. quad' \in 1 .. 8 /\ i' \in 0 .. Rounds \div 2 /\ (i' = 0 => quad' = 1)
  BY <1>1, HalfRounds DEF QUARTERROUND
<1>4. TypeOK'
  BY <1>2, <1>3 DEF IInv, TypeOK, QUARTERROUND, vector, Row
<1>5. CASE quad \in {4, 8}
  <2>1. start' = x' /\ quad' \in {5, 1} /\ (quad' - 1) % 4 = 0
    BY <1>5, RoundComplete DEF IInv, QUARTERROUND
  <2>2. \A w \in 0 .. 15 : Place(quad', w) \in 0 .. 3
    BY <1>3 DEF Place
  <2>3. RoundInProgress'
    BY <2>1, <2>2 DEF RoundInProgress
  <2> QED BY <1>4, <2>3 DEF IInv
<1>6. CASE quad \notin {4, 8}
  <2>1. /\ start' = start /\ quad' = quad + 1
        /\ (quad > 4) = (quad' > 4) /\ (quad' - 1) % 4 = ((quad - 1) % 4) + 1
    BY <1>1, <1>6 DEF QUARTERROUND
  <2>2. \A w \in 0 .. 15 : Place(quad', w) = Place(quad, w) /\ Place(quad, w) \in 0 .. 3
    BY <1>1, <2>1 DEF Place
  <2>3. Whole(quad', start') = Whole(quad, start)
    BY <2>1 DEF Whole
  <2>4. ASSUME NEW w \in 0 .. 15
        PROVE  x'[w] = IF Place(quad', w) < (quad' - 1) % 4
                       THEN Whole(quad', start')[w] ELSE start'[w]
    <3>1. x'[w] = IF Place(quad, w) <= (quad - 1) % 4
                  THEN Whole(quad, start)[w] ELSE start[w]
      BY QuarterStep DEF IInv
    <3> QED BY <1>1, <2>1, <2>2, <2>3, <3>1
  <2>5. RoundInProgress'
    BY <2>4 DEF RoundInProgress
  <2> QED BY <1>4, <2>5 DEF IInv
<1> QED BY <1>5, <1>6

LEMMA VectorIInv ==
  ASSUME IInv, VEC_QUARTERROUND \/ Turn \/ Unturn
  PROVE  IInv'
<1>1. UNCHANGED <<in, x, start, quad, i>>
  BY DEF VEC_QUARTERROUND, Turn, Unturn, scalar
<1>2. RoundInProgress'
  BY <1>1 DEF IInv, RoundInProgress, Place, Whole, ColumnRound, DiagonalRound
<1>3. a' \in Vec /\ b' \in Vec /\ c' \in Vec /\ d' \in Vec
  BY VecColumn, TurnsKeep DEF IInv
<1>4. n \in 0 .. Rounds \div 2 /\ (n = 0 => pc = "column")
  BY DEF IInv, TypeOK
<1>5. pc' \in {"column", "turn", "diagonal", "unturn"} /\ n' \in 0 .. Rounds \div 2
      /\ (n' = 0 => pc' = "column")
  BY <1>4, HalfRounds DEF VEC_QUARTERROUND, Turn, Unturn
<1>6. TypeOK'
  BY <1>1, <1>3, <1>5 DEF IInv, TypeOK, Row, Vec
<1> QED BY <1>2, <1>6 DEF IInv

LEMMA NextIInv == IInv /\ [Next]_vars => IInv'
<1> SUFFICES ASSUME IInv, [Next]_vars PROVE IInv'
  OBVIOUS
<1>1. CASE UNCHANGED <<in, x, start, quad, i, a, b, c, d, pc, n>>
  BY <1>1 DEF IInv, TypeOK, Row, RoundInProgress, Place, Whole, ColumnRound, DiagonalRound
<1>2. CASE U32TO8_LITTLE \/ Storeu \/ UNCHANGED vars
  BY <1>1, <1>2 DEF U32TO8_LITTLE, Storeu, vars, scalar, vector
<1> QED BY <1>2, QuarterIInv, VectorIInv DEF Next

LEMMA Invariant == Spec => []IInv
<1> QED BY InitIInv, NextIInv, PTL DEF Spec

(* Every word of the two functions is a word: their sums and rotations are *)
(* cut to 32 bits (chacha20.c 32-41, chacha20_simd.c 25-115).              *)
THEOREM BlockTypeCorrect == Spec => []TypeOK
<1>1. IInv => TypeOK
  BY DEF IInv
<1> QED BY <1>1, Invariant, PTL

(* No quarter round disturbs the words of another one of its round, which  *)
(* is what lets the vectors run them at once (chacha20.c 64-73).           *)
THEOREM RoundCorrect == Spec => []RoundInProgress
<1>1. IInv => RoundInProgress
  BY DEF IInv
<1> QED BY <1>1, Invariant, PTL

-----------------------------------------------------------------------------
(* The refinements.                                                        *)

(* The instances use the operators of this module.                         *)
LEMMA ScalarOperators ==
  /\ Scalar!ColumnRound(start) = ColumnRound(start)
  /\ Scalar!DiagonalRound(start) = DiagonalRound(start)
  /\ Scalar!Output(start, in) = Output(start, in)
BY DEF Scalar!ColumnRound, Scalar!DiagonalRound, Scalar!Output, ColumnRound,
       DiagonalRound, Output, Scalar!InColumn, InColumn, Scalar!InDiagonal, InDiagonal,
       Scalar!Quarter, Quarter, Scalar!Plus, Plus, Scalar!Rotl, Rotl, Scalar!Byte, Byte,
       Scalar!M, M

LEMMA VectorOperators ==
  /\ Vector!ColumnRound(Held) = ColumnRound(Held)
  /\ Vector!DiagonalRound(Held) = DiagonalRound(Held)
  /\ Vector!Output(Held, in) = Output(Held, in)
BY DEF Vector!ColumnRound, Vector!DiagonalRound, Vector!Output, ColumnRound,
       DiagonalRound, Output, Vector!InColumn, InColumn, Vector!InDiagonal, InDiagonal,
       Vector!Quarter, Quarter, Vector!Plus, Plus, Vector!Rotl, Rotl, Vector!Byte, Byte,
       Vector!M, M

LEMMA ScalarInit == Init => Scalar!Init
BY HalfRounds DEF Init, Scalar!Init, RoundsDone, Scalar!NoOutput

(* The round number counts up by one at every fourth quarter round; the    *)
(* rounds alternate.                                                       *)
LEMMA ScalarRound ==
  ASSUME IInv, QUARTERROUND, quad \in {4, 8}
  PROVE  Scalar!Round
<1>1. PICK h \in Nat : Rounds = 2 * h /\ Rounds \div 2 = h
  BY HalfRounds
<1>2. quad \in 1 .. 8 /\ i \in 1 .. h
  BY <1>1 DEF IInv, TypeOK, QUARTERROUND
<1>3. start' = Whole(quad, start)
  BY RoundComplete DEF IInv
<1>4. CASE quad = 4
  <2>1. RoundsDone = (h - i) * 2 + 0 /\ RoundsDone' = RoundsDone + 1
    BY <1>1, <1>2, <1>4 DEF RoundsDone, QUARTERROUND
  <2>2. RoundsDone % 2 = 0 /\ RoundsDone < Rounds
    BY <1>1, <1>2, <2>1
  <2>3. start' = Scalar!ColumnRound(start)
    BY <1>3, <1>4, ScalarOperators DEF Whole
  <2>4. UNCHANGED <<in, out>>
    BY DEF QUARTERROUND
  <2> QED BY <2>1, <2>2, <2>3, <2>4 DEF Scalar!Round
<1>5. CASE quad = 8
  <2>1. RoundsDone = (h - i) * 2 + 1 /\ RoundsDone' = RoundsDone + 1
    BY <1>1, <1>2, <1>5 DEF RoundsDone, QUARTERROUND
  <2>2. RoundsDone % 2 = 1 /\ RoundsDone < Rounds
    BY <1>1, <1>2, <2>1
  <2>3. start' = Scalar!DiagonalRound(start)
    BY <1>3, <1>5, ScalarOperators DEF Whole
  <2>4. UNCHANGED <<in, out>> /\ RoundsDone % 2 # 0
    BY <2>2 DEF QUARTERROUND
  <2> QED BY <2>1, <2>2, <2>3, <2>4 DEF Scalar!Round
<1> QED BY <1>4, <1>5

LEMMA ScalarStore ==
  ASSUME IInv, U32TO8_LITTLE
  PROVE  Scalar!Store
<1>1. i = 0 /\ quad = 1 /\ x \in Matrix /\ start \in Matrix
  BY DEF IInv, TypeOK, U32TO8_LITTLE
<1>2. RoundsDone = Rounds /\ RoundsDone' = RoundsDone
  BY <1>1, RoundsAssumption DEF RoundsDone, U32TO8_LITTLE
<1>3. \A w \in 0 .. 15 : x[w] = start[w]
  <2>1. \A w \in 0 .. 15 : Place(1, w) \in 0 .. 3
    BY DEF Place
  <2> QED BY <1>1, <2>1 DEF IInv, RoundInProgress
<1>4. \A p \in 0 .. 63 : p \div 4 \in 0 .. 15
  OBVIOUS
<1>5. out' = Scalar!Output(start, in)
  BY <1>3, <1>4, ScalarOperators DEF U32TO8_LITTLE, Output
<1> QED BY <1>2, <1>5 DEF Scalar!Store, U32TO8_LITTLE

LEMMA ScalarStep ==
  ASSUME IInv, [Next]_vars
  PROVE  [Scalar!Next]_<<in, start, RoundsDone, out>>
<1>1. CASE QUARTERROUND /\ quad \in {4, 8}
  BY <1>1, ScalarRound DEF Scalar!Next
<1>2. CASE QUARTERROUND /\ quad \notin {4, 8}
  <2>1. quad \in 1 .. 8 /\ start' = start /\ i' = i /\ quad' = quad + 1 /\ UNCHANGED <<in, out>>
    BY <1>2 DEF IInv, TypeOK, QUARTERROUND
  <2>2. RoundsDone' = RoundsDone
    BY <1>2, <2>1 DEF RoundsDone
  <2> QED BY <2>1, <2>2
<1>3. CASE U32TO8_LITTLE
  BY <1>3, ScalarStore DEF Scalar!Next
<1>4. CASE VEC_QUARTERROUND \/ Turn \/ Unturn \/ Storeu \/ UNCHANGED vars
  BY <1>4 DEF VEC_QUARTERROUND, Turn, Unturn, Storeu, vars, scalar, RoundsDone
<1> QED BY <1>1, <1>2, <1>3, <1>4 DEF Next

(* The scalar block function computes the rounds and the output of ChaCha  *)
(* (chacha20.c 43-105, chacha20.ml 47-60).                                 *)
THEOREM ScalarCorrect == Spec => ScalarRefines
<1>1. IInv /\ [Next]_vars => [Scalar!Next]_<<in, start, RoundsDone, out>>
  BY ScalarStep
<1> QED BY <1>1, ScalarInit, Invariant, PTL
        DEF Spec, ScalarRefines, Scalar!Spec, Scalar!roundsVars

LEMMA VectorInit == Init => Vector!Init
<1> SUFFICES ASSUME Init PROVE Vector!Init
  OBVIOUS
<1>1. VectorRoundsDone = 0 /\ ~Turned
  BY HalfRounds DEF Init, VectorRoundsDone, Turned
<1>2. in \in [0 .. 15 -> Word]
  BY StatesAssumption DEF Init, Matrix
<1>3. Held = [w \in 0 .. 15 |-> in[w]]
  BY <1>1 DEF Init, Held, Row
<1>4. Held = in
  <2> HIDE DEF Word
  <2> QED BY <1>2, <1>3
<1> QED BY <1>1, <1>4 DEF Init, Vector!Init, Vector!NoOutput

LEMMA VectorRound ==
  ASSUME IInv, VEC_QUARTERROUND
  PROVE  Vector!Round
<1>1. PICK h \in Nat : Rounds = 2 * h /\ Rounds \div 2 = h
  BY HalfRounds
<1>2. n \in 1 .. h
  BY <1>1 DEF IInv, TypeOK, VEC_QUARTERROUND
<1>3. Held' = IF pc = "column" THEN ColumnRound(Held) ELSE DiagonalRound(Held)
  BY VecRound DEF IInv
<1>4. CASE pc = "column"
  <2>1. VectorRoundsDone = (h - n) * 2 + 0 /\ VectorRoundsDone' = VectorRoundsDone + 1
    BY <1>1, <1>2, <1>4 DEF VectorRoundsDone, VEC_QUARTERROUND
  <2>2. VectorRoundsDone % 2 = 0 /\ VectorRoundsDone < Rounds
    BY <1>1, <1>2, <2>1
  <2>3. Held' = Vector!ColumnRound(Held)
    BY <1>3, <1>4, VectorOperators
  <2> QED BY <2>1, <2>2, <2>3 DEF Vector!Round, VEC_QUARTERROUND
<1>5. CASE pc = "diagonal"
  <2>1. VectorRoundsDone = (h - n) * 2 + 1 /\ VectorRoundsDone' = VectorRoundsDone + 1
    BY <1>1, <1>2, <1>5 DEF VectorRoundsDone, VEC_QUARTERROUND
  <2>2. VectorRoundsDone % 2 = 1 /\ VectorRoundsDone < Rounds
    BY <1>1, <1>2, <2>1
  <2>3. Held' = Vector!DiagonalRound(Held)
    BY <1>3, <1>5, VectorOperators
  <2> QED BY <2>1, <2>2, <2>3 DEF Vector!Round, VEC_QUARTERROUND
<1> QED BY <1>4, <1>5 DEF VEC_QUARTERROUND

LEMMA VectorStore ==
  ASSUME IInv, Storeu
  PROVE  Vector!Store
<1>1. VectorRoundsDone = Rounds /\ VectorRoundsDone' = VectorRoundsDone /\ ~Turned
  BY RoundsAssumption DEF VectorRoundsDone, Turned, Storeu
<1>2. Held' = Held
  BY DEF Held, Turned, Row, Storeu
<1>3. Held = [w \in 0 .. 15 |-> Row(w \div 4)[w % 4]]
  BY <1>1 DEF Held
<1> DEFINE sum(r) == VEC_ADD(Row(r), [l \in Lanes |-> in[4*r + l]])
<1>4. vout' = [p \in 0 .. 63 |-> Byte(sum(p \div 16)[(p \div 4) % 4], p % 4)]
  BY DEF Storeu
<1>5. \A r \in 0 .. 3, l \in Lanes : sum(r)[l] = Plus(Row(r)[l], in[4*r + l])
  BY DEF VEC_ADD
<1>6. ASSUME NEW p \in 0 .. 63
      PROVE  sum(p \div 16)[(p \div 4) % 4] = Plus(Held[p \div 4], in[p \div 4])
  <2> HIDE DEF sum
  <2>1. /\ p \div 4 \in 0 .. 15 /\ p \div 16 \in 0 .. 3 /\ (p \div 4) % 4 \in Lanes
        /\ (p \div 4) \div 4 = p \div 16 /\ 4 * (p \div 16) + ((p \div 4) % 4) = p \div 4
    OBVIOUS
  <2>2. Held[p \div 4] = Row(p \div 16)[(p \div 4) % 4]
    BY <1>3, <2>1
  <2> QED BY <1>5, <2>1, <2>2
<1> HIDE DEF sum
<1>7. vout' = Vector!Output(Held, in)
  BY <1>4, <1>6, VectorOperators DEF Output
<1> QED BY <1>1, <1>2, <1>7 DEF Vector!Store, Storeu

LEMMA VectorStep ==
  ASSUME IInv, [Next]_vars
  PROVE  [Vector!Next]_<<in, Held, VectorRoundsDone, vout>>
<1>1. CASE VEC_QUARTERROUND
  BY <1>1, VectorRound DEF Vector!Next
<1>2. CASE Turn \/ Unturn
  <2>1. Held' = Held
    BY <1>2, TurnsKeep DEF IInv
  <2>2. n \in Nat /\ Rounds \in Nat
    BY HalfRounds, RoundsAssumption DEF IInv, TypeOK
  <2>3. VectorRoundsDone' = VectorRoundsDone
    BY <1>2, <2>2 DEF VectorRoundsDone, Turn, Unturn
  <2> QED BY <1>2, <2>1, <2>3 DEF Turn, Unturn
<1>3. CASE Storeu
  BY <1>3, VectorStore DEF Vector!Next
<1>4. CASE QUARTERROUND \/ U32TO8_LITTLE \/ UNCHANGED vars
  <2>1. UNCHANGED <<in, a, b, c, d, pc, n, vout>>
    BY <1>4 DEF QUARTERROUND, U32TO8_LITTLE, vars, vector
  <2>2. Held' = Held /\ VectorRoundsDone' = VectorRoundsDone
    BY <2>1 DEF VectorRoundsDone, Held, Turned, Row
  <2> QED BY <2>1, <2>2
<1> QED BY <1>1, <1>2, <1>3, <1>4 DEF Next

(* The vector block function computes the same rounds and the same output  *)
(* (chacha20_simd.c 60-180, chacha20_simd.ml 39-118).                      *)
THEOREM VectorCorrect == Spec => VectorRefines
<1>1. IInv /\ [Next]_vars => [Vector!Next]_<<in, Held, VectorRoundsDone, vout>>
  BY VectorStep
<1> QED BY <1>1, VectorInit, Invariant, PTL
        DEF Spec, VectorRefines, Vector!Spec, Vector!roundsVars
=============================================================================
