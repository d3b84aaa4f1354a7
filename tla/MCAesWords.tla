----------------------------- MODULE MCAesWords -----------------------------
(* Bytes of three bits for AesWords: the field GF(8), reduced by x^3 + x + 1,*)
(* with the matrices of AES, whose entries are polynomials and need no field *)
(* of a particular size to be inverse to each other.                         *)
LOCAL INSTANCE Integers

MCByte == SUBSET (0 .. 2)
MCXOR(u, v) == (u \ v) \cup (v \ u)

Nth(n) == {b \in 0 .. 2 : (n \div 2^b) % 2 = 1}
Number(u) == (IF 0 \in u THEN 1 ELSE 0) + (IF 1 \in u THEN 2 ELSE 0)
             + (IF 2 \in u THEN 4 ELSE 0)
MCSbox == [u \in MCByte |-> Nth(<<3, 6, 0, 5, 7, 1, 2, 4>>[Number(u) + 1])]
MCInvSbox == [u \in MCByte |-> CHOOSE x \in MCByte : MCSbox[x] = u]

Times2(u) == LET shifted == {b \in 1 .. 2 : b - 1 \in u}
             IN  IF 2 \in u THEN MCXOR(shifted, {0, 1}) ELSE shifted
Times(n, u) ==
  LET bit(m, v) == IF (n \div m) % 2 = 1 THEN v ELSE {}
      u2 == Times2(u)  u4 == Times2(u2)
  IN  MCXOR(MCXOR(bit(1, u), bit(2, u2)), MCXOR(bit(4, u4), bit(8, Times2(u4))))

(* Row b of column j of the circulant matrix.                              *)
MCCol(j, u) == [b \in 0 .. 3 |-> Times(<<2, 1, 1, 3>>[((b - j) % 4) + 1], u)]
MCInvCol(j, u) == [b \in 0 .. 3 |-> Times(<<14, 9, 13, 11>>[((b - j) % 4) + 1], u)]

(* Two keys, or plaintexts, of different words.                            *)
MCWord(a, b, n) == [i \in 0 .. 3 |-> Nth((a*n + b*i + n*i) % 8)]
=============================================================================
