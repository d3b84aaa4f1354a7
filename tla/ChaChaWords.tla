---------------------------- MODULE ChaChaWords ----------------------------
(***************************************************************************)
(* The words of the ChaCha20 block functions, the operations on them, and  *)
(* one round as a function of the matrix of words.                         *)
(*                                                                         *)
(* A word is four bytes.  The byte modulus and the two rotations that are  *)
(* no whole number of bytes are constants, so that a small instance has    *)
(* the shape of the 32-bit one.                                            *)
(***************************************************************************)
EXTENDS Integers

CONSTANTS
  B,          (* Modulus of a byte; 2^8 in the code.                        *)
  M12, M7,    (* 2^12 and 2^7: what a rotation by 12 and 7 multiplies by.   *)
  XOR(_, _),  (* Exclusive or of two words.                                 *)
  Rounds,     (* Rounds of a block; 20 in the code, which runs them in pairs. *)
  States      (* The block inputs considered: functions from 0..15 to Word. *)

M == B * B * B * B
Word == 0 .. M-1
Matrix == [0 .. 15 -> Word]

ASSUME ByteAssumption == B \in Nat /\ B > 1
ASSUME RotationAssumption ==
  /\ M12 \in Nat \ {0} /\ M % M12 = 0
  /\ M7 \in Nat \ {0} /\ M % M7 = 0
ASSUME XorAssumption == \A u, v \in Word : XOR(u, v) \in Word
ASSUME RoundsAssumption == Rounds \in Nat /\ Rounds % 2 = 0
ASSUME StatesAssumption == States \subseteq Matrix

(* The bytes of a word, least significant first, and a word of four bytes. *)
Byte(v, k) ==
  CASE k = 0 -> v % B
    [] k = 1 -> (v \div B) % B
    [] k = 2 -> (v \div (B * B)) % B
    [] k = 3 -> (v \div (B * B * B)) % B
OfBytes(b0, b1, b2, b3) == b0 + B * b1 + B * B * b2 + B * B * B * b3

(* Bug: a sum in native integers that is not cut to a word.                *)
Plus_Unmasked(u, v) == u + v

(* PLUS and ROTATE: the latter shifts left by multiplying with m = 2^c,    *)
(* and or-s (here: adds, the bits are disjoint) what falls out.            *)
Plus(u, v) == (u + v) % M
Rotl(v, m) == ((v * m) % M) + (v \div (M \div m))

(* QUARTERROUND(a,b,c,d).                                                  *)
Quarter(a0, b0, c0, d0) ==
  LET a1 == Plus(a0, b0)  d1 == Rotl(XOR(d0, a1), B * B)
      c1 == Plus(c0, d1)  b1 == Rotl(XOR(b0, c1), M12)
      a2 == Plus(a1, b1)  d2 == Rotl(XOR(d1, a2), B)
      c2 == Plus(c1, d2)  b2 == Rotl(XOR(b1, c2), M7)
  IN  <<a2, b2, c2, d2>>

(* Row r of column k, and of the diagonal that starts at column k.         *)
InColumn(r, k) == 4 * r + k
InDiagonal(r, k) == 4 * r + ((k + r) % 4)

(* One round: word w is row w \div 4 of one quadruple.                     *)
ColumnRound(x) ==
  [w \in 0 .. 15 |->
     LET k == w % 4
     IN  Quarter(x[InColumn(0, k)], x[InColumn(1, k)],
                 x[InColumn(2, k)], x[InColumn(3, k)])[(w \div 4) + 1]]
DiagonalRound(x) ==
  [w \in 0 .. 15 |->
     LET k == (w - (w \div 4)) % 4
     IN  Quarter(x[InDiagonal(0, k)], x[InDiagonal(1, k)],
                 x[InDiagonal(2, k)], x[InDiagonal(3, k)])[(w \div 4) + 1]]

(* The 64 bytes of the sum of the last state and the input.                *)
Output(x, in) ==
  [p \in 0 .. 63 |-> Byte(Plus(x[p \div 4], in[p \div 4]), p % 4)]
=============================================================================
