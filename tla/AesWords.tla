------------------------------ MODULE AesWords ------------------------------
(***************************************************************************)
(* The words and blocks of the AES implementations of rijndael/ and        *)
(* aes-ni/.  A word is its four bytes in memory order, so that the big-    *)
(* endian u32 of rijndael and the little-endian lanes of the SSE registers *)
(* of aes-ni are the same word here.  A block or a round key is four words,*)
(* the columns of the AES state.                                           *)
(*                                                                         *)
(* Bytes, their exclusive or, the S-box and the columns of the two mixing  *)
(* matrices are constants with the laws that the code relies on.           *)
(***************************************************************************)
EXTENDS Integers

CONSTANTS
  Byte,
  XOR(_, _),       (* Exclusive or of two bytes.                            *)
  Sbox, InvSbox,   (* Functions from bytes to bytes.                        *)
  Col(_, _),       (* Col(j, x): what byte x of row j adds to the mixed     *)
  InvCol(_, _)     (* column; x.[02, 01, 01, 03] and its rotations.  InvCol:*)
                   (* x.[0e, 09, 0d, 0b] and its rotations.                 *)

Word == [0 .. 3 -> Byte]
Block == [0 .. 3 -> Word]

XorWord(u, v) == [b \in 0 .. 3 |-> XOR(u[b], v[b])]
XorBlock(s, k) == [c \in 0 .. 3 |-> XorWord(s[c], k[c])]
Xor4(u, v, w, x) == XorWord(XorWord(XorWord(u, v), w), x)

(* MixColumn of a word and its inverse.                                    *)
Mix(u) == Xor4(Col(0, u[0]), Col(1, u[1]), Col(2, u[2]), Col(3, u[3]))
InvMix(u) ==
  Xor4(InvCol(0, u[0]), InvCol(1, u[1]), InvCol(2, u[2]), InvCol(3, u[3]))

ASSUME XorAssumption ==
  \A x, y, z \in Byte : /\ XOR(x, y) \in Byte
                        /\ XOR(x, y) = XOR(y, x)
                        /\ XOR(XOR(x, y), z) = XOR(x, XOR(y, z))
                        /\ XOR(XOR(x, y), y) = x
ASSUME SboxAssumption ==
  /\ Sbox \in [Byte -> Byte] /\ InvSbox \in [Byte -> Byte]
  /\ \A x \in Byte : InvSbox[Sbox[x]] = x
ASSUME ColAssumption ==
  \A j \in 0 .. 3, x, y \in Byte :
    /\ Col(j, x) \in Word /\ InvCol(j, x) \in Word
    /\ InvCol(j, XOR(x, y)) = XorWord(InvCol(j, x), InvCol(j, y))
ASSUME MixAssumption == \A u \in Word : InvMix(Mix(u)) = u

(* The tables Te0 .. Te3 and Td0 .. Td3, as the comment above them defines *)
(* them; a byte of Te4 is Sbox, one of Td4 InvSbox.                        *)
Te(j, x) == Col(j, Sbox[x])
Td(j, x) == InvCol(j, InvSbox[x])

(* The round keys of the equivalent inverse cipher: those of the cipher in *)
(* reverse order, all but the first and last through the inverse MixColumn.*)
InverseKeys(keys, nr) ==
  [r \in 0 .. nr |->
     IF r \in {0, nr} THEN keys[nr - r]
     ELSE [c \in 0 .. 3 |-> InvMix(keys[nr - r][c])]]
=============================================================================
