--------------------------- MODULE ChaCha20Block ---------------------------
(***************************************************************************)
(* The two block functions of ChaCha20 on one input: chacha20_block of     *)
(* chacha20/c/chacha20.c (and, word for word, of ocaml/chacha20.ml), which *)
(* runs eight quarter rounds after each other on sixteen words, and        *)
(* chacha20_block of chacha20/c_simd/chacha20_simd.c (and, instruction for *)
(* instruction, of oxcaml_simd/chacha20_simd.ml), which holds the matrix   *)
(* in four vectors and runs the quarter rounds of a round in its lanes,    *)
(* turning three of the vectors before and after the diagonal round.       *)
(*                                                                         *)
(* The counter that both advance at their end is in ChaCha20Stream.        *)
(***************************************************************************)
EXTENDS ChaChaWords

VARIABLES
  in,            (* ctx->input, the words of the input.                     *)
  x, start,      (* Scalar: x0 .. x15, and (history) the words the round in *)
                 (* progress began with.                                    *)
  quad, i,       (* Scalar: next quarter round of the loop body; loop count.*)
  out,           (* Scalar: ctx->output.                                    *)
  a, b, c, d,    (* Vector: the rows, functions from lanes to words.        *)
  pc, n,         (* Vector: place in DOUBLE_ROUND; double rounds left.      *)
  vout           (* Vector: ctx->output.                                    *)

scalar == <<x, start, quad, i, out>>
vector == <<a, b, c, d, pc, n, vout>>
vars == <<in, x, start, quad, i, out, a, b, c, d, pc, n, vout>>

-----------------------------------------------------------------------------
(* The vectors.                                                            *)
Lanes == 0 .. 3

(* Where the scalar state is after r rounds of the twenty, from the round  *)
(* on that start holds.                                                    *)
RoundsDone == Rounds - 2 * i + (IF quad > 4 THEN 1 ELSE 0)

(* Word w of the matrix that the vectors hold: row r is turned left by r   *)
(* lanes while the diagonals are in the lanes.                             *)
Turned == pc \in {"diagonal", "unturn"}
Row(r) == CASE r = 0 -> a [] r = 1 -> b [] r = 2 -> c [] r = 3 -> d
Held == [w \in 0 .. 15 |->
           LET r == w \div 4
           IN  Row(r)[IF Turned THEN (w - r) % 4 ELSE w % 4]]
VectorRoundsDone ==
  Rounds - 2 * n + (CASE pc = "column"             -> 0
                      [] pc \in {"turn", "diagonal"} -> 1
                      [] pc = "unturn"             -> 2)

Scalar == INSTANCE ChaChaRounds
            WITH state <- start, round <- RoundsDone
Vector == INSTANCE ChaChaRounds
            WITH state <- Held, round <- VectorRoundsDone, out <- vout

-----------------------------------------------------------------------------
(* Bugs: two words of the last quadruple swapped; the second round on      *)
(* columns again.                                                          *)
Quad_Columns(q) ==
  << <<0, 4, 8, 12>>, <<1, 5, 9, 13>>, <<2, 6, 10, 14>>, <<3, 7, 11, 15>>,
     <<0, 4, 8, 12>>, <<1, 5, 9, 13>>, <<2, 6, 10, 14>>, <<3, 7, 11, 15>> >>[q]
Quad_Swapped(q) ==
  << <<0, 4, 8, 12>>, <<1, 5, 9, 13>>, <<2, 6, 10, 14>>, <<3, 7, 11, 15>>,
     <<0, 5, 10, 15>>, <<1, 6, 11, 12>>, <<2, 7, 8, 13>>, <<3, 4, 14, 9>> >>[q]

(* The words of the quarter rounds of the loop body, in order.             *)
Quad(q) ==
  << <<0, 4, 8, 12>>, <<1, 5, 9, 13>>, <<2, 6, 10, 14>>, <<3, 7, 11, 15>>,
     <<0, 5, 10, 15>>, <<1, 6, 11, 12>>, <<2, 7, 8, 13>>, <<3, 4, 9, 14>> >>[q]

(* QUARTERROUND(xa, xb, xc, xd): in place.                                 *)
QUARTERROUND ==
  /\ i > 0
  /\ LET w == Quad(quad)
         y == Quarter(x[w[1]], x[w[2]], x[w[3]], x[w[4]])
     IN  x' = [x EXCEPT ![w[1]] = y[1], ![w[2]] = y[2],
                        ![w[3]] = y[3], ![w[4]] = y[4]]
  /\ start' = IF quad \in {4, 8} THEN x' ELSE start
  /\ IF quad < 8 THEN quad' = quad + 1 /\ UNCHANGED i
                 ELSE quad' = 1 /\ i' = i - 1
  /\ UNCHANGED <<in, out, vector>>

(* x0 = PLUS(x0, ctx->input[0]) and so on, then U32TO8_LITTLE.             *)
U32TO8_LITTLE ==
  /\ i = 0 /\ out = Scalar!NoOutput
  /\ out' = [p \in 0 .. 63 |->
               Byte(Plus(x[p \div 4], in[p \div 4]), p % 4)]
  /\ UNCHANGED <<in, x, start, quad, i, vector>>

-----------------------------------------------------------------------------
VEC_ADD(u, v) == [l \in Lanes |-> Plus(u[l], v[l])]
VEC_XOR(u, v) == [l \in Lanes |-> XOR(u[l], v[l])]

(* Byte p of the result is byte mask[p] of the vector.                     *)
PSHUFB(v, mask) ==
  LET byte(p) == Byte(v[p \div 4], p % 4)
  IN  [l \in Lanes |->
         OfBytes(byte(mask[4*l + 1]), byte(mask[4*l + 2]),
                        byte(mask[4*l + 3]), byte(mask[4*l + 4]))]

(* Lane l of the result is the lane that bits 2l and 2l+1 of imm name.     *)
PSHUFD(imm, v) ==
  [l \in Lanes |-> v[(imm \div (<<1, 4, 16, 64>>[l + 1])) % 4]]

(* Bug: the mask of a rotation to the right.                               *)
rot8_mask_Right == <<1, 2, 3, 0, 5, 6, 7, 4, 9, 10, 11, 8, 13, 14, 15, 12>>

rot16_mask == <<2, 3, 0, 1, 6, 7, 4, 5, 10, 11, 8, 9, 14, 15, 12, 13>>
rot8_mask == <<3, 0, 1, 2, 7, 4, 5, 6, 11, 8, 9, 10, 15, 12, 13, 14>>

ROTL16(v) == PSHUFB(v, rot16_mask)
ROTL8(v) == PSHUFB(v, rot8_mask)

(* VEC_SLLI(12, v) and VEC_SRLI(20, v), which have no bit in common.       *)
ROTL12(v) == [l \in Lanes |-> Rotl(v[l], M12)]
ROTL7(v) == [l \in Lanes |-> Rotl(v[l], M7)]

(* 0x39, 0x4E and 0x93.                                                    *)
ROT_W1(v) == PSHUFD(57, v)
ROT_W2(v) == PSHUFD(78, v)
ROT_W3(v) == PSHUFD(147, v)

(* QUARTERROUND on the rows.                                               *)
VecQuarter(a0, b0, c0, d0) ==
  LET a1 == VEC_ADD(a0, b0)  d1 == ROTL16(VEC_XOR(d0, a1))
      c1 == VEC_ADD(c0, d1)  b1 == ROTL12(VEC_XOR(b0, c1))
      a2 == VEC_ADD(a1, b1)  d2 == ROTL8(VEC_XOR(d1, a2))
      c2 == VEC_ADD(c1, d2)  b2 == ROTL7(VEC_XOR(b1, c2))
  IN  <<a2, b2, c2, d2>>

VEC_QUARTERROUND ==
  /\ pc \in {"column", "diagonal"} /\ n > 0
  /\ LET y == VecQuarter(a, b, c, d)
     IN  a' = y[1] /\ b' = y[2] /\ c' = y[3] /\ d' = y[4]
  /\ pc' = IF pc = "column" THEN "turn" ELSE "unturn"
  /\ UNCHANGED <<in, n, vout, scalar>>

(* b, c and d turned so that the diagonals come into the lanes.            *)
Turn ==
  /\ pc = "turn"
  /\ b' = ROT_W1(b) /\ c' = ROT_W2(c) /\ d' = ROT_W3(d)
  /\ pc' = "diagonal"
  /\ UNCHANGED <<in, a, n, vout, scalar>>

(* And back.                                                               *)
Unturn ==
  /\ pc = "unturn"
  /\ b' = ROT_W3(b) /\ c' = ROT_W2(c) /\ d' = ROT_W1(d)
  /\ pc' = "column" /\ n' = n - 1
  /\ UNCHANGED <<in, a, vout, scalar>>

(* VEC_ADD of the rows of the input, and _mm_storeu_si128 of the four      *)
(* sums.                                                                   *)
Storeu ==
  /\ pc = "column" /\ n = 0 /\ vout = Vector!NoOutput
  /\ LET input(r) == [l \in Lanes |-> in[4*r + l]]
         sum(r) == VEC_ADD(Row(r), input(r))
     IN  vout' = [p \in 0 .. 63 |->
                    Byte(sum(p \div 16)[(p \div 4) % 4], p % 4)]
  /\ UNCHANGED <<in, a, b, c, d, pc, n, scalar>>

-----------------------------------------------------------------------------
(* Both functions load the input they are called on.                       *)
Init ==
  /\ in \in States
  /\ x = in /\ start = in
  /\ quad = 1 /\ i = Rounds \div 2 /\ out = Scalar!NoOutput
  /\ a = [l \in Lanes |-> in[l]]
  /\ b = [l \in Lanes |-> in[4 + l]]
  /\ c = [l \in Lanes |-> in[8 + l]]
  /\ d = [l \in Lanes |-> in[12 + l]]
  /\ pc = "column" /\ n = Rounds \div 2 /\ vout = Vector!NoOutput

Next ==
  \/ QUARTERROUND \/ U32TO8_LITTLE
  \/ VEC_QUARTERROUND \/ Turn \/ Unturn \/ Storeu

Spec == Init /\ [][Next]_vars

-----------------------------------------------------------------------------
(* Types; every sum and rotation is cut to a word.                         *)
TypeOK ==
  /\ in \in States
  /\ x \in Matrix /\ start \in Matrix
  /\ quad \in 1 .. 8 /\ i \in 0 .. Rounds \div 2 /\ (i = 0 => quad = 1)
  /\ \A r \in 0 .. 3 : Row(r) \in [Lanes -> Word]
  /\ pc \in {"column", "turn", "diagonal", "unturn"}
  /\ n \in 0 .. Rounds \div 2 /\ (n = 0 => pc = "column")

(* The round that quarter round q belongs to, and which of its four        *)
(* quarter rounds word w is written by.                                    *)
Whole(q, y) == IF q > 4 THEN DiagonalRound(y) ELSE ColumnRound(y)
Place(q, w) == IF q > 4 THEN (w - (w \div 4)) % 4 ELSE w % 4

(* The words that this round has gone through are those of the whole       *)
(* round: no quarter round reads a word that an earlier one of the same    *)
(* round has written.                                                      *)
RoundInProgress ==
  \A w \in 0 .. 15 :
    x[w] = IF Place(quad, w) < (quad - 1) % 4 THEN Whole(quad, start)[w]
                                              ELSE start[w]

(* Quarter rounds one after the other compute the rounds of ChaCha.        *)
ScalarRefines == Scalar!Spec

(* So do the lanes of the vectors, with rotations by byte shuffles and     *)
(* with the rows turned and turned back: both block functions give the     *)
(* same 64 bytes for every input.                                          *)
VectorRefines == Vector!Spec
=============================================================================
