--------------------------- MODULE ChaChaRounds ---------------------------
(***************************************************************************)
(* What a ChaCha20 block function computes: twenty rounds on a 4x4 matrix  *)
(* of words, rounds on columns and on diagonals in turn, then the sum with *)
(* the input, stored little-endian.  The four quarter rounds of a round    *)
(* touch disjoint words, so a round is one step here, in no order.         *)
(***************************************************************************)
EXTENDS ChaChaWords

VARIABLES
  in,      (* The sixteen words of the input.                               *)
  state,   (* The matrix after the rounds done.                             *)
  round,   (* How many those are.                                           *)
  out      (* The block, a function from 0..63 to bytes; empty before.      *)

roundsVars == <<in, state, round, out>>

NoOutput == [p \in {} |-> 0]

Init ==
  /\ in \in States
  /\ state = in
  /\ round = 0
  /\ out = NoOutput

Round ==
  /\ round < Rounds
  /\ state' = IF round % 2 = 0 THEN ColumnRound(state) ELSE DiagonalRound(state)
  /\ round' = round + 1
  /\ UNCHANGED <<in, out>>

Store ==
  /\ round = Rounds /\ out = NoOutput
  /\ out' = Output(state, in)
  /\ UNCHANGED <<in, state, round>>

Next == Round \/ Store

Spec == Init /\ [][Next]_roundsVars
=============================================================================
