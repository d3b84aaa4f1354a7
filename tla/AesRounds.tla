----------------------------- MODULE AesRounds -----------------------------
(***************************************************************************)
(* What an AES block encryption computes, whatever it is computed with:    *)
(* the first round key, rounds of substitution, row shift, column mix and  *)
(* round key, and a last one without the mix.                              *)
(***************************************************************************)
EXTENDS AesBlocks

VARIABLES
  nr, keys,      (* The number of rounds and the expanded key.              *)
  plaintext,
  state, round   (* The state after round rounds.                           *)

aesVars == <<nr, keys, plaintext, state, round>>

Init ==
  /\ nr \in {10, 12, 14} /\ keys \in Schedules /\ plaintext \in Plaintexts
  /\ state = XorBlock(plaintext, keys[0])
  /\ round = 0

Round ==
  /\ round < nr
  /\ state' = IF round < nr - 1 THEN FullRound(state, keys[round + 1])
                                ELSE LastRound(state, keys[round + 1])
  /\ round' = round + 1
  /\ UNCHANGED <<nr, keys, plaintext>>

Spec == Init /\ [][Round]_aesVars
=============================================================================
