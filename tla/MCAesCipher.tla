---------------------------- MODULE MCAesCipher ----------------------------
(* AesCipher with the words of MCAesWords; every implementation is followed  *)
(* by every other, for the three numbers of rounds.                          *)
EXTENDS AesCipher, MCAesWords

MCSchedules ==
  {[n \in 0 .. 14 |-> [c \in 0 .. 3 |-> MCWord(5, 3 + n, 4*n + c)]],
   [n \in 0 .. 14 |-> [c \in 0 .. 3 |-> MCWord(3, 5, n + c)]]}
MCPlaintexts == {[c \in 0 .. 3 |-> MCWord(0, 0, 0)], [c \in 0 .. 3 |-> MCWord(3, 2, c)]}
=============================================================================
