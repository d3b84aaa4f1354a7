------------------------------ MODULE AesBlocks ------------------------------
(***************************************************************************)
(* The rounds of AES as functions of a block, and the expanded keys and    *)
(* the blocks that the cipher modules consider.                            *)
(***************************************************************************)
EXTENDS AesWords

CONSTANTS
  Schedules,   (* Expanded keys considered: functions from 0..14 to blocks. *)
  Plaintexts   (* Blocks considered.                                        *)

ASSUME SchedulesAssumption == Schedules \subseteq [0 .. 14 -> Block]
ASSUME PlaintextsAssumption == Plaintexts \subseteq Block

(* The transformations; row r of column c is at [c][r].                    *)
SubBytes(s) == [c \in 0 .. 3 |-> [r \in 0 .. 3 |-> Sbox[s[c][r]]]]
ShiftRows(s) == [c \in 0 .. 3 |-> [r \in 0 .. 3 |-> s[(c + r) % 4][r]]]
MixColumns(s) == [c \in 0 .. 3 |-> Mix(s[c])]

Unmixed(s) == ShiftRows(SubBytes(s))
FullRound(s, key) == XorBlock(MixColumns(Unmixed(s)), key)
LastRound(s, key) == XorBlock(Unmixed(s), key)
=============================================================================
