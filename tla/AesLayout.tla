----------------------------- MODULE AesLayout -----------------------------
(***************************************************************************)
(* AesManual beside the cipher it is named after.  AES takes the bytes of a*)
(* block, and of a round key, down the columns of its state; the code puts *)
(* both in along the rows.  A layout cancels out when what was encrypted is*)
(* decrypted, so that the verification of the drivers is blind to it.      *)
(***************************************************************************)
EXTENDS AesManual

VARIABLE aes      (* AES on the block in hand, a round for every round of   *)
                  (* aes128_encrypt: the same transformations and round     *)
                  (* keys on states and keys laid out by columns.           *)

(* Byte 4*i + j at row j of column i, instead of row i of column j.        *)
Columns(bytes) == [p \in 0 .. 15 |-> bytes[4 * (p % 4) + (p \div 4)]]

RoundKey(r) == Columns(build_round_key(words, r))

LayoutInit == Init /\ aes = [p \in 0 .. 15 |-> {}]

LayoutNext ==
  /\ Next
  /\ aes' = IF pc # "aes_encrypt_buffer" \/ Returns THEN aes
            ELSE CASE round = 0 -> add_round_key(Columns(BlockOf(message)), RoundKey(0))
                   [] round \in 1 .. 9 -> aes_round(aes, RoundKey(round))
                   [] round = 10 -> final_round(aes, RoundKey(10))

LayoutSpec == LayoutInit /\ [][LayoutNext]_<<vars, aes>>

(* The code encrypts with AES-128, as aes-128/README.md:5 has it: when a   *)
(* block is written, it is what AES makes of it.  Violated:                *)
(* aes_encrypt_buffer computes another permutation of the blocks.          *)
EncryptsAES128 ==
  (pc = "aes_encrypt_buffer" /\ round = 0 /\ block > 0) =>
    [p \in 0 .. 15 |-> encrypted[block - 16 + p]] = Columns(aes)
=============================================================================
