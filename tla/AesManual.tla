----------------------------- MODULE AesManual -----------------------------
(***************************************************************************)
(* The AES-128 of aes-128/c/aes_manual.c, as benchmark_manual.c drives it  *)
(* (aes-128/ocaml has the same functions and the same driver): the inverse *)
(* S-box is filled in, the key is expanded, a message padded to whole      *)
(* blocks is encrypted into one buffer and that buffer decrypted into      *)
(* another.                                                                *)
(*                                                                         *)
(* A block and a state are functions from 0..15: the buffers hold state    *)
(* [i][j] at 4*i + j, and so do the states here.                           *)
(***************************************************************************)
EXTENDS Sequences, AesBytes

CONSTANTS
  sbox,       (* The table sbox.                                            *)
  Inputs,     (* The messages, sequences of bytes.                          *)
  Keys,       (* The keys, functions from 0..15 to bytes.                   *)
  Junk        (* What malloc leaves in a byte.                              *)

State == [0 .. 15 -> Byte]
Word == [0 .. 3 -> Byte]

ASSUME SboxAssumption ==
  /\ sbox \in [Byte -> Byte]
  /\ \A y \in Byte : \E z \in Byte : sbox[z] = y
  /\ \A y, z \in Byte : sbox[y] = sbox[z] => y = z
ASSUME KeysAssumption == Keys \subseteq State
ASSUME InputsAssumption == Inputs \subseteq Seq(Byte)

VARIABLES
  msg,        (* What was read from the input file.                         *)
  len,        (* padded_len, the length of the three buffers.               *)
  message, encrypted, decrypted,   (* The buffers.                          *)
  key,        (* What was read from the key file.                           *)
  words,      (* The round key words so far.                                *)
  inv_sbox,   (* The global inv_sbox.                                       *)
  pc,         (* The call in progress.                                      *)
  block,      (* Offset of the block in hand.                               *)
  state, round,   (* Locals of aes128_encrypt and aes128_decrypt.           *)
  trace       (* History: states of the block at offset b after round r of  *)
              (* its encryption, trace[b][r].                               *)

vars == <<msg, len, message, encrypted, decrypted, key, words, inv_sbox, pc,
          block, state, round, trace>>
files == <<msg, len, message, key>>

-----------------------------------------------------------------------------
(* The four transformations and their inverses.                            *)
add_round_key(st, rk) == [p \in 0 .. 15 |-> XOR(st[p], rk[p])]
sub_bytes(st) == [p \in 0 .. 15 |-> sbox[st[p]]]
inv_sub_bytes(st) == [p \in 0 .. 15 |-> inv_sbox[st[p]]]

(* A state whose row i is row i of st, moved left by by[i] places.         *)
MoveRows(st, by) ==
  [p \in 0 .. 15 |->
     LET i == p \div 4 IN st[4 * i + (((p % 4) + by[i]) % 4)]]

(* Bug: the last row is moved the same way both times.                     *)
inv_shift_rows_SameWay(st) ==
  MoveRows(st, [i \in 0 .. 3 |-> CASE i = 0 -> 0 [] i = 1 -> 3 [] i = 2 -> 2 [] i = 3 -> 3])

(* Left by one; the two halves exchanged; right by one.                    *)
shift_rows(st) ==
  MoveRows(st, [i \in 0 .. 3 |-> CASE i = 0 -> 0 [] i = 1 -> 1 [] i = 2 -> 2 [] i = 3 -> 3])

(* Right by one; the two halves exchanged; left by one.                    *)
inv_shift_rows(st) ==
  MoveRows(st, [i \in 0 .. 3 |-> CASE i = 0 -> 0 [] i = 1 -> 3 [] i = 2 -> 2 [] i = 3 -> 1])

(* Column j consists of the places j, 4+j, 8+j and 12+j.                   *)
mix_columns(st) ==
  [p \in 0 .. 15 |->
     LET j == p % 4
     IN  mix_single_column(st[j], st[4+j], st[8+j], st[12+j])[(p \div 4) + 1]]
inv_mix_columns(st) ==
  [p \in 0 .. 15 |->
     LET j == p % 4
     IN  inv_mix_single_column(st[j], st[4+j], st[8+j], st[12+j])[(p \div 4) + 1]]

build_round_key(ws, r) == [p \in 0 .. 15 |-> ws[4 * r + (p \div 4)][p % 4]]

aes_round(st, rk) == add_round_key(mix_columns(shift_rows(sub_bytes(st))), rk)
final_round(st, rk) == add_round_key(shift_rows(sub_bytes(st)), rk)

-----------------------------------------------------------------------------
(* The key schedule.                                                       *)
rcon == << {0}, {1}, {2}, {3}, {4}, {5}, {6}, {7}, {0, 1, 3, 4}, {1, 2, 4, 5} >>

(* rot_word, sub_word, and the round constant into the first byte.         *)
g(w, r) ==
  [j \in 0 .. 3 |->
     LET y == sbox[w[(j + 1) % 4]] IN IF j = 0 THEN XOR(y, rcon[r + 1]) ELSE y]

NextWord(ws, i) ==
  LET temp == IF i % 4 = 0 THEN g(ws[i-1], (i \div 4) - 1) ELSE ws[i-1]
  IN  [j \in 0 .. 3 |-> XOR(ws[i-4][j], temp[j])]

-----------------------------------------------------------------------------
(* Bug: the message is not padded.                                         *)
Padded_Not(l) == l

Padded(l) == ((l + 15) \div 16) * 16

(* calloc and fread: the message, zeros after it.                          *)
Init ==
  /\ msg \in Inputs
  /\ key \in Keys
  /\ len = Padded(Len(msg))
  /\ message = [p \in 0 .. len-1 |-> IF p < Len(msg) THEN msg[p+1] ELSE {}]
  /\ encrypted = [p \in 0 .. len-1 |-> Junk]
  /\ decrypted = [p \in 0 .. len-1 |-> Junk]
  /\ words = [i \in 0 .. 3 |-> [j \in 0 .. 3 |-> key[4 * i + j]]]
  /\ inv_sbox = [y \in Byte |-> {}]
  /\ pc = "init_inv_sbox"
  /\ block = 0 /\ round = 0
  /\ state = [p \in 0 .. 15 |-> {}]
  /\ trace = [b \in {} |-> {}]

(* Bug: the table is inverted by the wrong index.                          *)
Inverted_Copied(s) == s

(* inv_sbox[sbox[i]] = i, for every i.                                     *)
Inverted(s) == [y \in Byte |-> CHOOSE z \in Byte : s[z] = y]

init_inv_sbox ==
  /\ pc = "init_inv_sbox"
  /\ inv_sbox' = Inverted(sbox)
  /\ pc' = "key_expansion"
  /\ UNCHANGED <<files, encrypted, decrypted, words, block, state, round, trace>>

(* One word of key_expansion per step; round counts them.                  *)
key_expansion ==
  /\ pc = "key_expansion"
  /\ LET i == 4 + round
     IN  IF i < 44
         THEN /\ words' = [k \in 0 .. i |-> IF k = i THEN NextWord(words, i) ELSE words[k]]
              /\ round' = round + 1
              /\ UNCHANGED pc
         ELSE /\ pc' = "aes_encrypt_buffer" /\ round' = 0
              /\ UNCHANGED words
  /\ UNCHANGED <<files, encrypted, decrypted, inv_sbox, block, state, trace>>

-----------------------------------------------------------------------------
BlockOf(buffer) == [p \in 0 .. 15 |-> buffer[block + p]]

(* Bug: the offset of the block forgotten.                                 *)
WithBlock_First(buffer, st) ==
  [p \in DOMAIN buffer |-> IF p \in 0 .. 15 THEN st[p] ELSE buffer[p]]

WithBlock(buffer, st) ==
  [p \in DOMAIN buffer |->
     IF p \in block .. block + 15 THEN st[p - block] ELSE buffer[p]]

(* The two buffer functions print and return if the length is no multiple  *)
(* of the block length, and return after the last block.                   *)
Returns == len % 16 # 0 \/ block >= len

EncryptReturn ==
  /\ pc = "aes_encrypt_buffer" /\ round = 0 /\ Returns
  /\ pc' = "aes_decrypt_buffer" /\ block' = 0
  /\ UNCHANGED <<files, encrypted, decrypted, words, inv_sbox, state, round, trace>>

(* aes128_encrypt: round key 0, nine rounds, the final round; the block is *)
(* written to the output.                                                  *)
EncryptFirst ==
  /\ pc = "aes_encrypt_buffer" /\ round = 0 /\ ~Returns
  /\ state' = add_round_key(BlockOf(message), build_round_key(words, 0))
  /\ round' = 1
  /\ trace' = [b \in DOMAIN trace \cup {block} |->
                 IF b = block THEN <<state'>> ELSE trace[b]]
  /\ UNCHANGED <<files, encrypted, decrypted, words, inv_sbox, pc, block>>

EncryptRound ==
  /\ pc = "aes_encrypt_buffer" /\ round \in 1 .. 9
  /\ state' = aes_round(state, build_round_key(words, round))
  /\ round' = round + 1
  /\ trace' = [trace EXCEPT ![block] =
                 [r \in 1 .. round + 1 |-> IF r <= round THEN @[r] ELSE state']]
  /\ UNCHANGED <<files, encrypted, decrypted, words, inv_sbox, pc, block>>

EncryptFinal ==
  /\ pc = "aes_encrypt_buffer" /\ round = 10
  /\ state' = final_round(state, build_round_key(words, 10))
  /\ encrypted' = WithBlock(encrypted, state')
  /\ block' = block + 16 /\ round' = 0
  /\ UNCHANGED <<files, decrypted, words, inv_sbox, pc, trace>>

DecryptReturn ==
  /\ pc = "aes_decrypt_buffer" /\ round = 0 /\ Returns
  /\ pc' = "done"
  /\ UNCHANGED <<files, encrypted, decrypted, words, inv_sbox, block, state, round, trace>>

(* aes128_decrypt: round key 10 and the inverses of the final round, nine  *)
(* inverse rounds, round key 0.                                            *)
DecryptFirst ==
  /\ pc = "aes_decrypt_buffer" /\ round = 0 /\ ~Returns
  /\ state' = inv_sub_bytes(inv_shift_rows(
                add_round_key(BlockOf(encrypted), build_round_key(words, 10))))
  /\ round' = 9
  /\ UNCHANGED <<files, encrypted, decrypted, words, inv_sbox, pc, block, trace>>

DecryptRound ==
  /\ pc = "aes_decrypt_buffer" /\ round \in 1 .. 9
  /\ LET st == inv_sub_bytes(inv_shift_rows(inv_mix_columns(
                 add_round_key(state, build_round_key(words, round)))))
     IN  IF round > 1
         THEN /\ state' = st /\ round' = round - 1
              /\ UNCHANGED <<decrypted, block>>
         ELSE /\ state' = add_round_key(st, build_round_key(words, 0))
              /\ decrypted' = WithBlock(decrypted, state')
              /\ block' = block + 16 /\ round' = 0
  /\ UNCHANGED <<files, encrypted, words, inv_sbox, pc, trace>>

Next ==
  \/ init_inv_sbox \/ key_expansion
  \/ EncryptReturn \/ EncryptFirst \/ EncryptRound \/ EncryptFinal
  \/ DecryptReturn \/ DecryptFirst \/ DecryptRound

Spec == Init /\ [][Next]_vars
-----------------------------------------------------------------------------
(* Types; a buffer is written only inside, and only whole blocks of it.    *)
Buffer == [0 .. len-1 -> Byte \cup {Junk}]
TypeOK ==
  /\ msg \in Inputs /\ key \in Keys
  /\ len = Padded(Len(msg)) /\ len % 16 = 0
  /\ message \in [0 .. len-1 -> Byte]
  /\ encrypted \in Buffer /\ decrypted \in Buffer
  /\ pc \in {"init_inv_sbox", "key_expansion", "aes_encrypt_buffer",
             "aes_decrypt_buffer", "done"}
  /\ round \in 0 .. 40
  /\ IF pc \in {"init_inv_sbox", "key_expansion"}
     THEN words \in [0 .. 3 + round -> Word]
     ELSE words \in [0 .. 43 -> Word] /\ round \in 0 .. 10
  /\ inv_sbox \in [Byte -> Byte]
  /\ block \in 0 .. len /\ block % 16 = 0
  /\ (round > 0 /\ pc \notin {"init_inv_sbox", "key_expansion"}) => block + 16 <= len
  /\ state \in State

(* Blocks whose encryption is complete, and those decrypted.               *)
Encrypted(b) ==
  pc \in {"aes_decrypt_buffer", "done"} \/ (pc = "aes_encrypt_buffer" /\ b < block)
Begun(b) ==
  Encrypted(b) \/ (pc = "aes_encrypt_buffer" /\ b = block /\ round > 0)
Decrypted(b) == pc = "done" \/ (pc = "aes_decrypt_buffer" /\ b < block)
Blocks == {b \in 0 .. len-1 : b % 16 = 0}
At(buffer, b) == [p \in 0 .. 15 |-> buffer[b + p]]

(* Every block runs through the rounds with the round keys of its key, and *)
(* ends in the output at its own place.                                    *)
EncryptTraced ==
  \A b \in Blocks :
    /\ Begun(b)
         => /\ b \in DOMAIN trace
            /\ DOMAIN trace[b] = 1 .. (IF Encrypted(b) THEN 10 ELSE round)
            /\ trace[b][1] = add_round_key(At(message, b), build_round_key(words, 0))
            /\ \A r \in 1 .. 9 :
                 r + 1 \in DOMAIN trace[b] =>
                   trace[b][r+1] = aes_round(trace[b][r], build_round_key(words, r))
    /\ Encrypted(b) =>
         At(encrypted, b) = final_round(trace[b][10], build_round_key(words, 10))

(* Decrypting a block goes back through the states of its encryption, and  *)
(* what is decrypted is the message.                                       *)
DecryptRetraces ==
  /\ (pc = "aes_encrypt_buffer" /\ round > 0) => state = trace[block][round]
  /\ (pc = "aes_decrypt_buffer" /\ round > 0) => state = trace[block][round+1]
  /\ \A b \in Blocks : Decrypted(b) => At(decrypted, b) = At(message, b)

(* The driver's verification passes: every byte of the padded message      *)
(* comes back, whatever the key and the length.                            *)
RoundTrip == pc = "done" => decrypted = message
=============================================================================
