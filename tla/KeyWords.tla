------------------------------ MODULE KeyWords ------------------------------
(***************************************************************************)
(* What an AES key schedule is: the recurrence that every word of it       *)
(* satisfies, for the three key sizes of rijndael/ and aes-ni/.  The       *)
(* round constants are a constant: nothing in a key schedule depends on    *)
(* their values.                                                           *)
(***************************************************************************)
EXTENDS AesWords

CONSTANTS
  Rcon,          (* Round constants, a function from 1..10 to bytes.        *)
  Unset,         (* A word of an array that is not written yet.             *)
  KeyBits,       (* The key sizes considered.                               *)
  Keys           (* The keys: functions from 0..7 to words, of which a key  *)
                 (* size uses the first.                                    *)

ASSUME RconAssumption == Rcon \in [1 .. 10 -> Byte]
ASSUME KeyBitsAssumption == KeyBits \subseteq {128, 192, 256}
ASSUME UnsetAssumption == Unset \notin Word
ASSUME KeysAssumption == Keys \subseteq [0 .. 7 -> Word]

VARIABLES keyBits, cipherKey     (* The arguments of both key setups.       *)

Nk(bits) == bits \div 32
Rounds(bits) == Nk(bits) + 6
ScheduleLen(bits) == 4 * (Rounds(bits) + 1)

SubWord(u) == [b \in 0 .. 3 |-> Sbox[u[b]]]
RotWord(u) == [b \in 0 .. 3 |-> u[(b + 1) % 4]]
WithRcon(u, i) == [u EXCEPT ![0] = XOR(@, Rcon[i])]

(* What is xored into word n of a schedule beside word n - Nk.             *)
Mixin(w, n, bits) ==
  IF n % Nk(bits) = 0
  THEN WithRcon(SubWord(RotWord(w[n-1])), n \div Nk(bits))
  ELSE IF Nk(bits) = 8 /\ n % 8 = 4 THEN SubWord(w[n-1]) ELSE w[n-1]

(* The first m words of w are those of the schedule of key k.              *)
Scheduled(w, m, key, bits) ==
  \A n \in 0 .. m-1 :
    w[n] = IF n < Nk(bits) THEN key[n]
                           ELSE XorWord(w[n - Nk(bits)], Mixin(w, n, bits))
=============================================================================
