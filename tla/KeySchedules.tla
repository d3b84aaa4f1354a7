---------------------------- MODULE KeySchedules ----------------------------
(***************************************************************************)
(* The two families of AES key setup beside each other, on the same key:   *)
(* the table-driven one of rijndael/ and the one of aes-ni/.  Neither      *)
(* program calls the other; what relates them is that both must produce    *)
(* the schedule of the key, and the schedule of the equivalent inverse     *)
(* cipher from it.                                                         *)
(***************************************************************************)
EXTENDS RijndaelKeys, AesniKeys

vars == <<keyBits, cipherKey, rijndaelVars, aesniVars>>

Init ==
  /\ keyBits \in KeyBits /\ cipherKey \in Keys
  /\ RijndaelInit
  /\ AesniInit

Next ==
  \/ RijndaelNext /\ UNCHANGED aesniVars
  \/ AesniNext /\ UNCHANGED rijndaelVars

Spec == Init /\ [][Next]_vars

-----------------------------------------------------------------------------
(* An array of vectors as one of words, and of words as round keys.        *)
Flat(vecs) == [n \in 0 .. 59 |-> vecs[n \div 4][n % 4]]
RoundKeys(words) == [r \in 0 .. 14 |-> [l \in 0 .. 3 |-> words[4*r + l]]]

(* The words that each has finished.                                       *)
RijndaelDone ==
  IF rpc = "expand" THEN base + Nk(keyBits) + k ELSE ScheduleLen(keyBits)
AesniDone ==
  CASE keyBits = 128 -> 4 * (c + 1)
    [] keyBits = 192 -> IF c = 8 THEN 52 ELSE 6 * (c + 1)
    [] keyBits = 256 -> 8 + 4 * c + 4 * (IF half \/ c = 7 THEN c - 1 ELSE c)

(* Types; the sliding pointer and the round constants stay in their        *)
(* arrays, and no key setup ends with a round key missing.                 *)
TypeOK ==
  /\ keyBits \in KeyBits /\ cipherKey \in Keys
  /\ rk \in [0 .. 59 -> Word \cup {Unset}]
  /\ rpc \in {"expand", "invert", "swap", "mix", "done"}
  /\ base + Nk(keyBits) + k \in 0 .. 59 /\ k \in 0 .. Nk(keyBits) - 1
  /\ rpc = "expand" => i \in 0 .. LastRcon(keyBits) - 1
  /\ rpc # "expand" =>
       \A n \in 0 .. ScheduleLen(keyBits) - 1 : {rk[n], enc[n]} \subseteq Word
  /\ t1 \in Vec
  /\ c \in 0 .. LastAssist(keyBits) /\ half \in BOOLEAN
  /\ m \in 0 .. Rounds(keyBits) + 1
  /\ apc \in {"expand", "copy", "done"}
  /\ \A r \in 0 .. m-1 : ckey[r] \in Vec

(* rijndaelKeySetupEnc extends the schedule of its key word by word, and   *)
(* returns when it is complete, for the three key sizes.                   *)
RijndaelScheduled ==
  Scheduled(IF rpc = "expand" THEN rk ELSE enc, RijndaelDone, cipherKey, keyBits)

(* So do the assists: with the shifted xors every word is combined with    *)
(* the one before it, and what a 192-bit load brings in behind the key     *)
(* never gets into the schedule.                                           *)
AesniScheduled == Scheduled(Flat(ks), AesniDone, cipherKey, keyBits)

(* Reversing the schedule in place, and copying it from behind, both give  *)
(* the schedule of the equivalent inverse cipher.                          *)
InverseSchedules ==
  LET nr == Rounds(keyBits)
  IN  \A r \in 0 .. nr :
        /\ rpc = "done" => RoundKeys(rk)[r] = InverseKeys(RoundKeys(enc), nr)[r]
        /\ apc = "done" => ckey[r] = InverseKeys(ks, nr)[r]

(* A key gives the same schedules in both: a block encrypted by one        *)
(* implementation can be decrypted by the other.                           *)
SameSchedules ==
  rpc = "done" /\ apc = "done" =>
    \A n \in 0 .. ScheduleLen(keyBits) - 1 :
      enc[n] = Flat(ks)[n] /\ rk[n] = Flat(ckey)[n]
=============================================================================
