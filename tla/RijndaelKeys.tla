---------------------------- MODULE RijndaelKeys ----------------------------
(***************************************************************************)
(* rijndaelKeySetupDec of rijndael/c/rijndael-alg-fst.c, which begins with *)
(* rijndaelKeySetupEnc: the loops that extend the array rk word by word    *)
(* behind a sliding pointer and return from their middle, then the reversal*)
(* of the round keys in place and the inverse MixColumn of all but two.    *)
(* rijndael/ocaml/rijndael_fst.ml and rijndael_fst_opt.ml have the same    *)
(* steps for 128-bit keys and reject the others.                           *)
(***************************************************************************)
EXTENDS KeyWords

VARIABLES
  rk,                   (* The caller's array.                              *)
  base,                 (* How far KeySetupEnc has moved its pointer rk.    *)
  k,                    (* Next word of the loop body, from base + Nk on.   *)
  i, j,                 (* The locals i and j.                              *)
  rpc,                  (* The loop in progress.                            *)
  enc                   (* History: rk when KeySetupEnc returned.           *)

rijndaelVars == <<rk, base, k, i, j, rpc, enc>>

RijndaelInit ==
  /\ rk = [n \in 0 .. 59 |-> IF n < Nk(keyBits) THEN cipherKey[n] ELSE Unset]
  /\ base = 0 /\ k = 0 /\ i = 0 /\ j = 0
  /\ rpc = "expand"
  /\ enc = rk

(* Te4 masked byte by byte: the S-box of the rotated and of the plain word *)
(* (bug: of the rotated word both times).                                  *)
SubRot(temp) == [b \in 0 .. 3 |-> Sbox[temp[(b + 1) % 4]]]
Sub_Rotated(temp) == SubRot(temp)
Sub(temp) == [b \in 0 .. 3 |-> Sbox[temp[b]]]

(* The word that the loop body computes from those at the pointer.         *)
NewWord ==
  LET temp == rk[base + Nk(keyBits) + k - 1]
      old == rk[base + k]
  IN  CASE k = 0 -> XorWord(old, WithRcon(SubRot(temp), i + 1))
        [] k = 4 /\ keyBits = 256 -> XorWord(old, Sub(temp))
        [] OTHER -> XorWord(old, temp)

(* Bug: the 192-bit schedule ends after as many constants as the 256-bit   *)
(* one.                                                                    *)
LastRcon_Swapped(bits) == CASE bits = 128 -> 10 [] bits = 192 -> 7 [] bits = 256 -> 7

(* ++i == 10, 8 or 7 returns from the middle of the loop body.             *)
LastRcon(bits) == CASE bits = 128 -> 10 [] bits = 192 -> 8 [] bits = 256 -> 7

(* One assignment to a word of rk; after the fourth of a body the counter  *)
(* of round constants is advanced and the end tested, after the last the   *)
(* pointer moves on.                                                       *)
KeySetupEnc ==
  /\ rpc = "expand"
  /\ rk' = [rk EXCEPT ![base + Nk(keyBits) + k] = NewWord]
  /\ i' = IF k = 3 THEN i + 1 ELSE i
  /\ IF k = 3 /\ i' = LastRcon(keyBits)
     THEN /\ rpc' = "invert" /\ enc' = rk'
          /\ UNCHANGED <<base, k, j>>
     ELSE /\ IF k = Nk(keyBits) - 1
             THEN base' = base + Nk(keyBits) /\ k' = 0
             ELSE k' = k + 1 /\ UNCHANGED base
          /\ UNCHANGED <<rpc, j, enc>>

(* for (i = 0, j = 4*Nr; ...): KeySetupEnc has returned Nr.                *)
StartSwap ==
  /\ rpc = "invert"
  /\ i' = 0 /\ j' = 4 * Rounds(keyBits)
  /\ rpc' = "swap"
  /\ UNCHANGED <<rk, base, k, enc>>

(* Bug: the loop stops one pair early.                                     *)
MoreSwaps_Short(a, b) == a + 8 < b

(* i < j                                                                   *)
MoreSwaps(a, b) == a < b

SwapKeys ==
  /\ rpc = "swap"
  /\ IF MoreSwaps(i, j)
     THEN /\ rk' = [n \in 0 .. 59 |->
                      CASE n \in i .. i + 3 -> rk[j + (n - i)]
                        [] n \in j .. j + 3 -> rk[i + (n - j)]
                        [] OTHER -> rk[n]]
          /\ i' = i + 4 /\ j' = j - 4
          /\ UNCHANGED rpc
     ELSE /\ rpc' = "mix" /\ i' = 1
          /\ UNCHANGED <<rk, j>>
  /\ UNCHANGED <<base, k, enc>>

(* Td0[Te4[b0]] ^ Td1[Te4[b1]] ^ Td2[Te4[b2]] ^ Td3[Te4[b3]].              *)
InvMixWord(u) ==
  Xor4(Td(0, Sbox[u[0]]), Td(1, Sbox[u[1]]), Td(2, Sbox[u[2]]), Td(3, Sbox[u[3]]))

InvMixKey ==
  /\ rpc = "mix"
  /\ IF i < Rounds(keyBits)
     THEN /\ rk' = [n \in 0 .. 59 |->
                      IF n \in 4*i .. 4*i + 3 THEN InvMixWord(rk[n]) ELSE rk[n]]
          /\ i' = i + 1
          /\ UNCHANGED rpc
     ELSE /\ rpc' = "done"
          /\ UNCHANGED <<rk, i>>
  /\ UNCHANGED <<base, k, j, enc>>

RijndaelNext ==
  /\ \/ KeySetupEnc \/ StartSwap \/ SwapKeys \/ InvMixKey
  /\ UNCHANGED <<keyBits, cipherKey>>
=============================================================================
