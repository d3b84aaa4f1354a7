----------------------------- MODULE AesniKeys -----------------------------
(***************************************************************************)
(* aesniKeySetupEnc and aesniKeySetupDec of aes-ni/c/aesni.c (aes-ni/      *)
(* oxcaml/aesni.ml has the same steps): the schedule is computed four      *)
(* words at a time with the key generation instruction and shifted xors.   *)
(*                                                                         *)
(* A 192-bit key does not fill its second register: the load at userkey+16 *)
(* brings in eight bytes that are not the key's, and the schedule is pieced*)
(* together from halves of registers so that they do not get into it.      *)
(***************************************************************************)
EXTENDS KeyWords

CONSTANT Junk         (* Words that a load may find behind the key.          *)

ASSUME JunkAssumption == Junk \subseteq Word

VARIABLES
  t1, t3,             (* The registers.                                      *)
  c,                  (* The assists done.                                   *)
  half,               (* 256 bits: assist_2 is next.                         *)
  ks,                 (* key_schedule.                                       *)
  m,                  (* The round keys of ckey copied so far.               *)
  ckey,               (* The result of aesniKeySetupDec.                     *)
  apc                 (* "expand", then "copy" while the result is stored.   *)

aesniVars == <<t1, t3, c, half, ks, m, ckey, apc>>

Vec == [0 .. 3 -> Word]
Zero(u) == XorWord(u, u)

-----------------------------------------------------------------------------
(* The instructions.                                                       *)
mm_xor(u, v) == [l \in 0 .. 3 |-> XorWord(u[l], v[l])]

(* _mm_slli_si128 by four bytes.                                           *)
mm_slli(u) == [l \in 0 .. 3 |-> IF l = 0 THEN Zero(u[0]) ELSE u[l - 1]]

(* _mm_shuffle_epi32 with the same lane four times.                        *)
Broadcast(u, l) == [n \in 0 .. 3 |-> u[l]]

(* _mm_aeskeygenassist_si128: lanes 1 and 3 substituted, as they are and   *)
(* rotated with the constant; no constant is the constant zero.            *)
keygenassist(u, rcon) ==
  LET assisted(w) == IF rcon = 0 THEN RotWord(SubWord(w))
                                 ELSE WithRcon(RotWord(SubWord(w)), rcon)
  IN  [l \in 0 .. 3 |-> CASE l = 0 -> SubWord(u[1]) [] l = 1 -> assisted(u[1])
                          [] l = 2 -> SubWord(u[3]) [] l = 3 -> assisted(u[3])]

(* _mm_shuffle_pd with immediate 0 and 1.                                  *)
LowLow(u, v) == [l \in 0 .. 3 |-> IF l < 2 THEN u[l] ELSE v[l - 2]]
HighLow(u, v) == [l \in 0 .. 3 |-> IF l < 2 THEN u[l + 2] ELSE v[l - 2]]

(* The constants for which caml_aesni_keygenassist has a case: zero, and   *)
(* every round constant, by number.  (There is one for 0x55 too, which is  *)
(* no round constant.)                                                     *)
StubCases == 0 .. 10

(* The instruction takes its constant in the code, so that the stub of the *)
(* OCaml program switches over it; a constant without a case is undefined. *)
Assisted(u, rcon) ==
  IF rcon \in StubCases THEN {keygenassist(u, rcon)} ELSE [0 .. 3 -> Junk]

(* t ^ t<<4 ^ t<<8 ^ t<<12.                                                *)
Cascade(t) ==
  LET s1 == mm_slli(t)  s2 == mm_slli(s1)  s3 == mm_slli(s2)
  IN  mm_xor(mm_xor(mm_xor(t, s1), s2), s3)

-----------------------------------------------------------------------------
aesni_128_assist(u, t2) == mm_xor(Cascade(u), Broadcast(t2, 3))

(* Bug: the lane that is right for 128 and 256 bits.                       *)
Assist192Lane_3 == 3

(* Shuffle 0x55: word 5 of a 192-bit key is lane 1 of the second register. *)
Assist192Lane == 1

aesni_192_assist(u, t2, v) ==
  LET u1 == mm_xor(Cascade(u), Broadcast(t2, Assist192Lane))
  IN  <<u1, mm_xor(mm_xor(v, mm_slli(v)), Broadcast(u1, 3))>>

aesni_256_assist_1(u, t2) == mm_xor(Cascade(u), Broadcast(t2, 3))
aesni_256_assist_2(t4, v) == mm_xor(Cascade(v), Broadcast(t4, 2))

-----------------------------------------------------------------------------
Loaded(from) == [l \in 0 .. 3 |-> cipherKey[from + l]]
NoVec == [l \in 0 .. 3 |-> Unset]

(* The first loads and stores.  A 128-bit key has no second register, and  *)
(* the last two words of a 192-bit key's second register are not its own.  *)
AesniInit ==
  /\ t1 = Loaded(0)
  /\ \/ keyBits = 128 /\ t3 = NoVec
     \/ /\ keyBits = 192
        /\ \E u, v \in Junk :
             t3 = [Loaded(4) EXCEPT ![2] = u, ![3] = v]
     \/ keyBits = 256 /\ t3 = Loaded(4)
  /\ c = 0 /\ half = FALSE
  /\ ks = [r \in 0 .. 14 |-> CASE r = 0 -> t1
                               [] r = 1 -> t3
                               [] OTHER -> NoVec]
  /\ m = 0 /\ ckey = [r \in 0 .. 14 |-> NoVec]
  /\ apc = "expand"

Expand128 ==
  /\ apc = "expand" /\ keyBits = 128 /\ c < 10
  /\ \E t2 \in Assisted(t1, c + 1) : t1' = aesni_128_assist(t1, t2)
  /\ ks' = [ks EXCEPT ![c + 1] = t1']
  /\ c' = c + 1
  /\ UNCHANGED <<t3, half, m, ckey, apc>>

(* The first assist of a pair completes a round key, half of which are the *)
(* key's last words or an earlier t3, with the first half of t1 and fills  *)
(* the next one with the rest; the second stores the two registers, the    *)
(* eighth of all only the first of them.                                   *)
Expand192 ==
  /\ apc = "expand" /\ keyBits = 192 /\ c < 8
  /\ \E t2 \in Assisted(t3, c + 1) :
       LET t == aesni_192_assist(t1, t2, t3)
           n == 3 * ((c + 1) \div 2)
       IN /\ t1' = t[1] /\ t3' = t[2]
          /\ ks' = IF c % 2 = 0
                   THEN [ks EXCEPT ![n + 1] = LowLow(@, t1'),
                                   ![n + 2] = HighLow(t1', t3')]
                   ELSE IF c = 7 THEN [ks EXCEPT ![n] = t1']
                   ELSE [ks EXCEPT ![n] = t1', ![n + 1] = t3']
  /\ c' = c + 1
  /\ UNCHANGED <<half, m, ckey, apc>>

Expand256 ==
  /\ apc = "expand" /\ keyBits = 256 /\ c < 7 /\ ~half
  /\ \E t2 \in Assisted(t3, c + 1) : t1' = aesni_256_assist_1(t1, t2)
  /\ ks' = [ks EXCEPT ![2*c + 2] = t1']
  /\ c' = c + 1
  /\ half' = (c < 6)
  /\ UNCHANGED <<t3, m, ckey, apc>>

Expand256Half ==
  /\ apc = "expand" /\ keyBits = 256 /\ half
  /\ \E t4 \in Assisted(t1, 0) : t3' = aesni_256_assist_2(t4, t3)
  /\ ks' = [ks EXCEPT ![2*c + 1] = t3']
  /\ half' = FALSE
  /\ UNCHANGED <<t1, c, m, ckey, apc>>

(* return nrounds                                                          *)
LastAssist(bits) == CASE bits = 128 -> 10 [] bits = 192 -> 8 [] bits = 256 -> 7
Expanded ==
  /\ apc = "expand" /\ c = LastAssist(keyBits) /\ ~half
  /\ apc' = "copy"
  /\ UNCHANGED <<t1, t3, c, half, ks, m, ckey>>

(* Bug: the last round key goes through the inverse MixColumn as well.     *)
Cooked_Last(r) == IF r = 0 THEN ks[Rounds(keyBits)]
                  ELSE [l \in 0 .. 3 |-> InvMix(ks[Rounds(keyBits) - r][l])]

(* aesniKeySetupDec: the last round key, the others from behind through    *)
(* _mm_aesimc_si128, the first.                                            *)
Cooked(r) ==
  IF r \in {0, Rounds(keyBits)} THEN ks[Rounds(keyBits) - r]
  ELSE [l \in 0 .. 3 |-> InvMix(ks[Rounds(keyBits) - r][l])]

KeySetupDec ==
  /\ apc = "copy"
  /\ ckey' = [ckey EXCEPT ![m] = Cooked(m)]
  /\ m' = m + 1
  /\ apc' = IF m = Rounds(keyBits) THEN "done" ELSE "copy"
  /\ UNCHANGED <<t1, t3, c, half, ks>>

AesniNext ==
  /\ \/ Expand128 \/ Expand192 \/ Expand256 \/ Expand256Half
     \/ Expanded \/ KeySetupDec
  /\ UNCHANGED <<keyBits, cipherKey>>
=============================================================================
