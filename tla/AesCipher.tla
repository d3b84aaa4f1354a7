----------------------------- MODULE AesCipher -----------------------------
(***************************************************************************)
(* The block encryptions and decryptions of rijndael/ and aes-ni/: a block *)
(* is encrypted by one of them and the result decrypted by one of them,    *)
(* the same or another.                                                    *)
(*                                                                         *)
(*   rolled    rijndael-alg-fst.c as it is built, rijndael_fst.ml and      *)
(*             rijndael_fst_opt.ml: a loop over pairs of rounds, from s to *)
(*             t and back to s, left in the middle after the last t        *)
(*   unrolled  rijndael-alg-fst.c with FULL_UNROLL                         *)
(*   kat       rijndaelEncryptRound and rijndaelDecryptRound, which stop   *)
(*             after the given number of rounds                            *)
(*   aesni     aesni.c and aesni.ml: a loop over the round instructions    *)
(*                                                                         *)
(* The decryptions use the round keys of the equivalent inverse cipher     *)
(* (KeySchedules shows that the key setups produce them), so that they run *)
(* through the same loops as the encryptions, with other tables and the    *)
(* rows shifted the other way.                                             *)
(***************************************************************************)
EXTENDS Sequences, AesBlocks

CONSTANT NoBlock   (* An output not written yet.                            *)

VARIABLES
  nr, keys,    (* Nr and the encryption schedule.                           *)
  plaintext,   (* The block that is encrypted.                              *)
  impl,        (* The function in progress or called last, see above.       *)
  rounds,      (* Argument of the kat functions; nr for the others.         *)
  phase,       (* "encrypt", then "decrypt".                                *)
  rk,          (* Index of the round key that the pointer rk is at; j for   *)
               (* aesni.                                                    *)
  r,           (* The loop counter; for unrolled the rounds done.           *)
  s, t,        (* Locals s0 .. s3 and t0 .. t3; aesni has t only.           *)
  pc,          (* Where the function is.                                    *)
  ct, pt,      (* What the two functions put into their output.             *)
  trace        (* History: the states of the encryption, after 0, 1, ...    *)
               (* rounds.                                                   *)

call == <<nr, keys, plaintext, impl, rounds, phase>>
vars == <<nr, keys, plaintext, impl, rounds, phase, rk, r, s, t, pc, ct, pt, trace>>

Impls == {"rolled", "unrolled", "kat", "aesni"}

-----------------------------------------------------------------------------
(* What the function in progress is called on.                             *)
Encrypting == phase = "encrypt"
RoundKeys == IF Encrypting THEN keys ELSE InverseKeys(keys, nr)
Input == IF Encrypting THEN plaintext ELSE ct

Init ==
  /\ nr \in {10, 12, 14} /\ keys \in Schedules /\ plaintext \in Plaintexts
  /\ impl \in Impls
  /\ rounds \in IF impl = "kat" THEN 0 .. nr ELSE {nr}
  /\ phase = "encrypt"
  /\ rk = 0 /\ r = 0 /\ s = NoBlock /\ t = NoBlock
  /\ pc = "load"
  /\ ct = NoBlock /\ pt = NoBlock
  /\ trace = <<XorBlock(plaintext, keys[0])>>

-----------------------------------------------------------------------------
(* Bug: the columns of an encryption taken the way of a decryption, and    *)
(* the other way round.                                                    *)
EncSource_Back(c, b) == (c - b) % 4
DecSource_Forth(c, b) == (c + b) % 4

(* Byte b of column c comes from this column: s0, s1, s2, s3 in the first  *)
(* assignment of an encryption, s0, s3, s2, s1 in that of a decryption.    *)
EncSource(c, b) == (c + b) % 4
DecSource(c, b) == (c - b) % 4

(* Te0[..] ^ Te1[..] ^ Te2[..] ^ Te3[..] ^ rk[..], and with Td.            *)
EncWord(x, c) ==
  Xor4(Te(0, x[EncSource(c, 0)][0]), Te(1, x[EncSource(c, 1)][1]),
       Te(2, x[EncSource(c, 2)][2]), Te(3, x[EncSource(c, 3)][3]))
DecWord(x, c) ==
  Xor4(Td(0, x[DecSource(c, 0)][0]), Td(1, x[DecSource(c, 1)][1]),
       Td(2, x[DecSource(c, 2)][2]), Td(3, x[DecSource(c, 3)][3]))
TableRound(x, key) ==
  XorBlock([c \in 0 .. 3 |-> IF Encrypting THEN EncWord(x, c) ELSE DecWord(x, c)],
           key)

(* The masked bytes of Te4 and Td4.                                        *)
EncBytes(x) == [c \in 0 .. 3 |-> [b \in 0 .. 3 |-> Sbox[x[EncSource(c, b)][b]]]]
DecBytes(x) == [c \in 0 .. 3 |-> [b \in 0 .. 3 |-> InvSbox[x[DecSource(c, b)][b]]]]
TableLast(x) == IF Encrypting THEN EncBytes(x) ELSE DecBytes(x)

(* _mm_aesenc_si128, _mm_aesdec_si128: rows, bytes, columns, key; and the  *)
(* two instructions of the last round.                                     *)
Shifted(x) ==
  [c \in 0 .. 3 |-> [b \in 0 .. 3 |-> x[(IF Encrypting THEN c + b ELSE c - b) % 4][b]]]
Substituted(x) ==
  [c \in 0 .. 3 |-> [b \in 0 .. 3 |-> IF Encrypting THEN Sbox[x[c][b]]
                                                    ELSE InvSbox[x[c][b]]]]
Mixed(x) == [c \in 0 .. 3 |-> IF Encrypting THEN Mix(x[c]) ELSE InvMix(x[c])]
InstructionRound(x, key) == XorBlock(Mixed(Substituted(Shifted(x))), key)
InstructionLast(x, key) == XorBlock(Substituted(Shifted(x)), key)

-----------------------------------------------------------------------------
(* An encryption records its states.                                       *)
Traced(x) == IF Encrypting THEN Append(trace, x) ELSE trace

(* A function stores its result and returns.                               *)
Return(x) ==
  /\ IF Encrypting THEN ct' = x /\ UNCHANGED pt ELSE pt' = x /\ UNCHANGED ct
  /\ pc' = "returned"
  /\ UNCHANGED <<call, rk, r, s, t>>

(* Bug: one pair too many.                                                 *)
Pairs_OneMore(n) == (n \div 2) + 1

(* r = Nr >> 1.                                                            *)
Pairs(n) == n \div 2

(* The values that r starts with in the two kat functions.                 *)
KatLoops ==
  IF Encrypting THEN IF rounds < nr THEN rounds ELSE nr - 1
                ELSE (IF rounds < nr THEN rounds ELSE nr) - 1

(* The block is read and the first round key added.                        *)
Load ==
  /\ pc = "load"
  /\ LET x == XorBlock(Input, RoundKeys[0])
     IN  IF impl = "aesni" THEN t' = x /\ UNCHANGED s ELSE s' = x /\ UNCHANGED t
  /\ \/ impl = "rolled" /\ rk' = 0 /\ r' = Pairs(nr) /\ pc' = "toT"
     \/ impl = "unrolled" /\ rk' = 0 /\ r' = 0 /\ pc' = "straight"
     \/ impl = "kat" /\ rk' = 1 /\ r' = KatLoops /\ pc' = "loop"
     \/ impl = "aesni" /\ rk' = 1 /\ r' = 0 /\ pc' = "do"
  /\ UNCHANGED <<call, ct, pt, trace>>

(* The rolled loop: t from s with rk[4] .. rk[7], rk += 8, and the break;  *)
(* s from t with rk[0] .. rk[3].                                           *)
RolledT ==
  /\ pc = "toT"
  /\ t' = TableRound(s, RoundKeys[rk + 1])
  /\ rk' = rk + 2 /\ r' = r - 1
  /\ pc' = IF r' = 0 THEN "last" ELSE "toS"
  /\ trace' = Traced(t')
  /\ UNCHANGED <<call, s, ct, pt>>

RolledS ==
  /\ pc = "toS"
  /\ s' = TableRound(t, RoundKeys[rk])
  /\ pc' = "toT"
  /\ trace' = Traced(s')
  /\ UNCHANGED <<call, rk, r, t, ct, pt>>

(* A round of the straight code; if (Nr > 10) after the ninth, if (Nr > 12)*)
(* after the eleventh, and rk += Nr << 2 behind all.                       *)
Unrolled ==
  /\ pc = "straight"
  /\ r' = r + 1
  /\ IF r % 2 = 0 THEN t' = TableRound(s, RoundKeys[r']) /\ UNCHANGED s
                  ELSE s' = TableRound(t, RoundKeys[r']) /\ UNCHANGED t
  /\ IF (r' = 9 /\ ~(nr > 10)) \/ (r' = 11 /\ ~(nr > 12)) \/ r' = 13
     THEN pc' = "last" /\ rk' = rk + nr
     ELSE UNCHANGED <<pc, rk>>
  /\ trace' = Traced(IF r % 2 = 0 THEN t' ELSE s')
  /\ UNCHANGED <<call, ct, pt>>

(* The last round of both, from t.                                         *)
Last ==
  /\ pc = "last"
  /\ LET x == XorBlock(TableLast(t), RoundKeys[rk])
     IN  Return(x) /\ trace' = Traced(x)

KatRound ==
  /\ pc = "loop" /\ r > 0
  /\ t' = TableRound(s, RoundKeys[rk])
  /\ s' = t'
  /\ rk' = rk + 1 /\ r' = r - 1
  /\ trace' = Traced(s')
  /\ UNCHANGED <<call, pc, ct, pt>>

(* Bug: the round key of the last round is always added.                   *)
Whole_Always(n) == TRUE

(* rounds == Nr                                                            *)
Whole(n) == n = nr

(* An encryption has a last round if it runs to the end; a decryption      *)
(* always shifts and substitutes, and adds a key if it runs to the end.    *)
KatLast ==
  /\ pc = "loop" /\ r <= 0
  /\ IF Encrypting /\ ~Whole(rounds)
     THEN Return(s) /\ UNCHANGED trace
     ELSE LET y == TableLast(s)
              x == IF Whole(rounds) THEN XorBlock(y, RoundKeys[rk]) ELSE y
          IN  Return(x) /\ trace' = Traced(x)

(* do { .. j++ } while (j < nrounds), and the last round.                  *)
AesniRound ==
  /\ pc = "do"
  /\ t' = InstructionRound(t, RoundKeys[rk])
  /\ rk' = rk + 1
  /\ pc' = IF rk' < nr THEN "do" ELSE "enclast"
  /\ trace' = Traced(t')
  /\ UNCHANGED <<call, r, s, ct, pt>>

AesniLast ==
  /\ pc = "enclast"
  /\ LET x == InstructionLast(t, RoundKeys[rk])
     IN  Return(x) /\ trace' = Traced(x)

(* The caller decrypts a complete encryption, with any of the functions.   *)
Decrypt ==
  /\ pc = "returned" /\ Encrypting /\ rounds = nr
  /\ impl' \in Impls
  /\ rounds' \in IF impl' = "kat" THEN 0 .. nr ELSE {nr}
  /\ phase' = "decrypt" /\ pc' = "load"
  /\ UNCHANGED <<nr, keys, plaintext, rk, r, s, t, ct, pt, trace>>

Next ==
  \/ Load \/ RolledT \/ RolledS \/ Unrolled \/ Last
  \/ KatRound \/ KatLast \/ AesniRound \/ AesniLast \/ Decrypt

Spec == Init /\ [][Next]_vars

-----------------------------------------------------------------------------
(* The local that holds the state between two rounds, and how many rounds  *)
(* it has gone through.                                                    *)
Held == IF pc \in {"toS", "last", "do", "enclast"} \/ (pc = "straight" /\ r % 2 = 1)
        THEN t ELSE s
Done ==
  CASE pc \in {"toT", "last"} /\ impl = "rolled" -> nr - 2 * r - (IF r = 0 THEN 1 ELSE 0)
    [] pc = "toS" -> nr - 2 * r - 1
    [] pc \in {"straight", "last"} /\ impl = "unrolled" -> r
    [] pc \in {"loop", "do", "enclast"} -> rk - 1

InProgress == pc \notin {"load", "returned"}

(* Types; every round key that is read lies in the schedule, and the loops *)
(* end with the pointer at the last one.                                   *)
TypeOK ==
  /\ nr \in {10, 12, 14} /\ keys \in Schedules /\ plaintext \in Plaintexts
  /\ impl \in Impls /\ rounds \in 0 .. nr /\ phase \in {"encrypt", "decrypt"}
  /\ pc \in {"load", "toT", "toS", "straight", "last", "loop", "do", "enclast",
             "returned"}
  /\ rk \in 0 .. nr /\ r \in -1 .. nr
  /\ pc = "toT" => rk + 1 <= nr
  /\ pc \in {"last", "enclast"} \/ (pc = "loop" /\ r = 0 /\ rounds = nr) => rk = nr
  /\ InProgress => Held \in Block
  /\ {s, t, ct, pt} \subseteq Block \cup {NoBlock}
  /\ trace \in Seq(Block)

(* Every encryption computes the rounds of AES, with tables or with        *)
(* instructions, rolled or unrolled, for the three numbers of rounds.      *)
Abstract == INSTANCE AesRounds
              WITH state <- trace[Len(trace)], round <- Len(trace) - 1
EncryptRefines == Abstract!Spec

(* A decryption goes back through the states of the encryption, seen       *)
(* before their columns were mixed; the encryption leaves in its locals,   *)
(* and in its output, what its trace says.                                 *)
DecryptRetraces ==
  /\ InProgress =>
       IF Encrypting THEN Len(trace) = Done + 1 /\ Held = trace[Done + 1]
                     ELSE Held = Unmixed(trace[nr - Done])
  /\ ct # NoBlock => Len(trace) = (IF Encrypting THEN rounds ELSE nr) + 1
                     /\ ct = trace[Len(trace)]

(* What one implementation encrypts every implementation decrypts; and a   *)
(* decryption of some rounds meets the encryption of the remaining ones,   *)
(* where even one of no rounds undoes the last.                            *)
RoundTrip ==
  pc = "returned" /\ ~Encrypting =>
    pt = CASE rounds = nr -> plaintext
           [] rounds = 0 -> trace[nr]
           [] OTHER -> trace[nr - rounds + 1]
=============================================================================
