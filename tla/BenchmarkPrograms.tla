-------------------------- MODULE BenchmarkPrograms -------------------------
(***************************************************************************)
(* One run of one of the eleven benchmark programs of aes-128/, rijndael/, *)
(* aes-ni/ and chacha20/, on files of any length and with or without a     *)
(* part of its cipher that is wrong.                                       *)
(***************************************************************************)
EXTENDS BlockDrivers, StreamDrivers

Init ==
  /\ DriversInit
  /\ \/ /\ prog \in BlockPrograms /\ nonceLen = Missing
        /\ keyLen \in IF prog \in KeyFromFile THEN KeyLens ELSE {Missing}
        /\ fault \in {NoFault} \cup IF inputLen = Missing THEN {} ELSE 1 .. PaddedLen
     \/ /\ prog \in StreamPrograms
        /\ keyLen \in KeyLens /\ nonceLen \in NonceLens
        /\ fault \in {NoFault, 1}

Next == DriversNext \/ BlockNext \/ StreamNext

(* The program is scheduled, and every loop of it ends.                    *)
Spec == Init /\ [][Next]_vars /\ WF_vars(Next)

-----------------------------------------------------------------------------
PcStates ==
  {"start", "arguments", "cpu", "input", "key", "nonce", "allocate", "init encrypt",
   "encrypt", "init decrypt", "decrypt", "verify", "exit"}
InLoops == pc \in {"encrypt", "decrypt", "verify"}

(* Types; the buffers have the length of the message, padded to less than  *)
(* a block more by the block programs, and no loop leaves them.            *)
TypeOK ==
  /\ prog \in BlockPrograms \cup StreamPrograms
  /\ pc \in PcStates /\ (pc = "exit" <=> status # "running")
  /\ status \in {"running", "0", "1", "2", "killed"}
  /\ printed \in {"nothing", "times", "PASSED", "FAILED"}
  /\ InLoops =>
       /\ Len(encrypted) = Len(decrypted)
       /\ message # <<>> => Len(message) = Len(encrypted)
       /\ inputLen <= Len(encrypted)
       /\ prog \in BlockPrograms =>
            /\ Len(key) = KeyLen
            /\ Len(encrypted) < inputLen + BlockLen
            /\ Len(encrypted) % BlockLen = 0 \/ Len(encrypted) = inputLen
            /\ pos * BlockLen <= Len(encrypted)
       /\ prog \in StreamPrograms =>
            /\ Len(encrypted) = inputLen
            /\ (pos - 1) * StreamLen < inputLen

(* What byte p of the ciphertext was made of: bytes of key, nonce, message. *)
Sources(p) ==
  LET byte == encrypted[p]
      OfSession(term) == Range(term[2].key) \cup Range(term[2].nonce)
  IN IF prog \in StreamPrograms
     THEN UNION {IF Len(term) = 3 THEN OfSession(term) ELSE {term} : term \in byte}
     ELSE IF byte[1] = "aes" THEN Range(byte[2]) \cup Range(byte[3]) ELSE {byte}

KeyShort == keyLen < (IF prog = "chacha20 OCaml" THEN KeyLen ELSE LongKey)
NonceShort == nonceLen < (IF IsWide THEN ShortNonce ELSE NonceLen)

(* The key is n bytes of the key file and then what nobody has written.    *)
KeyUpTo(n) ==
  \A i \in 1 .. KeyLen : IF i <= n THEN key[i] = KeyByte(i) ELSE key[i][1] = "junk"

(* Memory that nobody has written gets into what a finished program calls  *)
(* the ciphertext in three ways only: as the end of the key of rijndael's  *)
(* C program, as the tail of rijndael's plain OCaml program, and through   *)
(* the unchecked loads of the two ChaCha20 programs in OCaml, if a file is *)
(* too short for them.                                                     *)
UninitialisedBytes ==
  \A p \in 1 .. (IF status = "0" THEN inputLen ELSE 0) :
    \A byte \in Sources(p) : byte[1] = "junk" =>
      \/ /\ prog = "rijndael C" /\ byte \in Range(key)
         /\ \E n \in 0 .. KeyLen - 1 : KeyUpTo(n)
      \/ prog = "rijndael OCaml" /\ p > (inputLen \div BlockLen) * BlockLen
      \/ prog = "chacha20 OCaml" /\ (KeyShort \/ NonceShort)
      \/ prog = "chacha20 OxCaml" /\ KeyShort

-----------------------------------------------------------------------------
(* What a cipher makes of the files: AES of the message padded with zeros, *)
(* ChaCha20 from the start of the keystream of key and nonce.              *)
Padded(p) == IF p <= inputLen THEN FileByte(p) ELSE <<"zero">>
AesOf(k) ==
  [p \in 1 .. PaddedLen |->
     LET n == (p - 1) \div BlockLen
     IN <<"aes", k, [j \in 1 .. BlockLen |-> Padded(n * BlockLen + j)],
          p - n * BlockLen>>]

(* RFC 8439 has a long key and a long nonce.                               *)
RfcSession ==
  [key |-> [p \in 1 .. LongKey |-> KeyByte(p)], long |-> TRUE,
   nonce |-> [p \in 1 .. NonceLen |-> NonceByte(p)], wide |-> FALSE]
ChaChaOf(session) ==
  [p \in 1 .. inputLen |-> {FileByte(p), <<"chacha", session, p - 1>>}]

ReadWhole == message = [p \in 1 .. Len(message) |-> Padded(p)]
FileKey == [p \in 1 .. KeyLen |-> KeyByte(p)]
FixedKey == [p \in 1 .. KeyLen |-> <<"fixed", p>>]

(* Longer files do no harm, except that OCaml then takes the key for short. *)
OnRfcFiles ==
  /\ prog \in StreamPrograms /\ keyLen >= LongKey /\ nonceLen >= NonceLen
  /\ prog = "chacha20 OCaml" => keyLen = LongKey

(* The programs of a cipher that come to a report agree with each other    *)
(* on the files.  The plain OCaml program of rijndael does not; nor does a *)
(* program with a wrong block function, but one that tests it first never  *)
(* reports.                                                                *)
SameCiphertext ==
  status = "0" =>
    /\ prog \in KeyFromFile \cap BlockPrograms /\ ReadWhole /\ key = FileKey =>
         encrypted = AesOf(FileKey)
    /\ prog \in {"aes-ni C", "aes-ni OxCaml"} /\ ReadWhole =>
         encrypted = AesOf(FixedKey)
    /\ OnRfcFiles /\ (fault = NoFault \/ prog \in SelfTesting) =>
         encrypted = ChaChaOf(RfcSession)

(* A message that does not come back has a reason: the fault of the cipher *)
(* in the message itself, or memory behind a short key or nonce file that  *)
(* has changed between two loads.                                          *)
FailuresExplained ==
  printed = "FAILED" \/ (pc = "exit" /\ status = "1" /\ decrypted # <<>> /\ ~Intact) =>
    \/ prog \in BlockPrograms /\ fault # NoFault /\ fault <= inputLen
    \/ prog = "chacha20 OCaml" /\ (KeyShort \/ NonceShort)
    \/ prog = "chacha20 OxCaml" /\ KeyShort

-----------------------------------------------------------------------------
(* Every program is a run as its script expects it: it ends, with a report *)
(* that is true, or with an exit status that is not 0 and no report.       *)
Run == INSTANCE DriverRun WITH verdict <- Verdict, intact <- Intact
RefinesDriverRun == Run!Spec

(* All benchmarks exit with an error if verification fails, as             *)
(* aes-ni/README.md:228 has it.  Violated by the C program, which returns  *)
(* 0 after it has printed FAILED.                                          *)
FailureExits ==
  prog \in {"aes-ni C", "aes-ni OxCaml"} /\ status = "0" => Intact
=============================================================================
