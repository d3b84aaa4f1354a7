---------------------------- MODULE BlockDrivers ----------------------------
(***************************************************************************)
(* The benchmarks of the AES implementations: read the input and pad it    *)
(* with zeros, take a key, encrypt a block after the other, decrypt them,  *)
(* compare.  The block functions themselves are modelled in AesManual and  *)
(* AesCipher; here a byte of an encrypted block is a term of the key, the  *)
(* block and the place in it.                                              *)
(***************************************************************************)
EXTENDS Drivers

(* Bug: a message of whole blocks gets one more.                           *)
PaddedLen_OneMore == (inputLen \div BlockLen + 1) * BlockLen

PaddedLen == ((inputLen + BlockLen - 1) \div BlockLen) * BlockLen

(* One program works on the file as long as it is.                         *)
BufferLen == IF prog = "rijndael OCaml" THEN inputLen ELSE PaddedLen

(* These do not look at the result of fread.                               *)
UncheckedInput == {"rijndael C", "aes-ni C"}

(* fread gets n bytes of the input, all of them unless nobody looks.       *)
ReadBlocks ==
  /\ pc = "input" /\ prog \in BlockPrograms /\ inputLen # Missing
  /\ \E n \in 0 .. inputLen :
       /\ n < inputLen => prog \in UncheckedInput
       /\ message' = [p \in 1 .. BufferLen |->
                        IF p <= n THEN FileByte(p) ELSE <<"zero">>]
  /\ Goto("key")
  /\ UNCHANGED <<files, encrypted, decrypted, key, ctx, pos>>

(* The result of calloc is not looked at: a message that was refused memory *)
(* is met again where its first byte is used.                               *)
ReadNowhere ==
  /\ pc = "input" /\ prog = "rijndael C" /\ inputLen # Missing
  /\ \/ Goto("key") \/ Exit("killed", "nothing")
  /\ UNCHANGED <<files, buffers>>

(* Bug: nor does another program look at how much of the key it got.       *)
UncheckedKey_Both == {"rijndael C", "aes-128 C"}

(* A key that is too short ends with what the stack held.                  *)
UncheckedKey == {"rijndael C"}

ReadKey ==
  /\ pc = "key" /\ prog \in KeyFromFile \cap BlockPrograms /\ keyLen # Missing
  /\ \E n \in 0 .. Min({keyLen, KeyLen}), y \in Junk :
       /\ n < KeyLen => prog \in UncheckedKey
       /\ key' = [p \in 1 .. KeyLen |-> IF p <= n THEN KeyByte(p) ELSE JunkByte(y)]
  /\ Goto("allocate")
  /\ UNCHANGED <<files, message, encrypted, decrypted, ctx, pos>>

(* The zero key of one program, the key in the source of two.              *)
OwnKey ==
  IF prog = "rijndael OCaml"
  THEN [p \in 1 .. KeyLen |-> <<"zero">>]
  ELSE [p \in 1 .. KeyLen |-> <<"fixed", p>>]

SetKey ==
  /\ pc = "key" /\ prog \in BlockPrograms \ KeyFromFile
  /\ key' = OwnKey
  /\ Goto("allocate")
  /\ UNCHANGED <<files, message, encrypted, decrypted, ctx, pos>>

AllocateBlocks ==
  prog \in BlockPrograms /\ Allocate([p \in 1 .. BufferLen |-> Unset], "encrypt")

(* aesni_check_available.                                                  *)
CheckCpu ==
  /\ pc = "cpu"
  /\ Goto("input") \/ Exit("1", "nothing")
  /\ UNCHANGED <<files, buffers>>

-----------------------------------------------------------------------------
BlockAt(buf, n) == SubSeq(buf, n * BlockLen + 1, (n + 1) * BlockLen)
PutBlock(buf, n, block) ==
  [p \in DOMAIN buf |->
     IF (p - 1) \div BlockLen = n THEN block[((p - 1) % BlockLen) + 1] ELSE buf[p]]

Encrypt(k, block) == [j \in 1 .. BlockLen |-> <<"aes", k, block, j>>]

(* An encrypted block is what it was before; anything else is nothing      *)
(* anyone knows.  The fault falls on one byte.                             *)
Decrypt(k, block, n) ==
  LET right == IF block[1][1] = "aes" /\ block = Encrypt(k, block[1][3])
               THEN block[1][3] ELSE [j \in 1 .. BlockLen |-> Unset]
  IN [j \in 1 .. BlockLen |->
        IF n * BlockLen + j = fault THEN <<"wrong">> ELSE right[j]]

(* The turns of the loops: a tail is not among them.                       *)
Blocks == BufferLen \div BlockLen

EncryptBlock ==
  /\ pc = "encrypt" /\ prog \in BlockPrograms /\ pos < Blocks
  /\ IF message = <<>>
     THEN Exit("killed", "nothing") /\ UNCHANGED <<encrypted, pos>>
     ELSE /\ encrypted' = PutBlock(encrypted, pos, Encrypt(key, BlockAt(message, pos)))
          /\ pos' = pos + 1
          /\ UNCHANGED <<pc, status, printed>>
  /\ UNCHANGED <<files, message, decrypted, key, ctx>>

DecryptBlock ==
  /\ pc = "decrypt" /\ prog \in BlockPrograms /\ pos < Blocks
  /\ decrypted' = PutBlock(decrypted, pos, Decrypt(key, BlockAt(encrypted, pos), pos))
  /\ pos' = pos + 1
  /\ UNCHANGED <<files, pc, status, printed, message, encrypted, key, ctx>>

EndBlocks ==
  /\ pc \in {"encrypt", "decrypt"} /\ prog \in BlockPrograms /\ pos = Blocks
  /\ pos' = 0
  /\ Goto(IF pc = "encrypt" THEN "decrypt" ELSE "verify")
  /\ UNCHANGED <<files, message, encrypted, decrypted, key, ctx>>

BlockNext ==
  \/ ReadBlocks \/ ReadNowhere \/ ReadKey \/ SetKey \/ AllocateBlocks \/ CheckCpu
  \/ EncryptBlock \/ DecryptBlock \/ EndBlocks
=============================================================================
