-------------------------------- MODULE XorC --------------------------------
(***************************************************************************)
(* The main of xor/c/benchmark.c with xor_encrypt and xor_decrypt of xor.c.*)
(* Lengths are longs there, and int parameters here: a length is converted *)
(* at the call.                                                            *)
(***************************************************************************)
EXTENDS XorFiles

CONSTANT IntMax          (* The largest int.                                *)
ASSUME IntMaxAssumption == IntMax \in Nat \ {0}

VARIABLES
  cpc,           (* Where the program is.                                   *)
  cexit,         (* "running", its exit status, or "killed".                *)
  keyLen,        (* key_len.                                                *)
  ci, cpass,     (* The counters of the byte loop and of the loop around it.*)
  cenc, cdec,    (* The buffers encrypted and decrypted.                    *)
  cpos,          (* How much of a buffer is in its file: the file's offset. *)
  cok,           (* What it prints: ok.                                     *)
  cut            (* History: a write of it was cut short.                   *)

cvars == <<cpc, cexit, keyLen, ci, cpass, cenc, cdec, cpos, cok, cut>>

CInit ==
  /\ cpc = "read" /\ cexit = "running"
  /\ keyLen = 0 /\ ci = 0 /\ cpass = 0
  /\ cenc = <<>> /\ cdec = <<>> /\ cpos = 0
  /\ cok = FALSE /\ cut = FALSE

(* A long passed to an int parameter.                                      *)
ToInt(n) ==
  LET u == n % (2 * (IntMax + 1)) IN IF u <= IntMax THEN u ELSE u - 2 * (IntMax + 1)

CExit(status) == cpc' = "exit" /\ cexit' = status

(* fopen or fread fails, of the input or of the key file.                  *)
CReadFails ==
  /\ cpc = "read"
  /\ CExit("1")
  /\ UNCHANGED <<ciphertextFile, decryptedFile, keyLen, ci, cpass, cenc, cdec, cpos, cok, cut>>

CRead ==
  /\ cpc = "read" /\ inputFile # Missing /\ keyFile # Missing
  /\ keyLen' = Len(keyFile)
  /\ cpc' = "strip"
  /\ UNCHANGED <<ciphertextFile, decryptedFile, cexit, ci, cpass, cenc, cdec, cpos, cok, cut>>

(* Bug: only the last byte of the key file is looked at.                   *)
Strips_Last == keyLen = Len(keyFile) /\ keyLen > 0 /\ keyFile[keyLen] \in Eol

(* The condition of the while loop.                                        *)
Strips == keyLen > 0 /\ keyFile[keyLen] \in Eol

CStrip ==
  /\ cpc = "strip"
  /\ IF Strips
     THEN keyLen' = keyLen - 1 /\ UNCHANGED <<cpc, cexit, cenc, cdec>>
     ELSE /\ UNCHANGED keyLen
          /\ IF keyLen = 0 THEN CExit("1") /\ UNCHANGED <<cenc, cdec>>
             ELSE /\ \E y \in Junk : cenc' = Fresh(Len(inputFile), y)
                  /\ \E y \in Junk : cdec' = Fresh(Len(inputFile), y)
                  /\ cpc' = "encrypt" /\ UNCHANGED cexit
  /\ UNCHANGED <<ciphertextFile, decryptedFile, ci, cpass, cpos, cok, cut>>

(* i % key_len for an i that is not negative has nothing of the sign.      *)
CKeyLen == IF ToInt(keyLen) < 0 THEN -ToInt(keyLen) ELSE ToInt(keyLen)

(* Bug: the last byte is left out.                                         *)
CMore_ButLast == ci + 1 < ToInt(Len(inputFile))

(* i < msg_len                                                             *)
CMore == ci < ToInt(Len(inputFile))

(* Bug: a later pass encrypts what the one before has encrypted.           *)
EncryptFrom_InPlace == IF cpass = 0 THEN inputFile ELSE cenc

(* The first argument of xor_encrypt, in every pass.                       *)
EncryptFrom == inputFile

CEncryptByte ==
  /\ cpc = "encrypt" /\ CMore
  /\ IF CKeyLen = 0
     THEN CExit("killed") /\ UNCHANGED <<ci, cenc>>
     ELSE /\ cenc' = [cenc EXCEPT ![ci + 1] = XorByte(EncryptFrom, ci, CKeyLen)]
          /\ ci' = ci + 1
          /\ UNCHANGED <<cpc, cexit>>
  /\ UNCHANGED <<ciphertextFile, decryptedFile, keyLen, cpass, cdec, cpos, cok, cut>>

CDecryptByte ==
  /\ cpc = "decrypt" /\ CMore
  /\ cdec' = [cdec EXCEPT ![ci + 1] = XorByte(cenc, ci, CKeyLen)]
  /\ ci' = ci + 1
  /\ UNCHANGED <<ciphertextFile, decryptedFile, cpc, cexit, keyLen, cpass, cenc, cpos, cok, cut>>

(* The byte loop ends and the function is called again, or not.            *)
CPass ==
  /\ cpc \in {"encrypt", "decrypt"} /\ ~CMore
  /\ ci' = 0
  /\ IF cpass + 1 < Passes
     THEN cpass' = cpass + 1 /\ UNCHANGED cpc
     ELSE /\ cpass' = 0
          /\ cpc' = IF cpc = "encrypt" THEN "open ciphertext" ELSE "open decrypted"
  /\ UNCHANGED <<ciphertextFile, decryptedFile, cexit, keyLen, cenc, cdec, cpos, cok, cut>>

(* fopen(.., "wb") empties the file.                                       *)
COpen ==
  /\ cpos' = 0
  /\ \/ /\ cpc = "open ciphertext" /\ cpc' = "write ciphertext"
        /\ ciphertextFile' = <<>> /\ UNCHANGED decryptedFile
     \/ /\ cpc = "open decrypted" /\ cpc' = "write decrypted"
        /\ decryptedFile' = <<>> /\ UNCHANGED ciphertextFile
  /\ UNCHANGED <<cexit, keyLen, ci, cpass, cenc, cdec, cok, cut>>

(* The result of fopen is not looked at when a file is to be written.      *)
COpenFails ==
  /\ cpc \in {"open ciphertext", "open decrypted"}
  /\ CExit("killed")
  /\ UNCHANGED <<ciphertextFile, decryptedFile, keyLen, ci, cpass, cenc, cdec, cpos, cok, cut>>

(* fwrite and fclose hand the buffer over in parts of any size.            *)
CWrite ==
  /\ \/ /\ cpc = "write ciphertext"
        /\ \E n \in cpos + 1 .. Len(cenc) :
             cpos' = n /\ ciphertextFile' = Written(ciphertextFile, cenc, cpos, n)
        /\ UNCHANGED decryptedFile
     \/ /\ cpc = "write decrypted"
        /\ \E n \in cpos + 1 .. Len(cdec) :
             cpos' = n /\ decryptedFile' = Written(decryptedFile, cdec, cpos, n)
        /\ UNCHANGED ciphertextFile
  /\ UNCHANGED <<cpc, cexit, keyLen, ci, cpass, cenc, cdec, cok, cut>>

(* Their results are not looked at: a write that is cut short passes for a *)
(* whole one.                                                              *)
CCloseCiphertext ==
  /\ cpc = "write ciphertext"
  /\ cut' = (cut \/ cpos < Len(cenc))
  /\ cpc' = "decrypt"
  /\ UNCHANGED <<ciphertextFile, decryptedFile, cexit, keyLen, ci, cpass, cenc, cdec, cpos, cok>>

(* After the file is written the buffers are compared, and 0 is returned   *)
(* whatever the result.                                                    *)
CCloseDecrypted ==
  /\ cpc = "write decrypted"
  /\ cut' = (cut \/ cpos < Len(cdec))
  /\ cok' = (cdec = inputFile)
  /\ CExit("0")
  /\ UNCHANGED <<ciphertextFile, decryptedFile, keyLen, ci, cpass, cenc, cdec, cpos>>

CNext ==
  /\ \/ CReadFails \/ CRead \/ CStrip \/ CEncryptByte \/ CDecryptByte \/ CPass
     \/ COpen \/ COpenFails \/ CWrite \/ CCloseCiphertext \/ CCloseDecrypted
  /\ UNCHANGED <<inputFile, keyFile>>
=============================================================================
