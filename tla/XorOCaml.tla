------------------------------ MODULE XorOCaml ------------------------------
(***************************************************************************)
(* xor/ocaml/benchmark.ml with xor_encrypt and xor_decrypt of xor.ml: the  *)
(* key is the whole key file, every pass makes a new buffer, and what      *)
(* fails raises an exception that nobody handles.                          *)
(***************************************************************************)
EXTENDS XorFiles

VARIABLES
  opc, oexit,    (* As for the C program.                                   *)
  oi, opass,     (* The counters of the two loops.                          *)
  output,        (* The buffer of the pass in progress.                     *)
  oenc, odec,    (* !encrypted and !decrypted.                              *)
  opos,          (* How much of a buffer is in its file, as for C.          *)
  ook            (* ok.                                                     *)

ovars == <<opc, oexit, oi, opass, output, oenc, odec, opos, ook>>

OInit ==
  /\ opc = "read" /\ oexit = "running"
  /\ oi = 0 /\ opass = 0
  /\ output = <<>> /\ oenc = <<>> /\ odec = <<>> /\ opos = 0
  /\ ook = FALSE

OExit(status) == opc' = "exit" /\ oexit' = status

(* Sys_error, End_of_file or, for an empty key, Division_by_zero.  A write *)
(* may fail at any byte, and after the last one when the file is closed.   *)
ORaises ==
  /\ \/ opc \in {"read", "open ciphertext", "write ciphertext", "open decrypted",
                 "write decrypted"}
     \/ opc = "encrypt" /\ oi < Len(output) /\ keyFile = <<>>
  /\ OExit("2")
  /\ UNCHANGED <<ciphertextFile, decryptedFile, oi, opass, output, oenc, odec, opos, ook>>

(* Bytes.create of the first pass is part of what comes before it.         *)
Create(n) == \E y \in Junk : output' = Fresh(n, y)

ORead ==
  /\ opc = "read" /\ inputFile # Missing /\ keyFile # Missing
  /\ Create(Len(inputFile))
  /\ opc' = "encrypt"
  /\ UNCHANGED <<ciphertextFile, decryptedFile, oexit, oi, opass, oenc, odec, opos, ook>>

(* Byte oi of the buffer.                                                  *)
OByte ==
  /\ opc \in {"encrypt", "decrypt"} /\ keyFile # <<>>
  /\ oi < Len(output)
  /\ output' = [output EXCEPT ![oi + 1] =
                  XorByte(IF opc = "encrypt" THEN inputFile ELSE oenc, oi, Len(keyFile))]
  /\ oi' = oi + 1
  /\ UNCHANGED <<ciphertextFile, decryptedFile, opc, oexit, opass, oenc, odec, opos, ook>>

(* The result of a pass replaces that of the one before.                   *)
OPass ==
  /\ opc \in {"encrypt", "decrypt"} /\ oi = Len(output)
  /\ IF opc = "encrypt" THEN oenc' = output /\ UNCHANGED odec
                        ELSE odec' = output /\ UNCHANGED oenc
  /\ oi' = 0
  /\ Create(Len(inputFile))
  /\ IF opass + 1 < Passes
     THEN opass' = opass + 1 /\ UNCHANGED opc
     ELSE /\ opass' = 0
          /\ opc' = IF opc = "encrypt" THEN "open ciphertext" ELSE "open decrypted"
  /\ UNCHANGED <<ciphertextFile, decryptedFile, oexit, opos, ook>>

(* Bug: the buffer in place of what it is kept in.                         *)
Encrypted_Output == output

(* !encrypted                                                              *)
Encrypted == oenc

(* open_out_bin empties the file.                                          *)
OOpen ==
  /\ opos' = 0
  /\ \/ /\ opc = "open ciphertext" /\ opc' = "write ciphertext"
        /\ ciphertextFile' = <<>> /\ UNCHANGED decryptedFile
     \/ /\ opc = "open decrypted" /\ opc' = "write decrypted"
        /\ decryptedFile' = <<>> /\ UNCHANGED ciphertextFile
  /\ UNCHANGED <<oexit, oi, opass, output, oenc, odec, ook>>

(* output_bytes and close_out flush the channel, one part after another.   *)
OWrite ==
  /\ \/ /\ opc = "write ciphertext"
        /\ \E n \in opos + 1 .. Len(Encrypted) :
             opos' = n /\ ciphertextFile' = Written(ciphertextFile, Encrypted, opos, n)
        /\ UNCHANGED decryptedFile
     \/ /\ opc = "write decrypted"
        /\ \E n \in opos + 1 .. Len(odec) :
             opos' = n /\ decryptedFile' = Written(decryptedFile, odec, opos, n)
        /\ UNCHANGED ciphertextFile
  /\ UNCHANGED <<opc, oexit, oi, opass, output, oenc, odec, ook>>

(* What goes on has written everything; at the end the buffers are         *)
(* compared, and the exit status is 0 whatever the result.                 *)
OClose ==
  /\ \/ /\ opc = "write ciphertext" /\ opos = Len(Encrypted)
        /\ opc' = "decrypt" /\ UNCHANGED <<oexit, ook>>
     \/ /\ opc = "write decrypted" /\ opos = Len(odec)
        /\ ook' = (odec = inputFile) /\ OExit("0")
  /\ UNCHANGED <<ciphertextFile, decryptedFile, oi, opass, output, oenc, odec, opos>>

ONext ==
  /\ \/ ORaises \/ ORead \/ OByte \/ OPass \/ OOpen \/ OWrite \/ OClose
  /\ UNCHANGED <<inputFile, keyFile>>
=============================================================================
