---------------------------- MODULE XorBenchmark ----------------------------
(***************************************************************************)
(* The two programs of xor/ on the same files.  The scripts run them one   *)
(* after the other, but nothing keeps them apart: here their steps         *)
(* interleave, and they write over each other's output files.              *)
(***************************************************************************)
EXTENDS XorC, XorOCaml

vars == <<inputFile, keyFile, ciphertextFile, decryptedFile, cvars, ovars>>

Init == FilesInit /\ CInit /\ OInit

Next ==
  \/ CNext /\ UNCHANGED ovars
  \/ ONext /\ UNCHANGED cvars

Spec == Init /\ [][Next]_vars

-----------------------------------------------------------------------------
CpcStates == {"read", "strip", "encrypt", "open ciphertext", "write ciphertext",
              "decrypt", "open decrypted", "write decrypted", "exit"}

(* Types; no byte loop leaves its buffers or the key, and no write its     *)
(* buffer.                                                                 *)
TypeOK ==
  /\ inputFile \in Inputs /\ keyFile \in KeyFiles
  /\ {ciphertextFile, decryptedFile} \subseteq Seq(Byte) \cup {Missing}
  /\ cpc \in CpcStates /\ cexit \in {"running", "0", "1", "killed"}
  /\ cpass \in 0 .. Passes-1 /\ {cok, cut} \subseteq BOOLEAN
  /\ cpc \notin {"read", "exit"} =>
       /\ inputFile # Missing /\ keyFile # Missing
       /\ keyLen \in 0 .. Len(keyFile) /\ ci \in 0 .. Len(inputFile)
  /\ cpc \notin {"read", "strip", "exit"} =>
       /\ keyLen > 0 /\ CKeyLen <= keyLen
       /\ cenc \in [1 .. Len(inputFile) -> Byte]
       /\ cdec \in [1 .. Len(inputFile) -> Byte]
  /\ cpc \in {"write ciphertext", "write decrypted"} => cpos \in 0 .. Len(inputFile)
  /\ opc \in CpcStates \ {"strip"} /\ oexit \in {"running", "0", "2"}
  /\ opass \in 0 .. Passes-1 /\ ook \in BOOLEAN
  /\ opc \notin {"read", "exit"} =>
       /\ inputFile # Missing /\ keyFile # Missing
       /\ output \in [1 .. Len(inputFile) -> Byte]
       /\ oi \in 0 .. Len(output)
  /\ opc \in {"write ciphertext", "write decrypted"} => opos \in 0 .. Len(inputFile)

(* What the C program strips of the key file is the end of lines at its    *)
(* end, all of them and nothing else.                                      *)
KeyStripped ==
  /\ cpc \notin {"read", "exit"} =>
       \A n \in keyLen + 1 .. Len(keyFile) : keyFile[n] \in Eol
  /\ cpc \notin {"read", "strip", "exit"} => keyFile[keyLen] \notin Eol

(* The first m bytes of out are those of bytes, xored with the first n     *)
(* bytes of the key file over and over.                                    *)
XoredUpTo(out, m, bytes, n) == \A i \in 0 .. m-1 : out[i + 1] = XorByte(bytes, i, n)
SameUpTo(out, m, bytes) == \A i \in 0 .. m-1 : out[i + 1] = bytes[i + 1]

(* How far the C program's buffers are filled: from the second pass on as  *)
(* far as the length of the message goes, taken as an int.                 *)
CWritten(calls) ==
  IF cpc = calls /\ cpass = 0 THEN ci ELSE ToInt(Len(inputFile))
CHasBuffers == cpc \notin {"read", "strip"} /\ cexit \in {"running", "0"}
CHasDecrypted == CHasBuffers /\ cpc \notin {"encrypt", "open ciphertext", "write ciphertext"}

(* The same for the OCaml program, which keeps what a pass has made.       *)
OEncrypted ==
  \/ opc \in {"open ciphertext", "write ciphertext", "decrypt"}
  \/ opc \in {"open decrypted", "write decrypted"} \/ oexit = "0"
  \/ opc = "encrypt" /\ opass > 0
ODecrypted ==
  \/ opc \in {"open decrypted", "write decrypted"} \/ oexit = "0"
  \/ opc = "decrypt" /\ opass > 0

(* Every pass makes the same ciphertext of the message, as far as it gets, *)
(* and the message of the ciphertext: no pass works on the result of the   *)
(* one before.                                                             *)
PassesRepeat ==
  /\ CHasBuffers => XoredUpTo(cenc, CWritten("encrypt"), inputFile, CKeyLen)
  /\ CHasDecrypted => SameUpTo(cdec, CWritten("decrypt"), inputFile)
  /\ opc = "encrypt" => XoredUpTo(output, oi, inputFile, Len(keyFile))
  /\ opc = "decrypt" => SameUpTo(output, oi, inputFile)
  /\ OEncrypted => /\ Len(oenc) = Len(inputFile)
                   /\ XoredUpTo(oenc, Len(oenc), inputFile, Len(keyFile))
  /\ ODecrypted => odec = inputFile

(* If the lengths fit an int, a verification that is come to passes: a     *)
(* wrong verdict would mean a wrong cipher.  No verification is come to    *)
(* with a key of no bytes: the C program refuses it, the OCaml program     *)
(* divides by zero, unless the message is empty as well.                   *)
Fits == Len(inputFile) <= IntMax /\ Len(keyFile) <= IntMax
Verified ==
  /\ cexit = "0" => keyLen > 0 /\ (Fits => cok)
  /\ oexit = "0" => ook /\ (keyFile = <<>> => inputFile = <<>>)

(* What may be left of a text in a file: all of it, its beginning, or all  *)
(* of it but for one hole.                                                 *)
Beginning(file, text) ==
  Len(file) <= Len(text) /\ \A p \in 1 .. Len(file) : file[p] = text[p]
Holed(file, text) ==
  /\ Len(file) = Len(text)
  /\ \E a, b \in 0 .. Len(text) :
       \A p \in 1 .. Len(text) : file[p] = IF p \in a + 1 .. b THEN Zero ELSE text[p]

(* The C program's encryption is that of the OCaml program, if the key     *)
(* file does not end with an end of line.  However their steps and the     *)
(* parts of their writes interleave, the files hold it whole at the end,   *)
(* unless a write of the C program was cut short.  Then what is left is    *)
(* the beginning, or, if the C program emptied a file that the OCaml       *)
(* program was writing, the text with one hole between the two.            *)
PlainKey == keyFile # <<>> /\ keyFile[Len(keyFile)] \notin Eol
FilesAgree ==
  cexit = "0" /\ oexit = "0" /\ Fits /\ PlainKey =>
    /\ cenc = oenc
    /\ Beginning(ciphertextFile, oenc) \/ Holed(ciphertextFile, oenc)
    /\ Beginning(decryptedFile, inputFile) \/ Holed(decryptedFile, inputFile)
    /\ ~cut => ciphertextFile = oenc /\ decryptedFile = inputFile

(* Both implementations use the same key and produce the same outputs, as  *)
(* xor/BENCHMARK.md:116 has it.  Violated by a key file that ends with an  *)
(* end of line: the C program leaves it out of the key, the OCaml program  *)
(* does not.                                                               *)
SameOutputs == cexit = "0" /\ oexit = "0" /\ Fits => cenc = oenc
=============================================================================
