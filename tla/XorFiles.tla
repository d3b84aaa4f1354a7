------------------------------ MODULE XorFiles ------------------------------
(***************************************************************************)
(* What the two benchmark programs of xor/ share: the input file they are  *)
(* given, the key file, and the two files that both of them write, by the  *)
(* same names.                                                             *)
(***************************************************************************)
EXTENDS Integers, Sequences

CONSTANTS
  Byte,
  XOR(_, _),
  Eol,                (* The bytes \n and \r.                               *)
  Zero,               (* What is read of a file where nothing was written.  *)
  Missing,            (* A file that cannot be opened.                      *)
  Inputs, KeyFiles,   (* The files considered, Missing among them.          *)
  Passes,             (* How often each program encrypts and decrypts: 10.  *)
  Junk                (* Bytes that a new buffer may be full of.            *)

ASSUME XorAssumption ==
  \A x, y \in Byte : XOR(x, y) \in Byte /\ XOR(XOR(x, y), y) = x
ASSUME EolAssumption == Eol \subseteq Byte /\ Junk \subseteq Byte
ASSUME ZeroAssumption == Zero \in Byte
ASSUME PassesAssumption == Passes \in Nat \ {0}
ASSUME FilesAssumption ==
  /\ Inputs \cup KeyFiles \subseteq Seq(Byte) \cup {Missing}
  /\ Missing \notin Seq(Byte)

VARIABLES
  inputFile, keyFile,              (* The argument and key.txt.             *)
  ciphertextFile, decryptedFile    (* ciphertext.bin and decrypted.txt.     *)

FilesInit ==
  /\ inputFile \in Inputs /\ keyFile \in KeyFiles
  /\ ciphertextFile = Missing /\ decryptedFile = Missing

(* Bug: with room for a byte after the last.                               *)
Fresh_OneMore(n, y) == [p \in 1 .. n + 1 |-> y]

(* A buffer of n bytes as it is allocated.                                 *)
Fresh(n, y) == [p \in 1 .. n |-> y]

(* What a file holds after the bytes from + 1 to to have gone to their     *)
(* places.  A program emptied it when it opened it, but the other one may  *)
(* have written since, or emptied it again: then the places before from    *)
(* are a hole, as each program keeps an offset of its own.                 *)
Written(file, bytes, from, to) ==
  [p \in DOMAIN file \cup 1 .. to |->
     IF p \in from + 1 .. to THEN bytes[p] ELSE IF p \in DOMAIN file THEN file[p] ELSE Zero]

(* Byte p of the cipher with a key of n bytes: output[i], i from 0.        *)
XorByte(bytes, i, n) == XOR(bytes[i + 1], keyFile[(i % n) + 1])
=============================================================================
