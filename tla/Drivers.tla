------------------------------- MODULE Drivers ------------------------------
(***************************************************************************)
(* What the benchmark programs of aes-128/, rijndael/, aes-ni/ and         *)
(* chacha20/ have in common.  A file is its length, a byte is where it     *)
(* comes from; what a cipher makes of bytes is a term.                     *)
(***************************************************************************)
EXTENDS Integers, Sequences, FiniteSetsExt

CONSTANTS
  Missing,       (* The length of a file that is not there.                 *)
  NoFault,       (* No part of the cipher is wrong.                         *)
  BlockLen,      (* 16, the bytes of an AES block.                          *)
  KeyLen,        (* 16, the bytes of an AES-128 key; ChaCha20 takes two.    *)
  StreamLen,     (* 64, the bytes of a ChaCha20 block.                      *)
  NonceLen,      (* 12.                                                     *)
  ShortNonce,    (* 8.                                                      *)
  InputLens, KeyLens, NonceLens,   (* The lengths of files to try.          *)
  Junk           (* The values of memory nobody has written.                *)

ASSUME DriversAssumption ==
  /\ {BlockLen, KeyLen, StreamLen, NonceLen, ShortNonce} \subseteq Nat \ {0}
  /\ ShortNonce < NonceLen
  /\ InputLens \cup KeyLens \cup NonceLens \subseteq Nat \cup {Missing}
  /\ Missing \notin Nat /\ NoFault \notin Nat

VARIABLES
  prog,          (* Which program runs.                                     *)
  inputLen, keyLen, nonceLen,      (* The files it is given.                *)
  fault,         (* The byte at which decryption by blocks goes wrong; for  *)
                 (* a stream cipher anything but NoFault is a wrong block   *)
                 (* function.                                               *)
  pc, status, printed,
  message, encrypted, decrypted,   (* Its buffers, empty before they exist. *)
  key,           (* The key it has read or holds.                           *)
  ctx,           (* The cipher context of a stream cipher.                  *)
  pos            (* The blocks done by the loop that runs.                  *)

files == <<prog, inputLen, keyLen, nonceLen, fault>>
buffers == <<message, encrypted, decrypted, key, ctx, pos>>
vars == <<files, pc, status, printed, buffers>>

BlockPrograms ==
  {"aes-128 C", "aes-128 OCaml", "rijndael C", "rijndael OCaml",
   "rijndael OCaml opt", "aes-ni C", "aes-ni OxCaml"}
StreamPrograms ==
  {"chacha20 C", "chacha20 C SIMD", "chacha20 OCaml", "chacha20 OxCaml"}
CPrograms ==
  {"aes-128 C", "rijndael C", "aes-ni C", "chacha20 C", "chacha20 C SIMD"}

FileByte(p) == <<"file", p>>
KeyByte(p) == <<"key", p>>
NonceByte(p) == <<"nonce", p>>
JunkByte(y) == <<"junk", y>>
Unset == JunkByte("malloc")

DriversInit ==
  /\ inputLen \in InputLens
  /\ pc = "start" /\ status = "running" /\ printed = "nothing"
  /\ message = <<>> /\ encrypted = <<>> /\ decrypted = <<>>
  /\ key = <<>> /\ ctx = <<>> /\ pos = 0

Goto(place) == pc' = place /\ UNCHANGED <<status, printed>>
Exit(code, report) == pc' = "exit" /\ status' = code /\ printed' = report

(* What the C programs return when something fails that they look at, and  *)
(* the status of an OCaml program that does not catch an exception.        *)
FailStatus == IF prog \in CPrograms THEN "1" ELSE "2"

(* These compare a block with the vector of the RFC before anything else.  *)
SelfTesting == {"chacha20 C SIMD", "chacha20 OxCaml"}

SelfTest ==
  /\ pc = "start"
  /\ IF prog \in SelfTesting /\ fault # NoFault
     THEN Exit("1", "nothing")
     ELSE Goto("arguments")
  /\ UNCHANGED <<files, buffers>>

(* The wrong number of arguments.                                          *)
Usage ==
  /\ pc = "arguments"
  /\ Exit("1", "nothing")
  /\ UNCHANGED <<files, buffers>>

Arguments ==
  /\ pc = "arguments"
  /\ Goto(IF prog \in {"aes-ni C", "aes-ni OxCaml"} THEN "cpu" ELSE "input")
  /\ UNCHANGED <<files, buffers>>

KeyFromFile ==
  {"aes-128 C", "aes-128 OCaml", "rijndael C", "rijndael OCaml opt"}
    \cup StreamPrograms

(* These ask for the last buffer when encryption is done.                  *)
AllocatesLate == {"rijndael OCaml", "rijndael OCaml opt", "chacha20 OxCaml"}

(* A file cannot be opened or read, or memory is refused, and the program  *)
(* notices.                                                                *)
Fails ==
  /\ \/ pc \in {"input", "nonce", "allocate"}
     \/ pc = "key" /\ prog \in KeyFromFile
     \/ pc = "decrypt" /\ pos = 0 /\ prog \in AllocatesLate
  /\ Exit(FailStatus, "nothing")
  /\ UNCHANGED <<files, buffers>>

Allocate(buffer, next) ==
  /\ pc = "allocate"
  /\ encrypted' = buffer /\ decrypted' = buffer
  /\ Goto(next)
  /\ UNCHANGED <<files, message, key, ctx, pos>>

(* What was decrypted is compared with as many bytes of the message as     *)
(* were read.                                                              *)
Intact ==
  /\ inputLen # Missing
  /\ Len(message) >= inputLen /\ Len(decrypted) >= inputLen
  /\ \A p \in 1 .. inputLen : decrypted[p] = message[p]

(* How a program reports, in the words of DriverRun.                       *)
Verdict ==
  CASE prog \in {"rijndael OCaml opt", "aes-ni OxCaml"} -> "status"
    [] prog = "rijndael OCaml" -> "none"
    [] OTHER -> "printed"

(* Bug: the times of a failed verification are printed all the same.       *)
Verify_AndGoOn ==
  /\ pc = "verify"
  /\ IF Verdict = "printed"
     THEN Exit("0", IF Intact THEN "PASSED" ELSE "FAILED")
     ELSE Exit("0", "times")
  /\ UNCHANGED <<files, buffers>>

Verify ==
  /\ pc = "verify"
  /\ CASE Verdict = "printed" -> Exit("0", IF Intact THEN "PASSED" ELSE "FAILED")
       [] Verdict = "status" /\ ~Intact -> Exit("1", "nothing")
       [] OTHER -> Exit("0", "times")
  /\ UNCHANGED <<files, buffers>>

DriversNext == SelfTest \/ Usage \/ Arguments \/ Fails \/ Verify
=============================================================================
