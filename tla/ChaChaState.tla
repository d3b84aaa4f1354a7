---------------------------- MODULE ChaChaState ----------------------------
(***************************************************************************)
(* The values of the ChaCha20 modules: sessions, state words, and the      *)
(* keystream as a function of the session.                                 *)
(*                                                                         *)
(* A keystream block is named by the 16-word state it is generated from,   *)
(* so two blocks are equal exactly when their inputs are.                  *)
(***************************************************************************)
EXTENDS Integers

CONSTANTS
  Keys,      (* Keys, with the key length and the constants it selects.     *)
  Tails,     (* Values of state words 14 and 15, the last two nonce words.  *)
  W,         (* Modulus of a state word; 2^32 in the code.                  *)
  BlockLen,  (* Bytes of a keystream block; 64 in the code.                 *)
  NoByte     (* Not a keystream byte: nothing produced yet.                 *)

ASSUME WAssumption == W \in Nat \ {0}
ASSUME BlockLenAssumption == BlockLen \in Nat \ {0}

Word == 0 .. W-1

(***************************************************************************)
(* A session is what a caller hands to init.  A 12-byte nonce has a word   *)
(* (nonce0) more than an 8-byte one; the counter argument has two words.   *)
(***************************************************************************)
Sessions ==
  {s \in [key : Keys, tail : Tails, nonce0 : Word, iv_length : {8, 12},
          counter : 0 .. W*W-1] : s.iv_length = 8 => s.nonce0 = 0}

(* The state words a block is generated from; the key words and the last   *)
(* two nonce words are single values.                                      *)
Inputs == [key : Keys, tail : Tails, w12 : Word, w13 : Word]

(* How many blocks a session has before its counter returns to its start.  *)
CounterSpace(s) == IF s.iv_length = 8 THEN W*W ELSE W

(* The input of block b of session s: the counter is 32 bits wide next to  *)
(* a 12-byte nonce and 64 bits wide next to an 8-byte one.                 *)
BlockInput(s, b) ==
  LET c == (s.counter + b) % CounterSpace(s)
  IN  [key  |-> s.key, tail |-> s.tail,
       w12  |-> c % W,
       w13  |-> IF s.iv_length = 8 THEN c \div W ELSE s.nonce0]

(* The keystream byte at position p of session s.                          *)
ByteAt(s, p) ==
  [block |-> BlockInput(s, p \div BlockLen), off |-> p % BlockLen]
=============================================================================
