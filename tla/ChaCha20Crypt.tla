--------------------------- MODULE ChaCha20Crypt ---------------------------
(***************************************************************************)
(* The one-shot ChaCha20 of chacha20/oxcaml_simd/chacha20_simd.ml, driven  *)
(* as benchmark_chacha20_simd.ml drives it: chacha20_crypt on a message,   *)
(* then chacha20_crypt with the same arguments on the result.              *)
(*                                                                         *)
(* chacha20_crypt has no context.  It cuts the message itself: len / 64    *)
(* whole blocks, each xored as four 16-byte vectors, then a tail of        *)
(* len land 63 bytes xored one by one, every block with a counter computed *)
(* from its index and cut to 32 bits.                                      *)
(*                                                                         *)
(* Xor is modelled by what it does to a byte: out[p] is the set of         *)
(* keystream bytes that are xored into the message byte at p, and xoring   *)
(* one that is there already takes it out.                                 *)
(***************************************************************************)
EXTENDS ChaChaState

CONSTANTS
  LaneLen,    (* Bytes of a vector; 16 in the code, a quarter of a block.   *)
  NoBlock,    (* No block generated yet.                                    *)
  MaxMsg      (* Bound: the longest message.                                *)

ASSUME LaneAssumption == LaneLen \in Nat \ {0} /\ BlockLen = 4 * LaneLen
ASSUME MsgAssumption == MaxMsg \in Nat

VARIABLES
  session,   (* The arguments of the call: key, nonce and initial_counter.  *)
  len,       (* Bytes.length msg.                                           *)
  out,       (* The result so far, see above; first a copy of msg.          *)
  ks,        (* The keystream block in use.                                 *)
  i,         (* Index of the block.                                         *)
  j,         (* Next vector of a whole block, next byte of the tail.        *)
  pc,        (* Where the call is.                                          *)
  phase      (* Which of the two calls of the driver.                       *)

vars == <<session, len, out, ks, i, j, pc, phase>>

(* This code takes 12-byte nonces only; the initial counter is a plain     *)
(* OCaml integer and may exceed a word.                                    *)
CryptSessions == {s \in Sessions : s.iv_length = 12}

(* Bug: the whole blocks are rounded up.                                   *)
nblocks_RoundedUp == (len + BlockLen - 1) \div BlockLen

(* len / 64 and len land 63.                                               *)
nblocks == len \div BlockLen
rem == len % BlockLen

Init ==
  /\ session \in CryptSessions
  /\ len \in 0 .. MaxMsg
  /\ out = [p \in 0 .. len-1 |-> {}]
  /\ ks = NoBlock
  /\ i = 0 /\ j = 0
  /\ pc = "block"
  /\ phase = "encrypt"

-----------------------------------------------------------------------------
(* counter land 0xFF, lsr 8 and so on: the low 32 bits.                    *)
CounterWord(c) == c % W

(* chacha20_block ~key ~nonce ~counter, by the state it starts from.       *)
chacha20_block(c) ==
  [key |-> session.key, tail |-> session.tail,
   w12 |-> CounterWord(c), w13 |-> session.nonce0]

(* vec_xor or lxor of the bytes of ks from index o on into out, for the    *)
(* count bytes from position p on.                                         *)
Xored(p, o, count) ==
  [q \in DOMAIN out |->
     IF q \in p .. p + count - 1
     THEN LET byte == [block |-> ks, off |-> o + (q - p)]
          IN  IF byte \in out[q] THEN out[q] \ {byte} ELSE out[q] \cup {byte}
     ELSE out[q]]

(* Top of the for loop over whole blocks.                                  *)
NextBlock ==
  /\ pc = "block" /\ i < nblocks
  /\ ks' = chacha20_block(session.counter + i)
  /\ j' = 0
  /\ pc' = "vectors"
  /\ UNCHANGED <<session, len, out, i, phase>>

(* Bug: the third vector is stored at the place of the second.             *)
LaneOffset_Repeated(l) == IF l = 2 THEN LaneLen ELSE l * LaneLen

(* base, base+16, base+32, base+48.                                        *)
LaneOffset(l) == l * LaneLen

(* store out (base+o) (vec_xor (load ks o) (load out (base+o))); after the *)
(* fourth the loop goes on with the next block.                            *)
XorVector ==
  /\ pc = "vectors"
  /\ out' = Xored(i * BlockLen + LaneOffset(j), LaneOffset(j), LaneLen)
  /\ IF j < 3 THEN j' = j + 1 /\ UNCHANGED <<i, pc>>
              ELSE j' = 0 /\ i' = i + 1 /\ pc' = "block"
  /\ UNCHANGED <<session, len, ks, phase>>

(* Bug: the tail reuses the counter of the last whole block.               *)
TailCounter_Last(nb) == session.counter + nb - 1

(* ~counter:(initial_counter + nblocks)                                    *)
TailCounter(nb) == session.counter + nb

(* After the loop: a last block if the length is no multiple of 64.        *)
Tail ==
  /\ pc = "block" /\ i = nblocks
  /\ IF rem > 0
     THEN ks' = chacha20_block(TailCounter(nblocks)) /\ pc' = "tail" /\ j' = 0
     ELSE pc' = "done" /\ UNCHANGED <<ks, j>>
  /\ UNCHANGED <<session, len, out, i, phase>>

TailByte ==
  /\ pc = "tail" /\ j < rem
  /\ out' = Xored(i * BlockLen + j, j, 1)
  /\ j' = j + 1
  /\ UNCHANGED <<session, len, ks, i, pc, phase>>

TailEnd ==
  /\ pc = "tail" /\ j = rem
  /\ pc' = "done"
  /\ UNCHANGED <<session, len, out, ks, i, j, phase>>

(* The driver decrypts by a second call on the result of the first.        *)
Decrypt ==
  /\ pc = "done" /\ phase = "encrypt"
  /\ pc' = "block" /\ i' = 0 /\ j' = 0
  /\ phase' = "decrypt"
  /\ UNCHANGED <<session, len, out, ks>>

(* The driver compares and reports; nothing more happens.                  *)
Finished ==
  /\ pc = "done" /\ phase = "decrypt"
  /\ UNCHANGED vars

Next ==
  \/ NextBlock \/ XorVector \/ Tail \/ TailByte \/ TailEnd \/ Decrypt
  \/ Finished

Spec == Init /\ [][Next]_vars

-----------------------------------------------------------------------------
(* Types.  The last conjunct: a vector that is stored lies in the message. *)
KeystreamBytes == [block : Inputs, off : 0 .. BlockLen-1]
TypeOK ==
  /\ session \in CryptSessions
  /\ len \in 0 .. MaxMsg
  /\ out \in [0 .. len-1 -> SUBSET KeystreamBytes]
  /\ ks \in Inputs \cup {NoBlock}
  /\ i \in 0 .. nblocks
  /\ j \in 0 .. BlockLen
  /\ pc \in {"block", "vectors", "tail", "done"}
  /\ phase \in {"encrypt", "decrypt"}
  /\ pc = "vectors" => j \in 0 .. 3 /\ i * BlockLen + (j + 1) * LaneLen <= len

(* The bytes this call has gone through are a prefix of the message.       *)
Frontier ==
  CASE pc = "block"   -> i * BlockLen
    [] pc = "vectors" -> i * BlockLen + j * LaneLen
    [] pc = "tail"    -> i * BlockLen + j
    [] pc = "done"    -> len

(* Up to the frontier every byte is xored with the one keystream byte of   *)
(* its position, beyond it with none; in the second call it is the other   *)
(* way round.  So whole blocks and tail meet without gap or overlap, and a *)
(* position gets the byte that the streaming cipher produces there.        *)
PrefixCrypted ==
  \A p \in DOMAIN out :
    out[p] = IF (p < Frontier) = (phase = "encrypt")
             THEN {ByteAt(session, p)} ELSE {}

(* The block in use is the one at the frontier.                            *)
BlockInUse ==
  pc \in {"vectors", "tail"} => ks = BlockInput(session, i)

(* Whole blocks come first, and the tail is what they leave.               *)
TailPlace ==
  /\ pc = "vectors" => i < nblocks
  /\ pc = "tail" => i = nblocks /\ j \in 0 .. rem
  /\ pc = "done" => i = nblocks

CryptInv == PrefixCrypted /\ BlockInUse /\ TailPlace

(* Encrypting is xoring with the keystream of the session, byte for byte,  *)
(* and decrypting what was encrypted gives the message back, for every     *)
(* length and every initial counter, those past 32 bits included.          *)
RoundTrip ==
  pc = "done" =>
    \A p \in DOMAIN out :
      out[p] = IF phase = "encrypt" THEN {ByteAt(session, p)} ELSE {}
=============================================================================
