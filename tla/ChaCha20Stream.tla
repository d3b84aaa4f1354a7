-------------------------- MODULE ChaCha20Stream --------------------------
(***************************************************************************)
(* The streaming ChaCha20 of chacha20/c/chacha20.c: one context, and the   *)
(* calls chacha20_init, chacha20_transform and chacha20_extract on it.     *)
(* chacha20/ocaml/chacha20.ml and chacha20/c_simd/chacha20_simd.c have the *)
(* same control (the first also has create, which is Init here; the second *)
(* another block function, see ChaCha20Block).                             *)
(*                                                                         *)
(* The hard part is the cursor: a call keeps ctx->next in a local n,       *)
(* refills the 64-byte buffer in the middle of a call when n reaches the   *)
(* end, and leaves what it did not use to the next call.  The block        *)
(* function advances the counter of the input it has just used, with a     *)
(* carry into word 13 for 8-byte nonces only (next to a 12-byte nonce      *)
(* word 13 is a nonce word).                                               *)
(***************************************************************************)
EXTENDS Sequences, ChaChaState

CONSTANTS
  ZeroKey, ZeroTail,  (* The key and nonce words of a created OCaml context. *)
  NoBlock,            (* The buffer before the first block.                  *)
  MaxCall,            (* Bound: the longest call.                            *)
  MaxPos              (* Bound: the most bytes of a session.                 *)

ASSUME ZeroAssumption == ZeroKey \in Keys /\ ZeroTail \in Tails
ASSUME BoundAssumption == MaxCall \in Nat /\ MaxPos \in Nat

VARIABLES
  session,    (* History: the arguments of the last init.                    *)
  pos,        (* History: the bytes produced since.                          *)
  last,       (* The last keystream byte produced, or NoByte.                *)
  input,      (* ctx->input: the state words of the next block.              *)
  output,     (* ctx->output: the input of the block it holds, or NoBlock.   *)
  next,       (* ctx->next: index of the next unused byte of output.         *)
  iv_length,  (* ctx->iv_length.                                             *)
  pc,         (* "idle", or the call in progress.                            *)
  n,          (* Local of the call: its copy of next.                        *)
  len,        (* Local of the call: bytes still to produce.                  *)
  blocks      (* History: the inputs of the blocks this session generated.   *)

ctx == <<input, output, next, iv_length>>
locals == <<n, len>>
vars == <<session, pos, last, input, output, next, iv_length, pc, n, len, blocks>>

(***************************************************************************)
(* The context that create () returns in OCaml: all words zero, no byte of *)
(* the (zeroed) buffer usable, iv_length 12.  The C programs never use a   *)
(* context before chacha20_init has filled it.                             *)
(***************************************************************************)
Init ==
  /\ session = [key |-> ZeroKey, tail |-> ZeroTail, nonce0 |-> 0,
                iv_length |-> 12, counter |-> 0]
  /\ pos = 0 /\ last = NoByte
  /\ input = [key |-> ZeroKey, tail |-> ZeroTail, w12 |-> 0, w13 |-> 0]
  /\ output = NoBlock
  /\ next = BlockLen
  /\ iv_length = 12
  /\ pc = "idle" /\ n = 0 /\ len = 0
  /\ blocks = <<>>

-----------------------------------------------------------------------------
(* chacha20_init: (uint32_t) counter into word 12; for an 8-byte nonce the *)
(* high half of the counter into word 13, otherwise the first nonce word.  *)
KeySetup(s) ==
  [key |-> s.key, tail |-> s.tail,
   w12 |-> s.counter % W,
   w13 |-> IF s.iv_length = 8 THEN s.counter \div W ELSE s.nonce0]

(* Bug: a context is re-keyed without dropping the buffered block.         *)
ForgetBuffer_Kept(nxt) == nxt

(* ctx->next = 64: the buffered bytes belong to the previous session.      *)
ForgetBuffer(nxt) == BlockLen

(* Every key sets the constant words, which are zero in a created context. *)
Arguments == {s \in Sessions : s.key # ZeroKey}

chacha20_init(s) ==
  /\ pc = "idle"
  /\ input' = KeySetup(s)
  /\ iv_length' = s.iv_length
  /\ next' = ForgetBuffer(next)
  /\ session' = s /\ pos' = 0 /\ last' = NoByte /\ blocks' = <<>>
  /\ UNCHANGED <<output, pc, locals>>

-----------------------------------------------------------------------------
(* Bugs of the counter: the carry taken next to any nonce, or never.       *)
Increment_CarryAlways(in, ivlen) ==
  LET w == (in.w12 + 1) % W
  IN  [in EXCEPT !.w12 = w, !.w13 = IF w = 0 THEN (@ + 1) % W ELSE @]
Increment_NoCarry(in, ivlen) == [in EXCEPT !.w12 = (@ + 1) % W]

(* if (++ctx->input[12] == 0) if (ctx->iv_length == 8) ++ctx->input[13].   *)
Increment(in, ivlen) ==
  LET w == (in.w12 + 1) % W
  IN  [in EXCEPT !.w12 = w,
                 !.w13 = IF w = 0 /\ ivlen = 8 THEN (@ + 1) % W ELSE @]

(* chacha20_block: fill the buffer from the input, then count.             *)
chacha20_block ==
  /\ output' = input
  /\ input' = Increment(input, iv_length)
  /\ blocks' = Append(blocks, input)

(* A call reads the cursor into its local and loops over its len bytes.    *)
Call(op, l) ==
  /\ pc = "idle"
  /\ pos + l <= MaxPos
  /\ pc' = op
  /\ n' = next
  /\ len' = l
  /\ UNCHANGED <<session, pos, last, ctx, blocks>>

chacha20_transform == \E l \in 0 .. MaxCall : Call("transform", l)
chacha20_extract   == \E l \in 0 .. MaxCall : Call("extract", l)

(* *out++ = ctx->output[i], xored with *in++ by transform, and n is i+1.   *)
Produce(block, i) ==
  /\ last' = [block |-> block, off |-> i]
  /\ pos' = pos + 1
  /\ n' = i + 1
  /\ len' = len - 1
  /\ UNCHANGED <<session, next, iv_length, pc>>

(* Bug: the test for an empty buffer is off by one.                        *)
Exhausted_OffByOne(i) == i > BlockLen

(* if (n >= 64)                                                            *)
Exhausted(i) == i >= BlockLen

(* One iteration of the loop of transform and extract, with the buffer     *)
(* used up and with bytes left in it.                                      *)
FreshByte ==
  /\ pc # "idle" /\ len > 0 /\ Exhausted(n)
  /\ chacha20_block
  /\ Produce(input, 0)

BufferedByte ==
  /\ pc # "idle" /\ len > 0 /\ ~Exhausted(n)
  /\ Produce(output, n)
  /\ UNCHANGED <<input, output, blocks>>

(* Bug: the unsigned len is compared with >= 0, which it always is.        *)
Finished_Unsigned(l) == l < 0

(* The loop condition is len > 0.                                          *)
Finished(l) == l = 0

(* ctx->next = n.                                                          *)
Return ==
  /\ pc # "idle" /\ Finished(len)
  /\ next' = n
  /\ pc' = "idle"
  /\ UNCHANGED <<session, pos, last, input, output, iv_length, locals, blocks>>

Next ==
  \/ \E s \in Arguments : chacha20_init(s)
  \/ chacha20_transform
  \/ chacha20_extract
  \/ FreshByte
  \/ BufferedByte
  \/ Return

(* A call runs until it returns: the program is sequential.                *)
Spec == Init /\ [][Next]_vars /\ WF_vars(FreshByte \/ BufferedByte \/ Return)

-----------------------------------------------------------------------------
(* Types; in particular every byte of the buffer that a call reads is      *)
(* inside the 64 bytes of ctx->output.                                     *)
Blocks == Inputs \cup {NoBlock}
TypeOK ==
  /\ session \in Sessions
  /\ pos \in 0 .. MaxPos
  /\ last \in [block : Inputs, off : 0 .. BlockLen-1] \cup {NoByte}
  /\ input \in Inputs
  /\ output \in Blocks
  /\ next \in 0 .. BlockLen
  /\ iv_length \in {8, 12}
  /\ pc \in {"idle", "transform", "extract"}
  /\ n \in 0 .. BlockLen
  /\ len \in 0 .. MaxCall
  /\ blocks \in Seq(Inputs)

(* Where the next byte comes from: the local n during a call, ctx->next    *)
(* between calls.                                                          *)
Cursor == IF pc = "idle" THEN next ELSE n

(* The session's blocks are generated in order, from the block its counter *)
(* argument names on, and the input is always the one of the next block.   *)
CounterInSync ==
  /\ iv_length = session.iv_length
  /\ input = BlockInput(session, Len(blocks))
  /\ \A i \in 1 .. Len(blocks) : blocks[i] = BlockInput(session, i-1)

(* The bytes produced are the blocks generated less what is still in the   *)
(* buffer, and the buffer holds the last block of this session: a block    *)
(* left over from before init is never read.                               *)
BufferInSync ==
  /\ pos + (BlockLen - Cursor) = Len(blocks) * BlockLen
  /\ Cursor < BlockLen => Len(blocks) > 0
  /\ Len(blocks) > 0 => output = blocks[Len(blocks)]

(* A call in progress ends inside the bound it was admitted with.          *)
CallInBounds == pc # "idle" => pos + len <= MaxPos

(* The cursor, the buffer and the counter of the context stay in step      *)
(* through every sequence of init, transform and extract.                  *)
StreamInv == CounterInSync /\ BufferInSync /\ CallInBounds

(* No keystream block is used twice in a session before its whole counter  *)
(* has gone round: 2^32 blocks next to a 12-byte nonce, 2^64 next to an    *)
(* 8-byte one, wherever in that range the session starts.                  *)
FullPeriod ==
  \A i, j \in 1 .. Len(blocks) :
    i < j /\ blocks[i] = blocks[j] => j - i >= CounterSpace(session)

(* The context is a position in a keystream: it refines Keystream, with    *)
(* the same sessions, positions and bytes.                                 *)
Abstract == INSTANCE Keystream
RefinesKeystream == Abstract!Spec

(* Every call of transform and extract returns.                            *)
CallReturns == pc # "idle" ~> pc = "idle"
=============================================================================
