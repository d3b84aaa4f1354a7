---------------------------- MODULE StreamDrivers ---------------------------
(***************************************************************************)
(* The benchmarks of the ChaCha20 implementations: read input, key and     *)
(* nonce, then initialise and transform twice.  The keystream is modelled  *)
(* in ChaCha20Stream and ChaCha20Crypt; here a byte of it is a term of the *)
(* session (key, nonce and width of the counter) and its place, and a byte *)
(* of a buffer is the set of the terms that are xored in it.               *)
(***************************************************************************)
EXTENDS Drivers

LongKey == 2 * KeyLen

(* All of the input is read, or the program fails.                         *)
ReadStream ==
  /\ pc = "input" /\ prog \in StreamPrograms /\ inputLen # Missing
  /\ message' = [p \in 1 .. inputLen |-> {FileByte(p)}]
  /\ Goto("key")
  /\ UNCHANGED <<files, encrypted, decrypted, key, ctx, pos>>

(* One program reads as many bytes as it needs and fails if there are      *)
(* fewer; the others take a file as long as it is.                         *)
ReadStreamKey ==
  /\ pc = "key" /\ prog \in StreamPrograms /\ keyLen # Missing
  /\ prog = "chacha20 C" => keyLen >= LongKey
  /\ Goto("nonce")
  /\ UNCHANGED <<files, buffers>>

ReadNonce ==
  /\ pc = "nonce" /\ nonceLen # Missing
  /\ prog = "chacha20 C" => nonceLen >= NonceLen
  /\ Goto("allocate")
  /\ UNCHANGED <<files, buffers>>

AllocateStream ==
  prog \in StreamPrograms /\ Allocate([p \in 1 .. inputLen |-> {Unset}], "init encrypt")

-----------------------------------------------------------------------------
(* Byte p of a file read into memory of its length: behind it is memory    *)
(* of others, and loads that are not checked get there.                    *)
Loaded(p, len, byte, y) == IF p <= len THEN byte ELSE JunkByte(y)

(* Which of the two constants, and whether there is a second half.         *)
IsLong == prog \in {"chacha20 C", "chacha20 OxCaml"} \/ keyLen = LongKey

(* Bug: the second half of a long key is not taken.                        *)
KeyPlace_FirstTwice(p) == ((p - 1) % KeyLen) + 1

(* The byte of the key file that byte p of the key in the state is.        *)
KeyPlace(p) == IF IsLong THEN p ELSE ((p - 1) % KeyLen) + 1

IsWide == prog \in {"chacha20 C SIMD", "chacha20 OCaml"} /\ nonceLen = ShortNonce

(* The state words that init makes, or that the OxCaml block function      *)
(* loads; y stands for the memory behind the files.                        *)
Session(y) ==
  [key   |-> [p \in 1 .. LongKey |->
                Loaded(KeyPlace(p), keyLen, KeyByte(KeyPlace(p)), y)],
   long  |-> IsLong,
   nonce |-> [p \in 1 .. (IF IsWide THEN ShortNonce ELSE NonceLen) |->
                Loaded(p, nonceLen, NonceByte(p), y)],
   wide  |-> IsWide]

(* The assertions of the C SIMD init; with NDEBUG they would be gone.      *)
Asserted ==
  prog = "chacha20 C SIMD" =>
    keyLen \in {KeyLen, LongKey} /\ nonceLen \in {ShortNonce, NonceLen}

(* Bug: before decryption the context is left where encryption ended.      *)
StartsAt_Left == IF pc = "init encrypt" THEN 0 ELSE ctx.at

(* The place in the keystream where a session starts.                      *)
StartsAt == 0

(* chacha20_init with counter 0, before either transform.  The OxCaml      *)
(* program has no context.                                                 *)
InitContext ==
  /\ pc \in {"init encrypt", "init decrypt"}
  /\ IF ~Asserted THEN Exit("killed", "nothing") /\ UNCHANGED ctx
     ELSE /\ Goto(IF pc = "init encrypt" THEN "encrypt" ELSE "decrypt")
          /\ IF prog = "chacha20 OxCaml" THEN UNCHANGED ctx
             ELSE \E y \in Junk : ctx' = [session |-> Session(y), at |-> StartsAt]
  /\ UNCHANGED <<files, message, encrypted, decrypted, key, pos>>

KeystreamByte(session, n) ==
  <<IF fault = NoFault THEN "chacha" ELSE "wrong", session, n>>

Toggle(byte, term) == (byte \ {term}) \cup ({term} \ byte)

(* The bytes from pos * StreamLen on, a block of them or what is left,     *)
(* xored with the keystream from byte at on.                               *)
Xored(dst, src, session, at) ==
  [p \in DOMAIN dst |->
     IF (p - 1) \div StreamLen = pos
     THEN Toggle(src[p], KeystreamByte(session, at + p - 1 - pos * StreamLen))
     ELSE dst[p]]

XorBlock(session, at) ==
  \/ /\ pc = "encrypt"
     /\ encrypted' = Xored(encrypted, message, session, at) /\ UNCHANGED decrypted
  \/ /\ pc = "decrypt"
     /\ decrypted' = Xored(decrypted, encrypted, session, at) /\ UNCHANGED encrypted

(* Of chacha20_transform a block.  The OxCaml chacha20_crypt computes the  *)
(* place and loads key and nonce anew for every block: key and input are   *)
(* not checked, the nonce is.                                              *)
TransformBlock ==
  /\ pc \in {"encrypt", "decrypt"} /\ prog \in StreamPrograms \ {"chacha20 OxCaml"}
  /\ pos * StreamLen < inputLen
  /\ XorBlock(ctx.session, ctx.at)
  /\ ctx' = [ctx EXCEPT !.at = @ + Min({StreamLen, inputLen - pos * StreamLen})]
  /\ pos' = pos + 1
  /\ UNCHANGED <<files, pc, status, printed, message, key>>

CryptBlock ==
  /\ pc \in {"encrypt", "decrypt"} /\ prog = "chacha20 OxCaml"
  /\ pos * StreamLen < inputLen
  /\ IF nonceLen < NonceLen
     THEN Exit("2", "nothing") /\ UNCHANGED <<encrypted, decrypted, pos>>
     ELSE /\ \E y \in Junk : XorBlock(Session(y), pos * StreamLen)
          /\ pos' = pos + 1
          /\ UNCHANGED <<pc, status, printed>>
  /\ UNCHANGED <<files, message, key, ctx>>

EndTransform ==
  /\ pc \in {"encrypt", "decrypt"} /\ prog \in StreamPrograms
  /\ pos * StreamLen >= inputLen
  /\ pos' = 0
  /\ Goto(IF pc = "encrypt" THEN "init decrypt" ELSE "verify")
  /\ UNCHANGED <<files, message, encrypted, decrypted, key, ctx>>

StreamNext ==
  \/ ReadStream \/ ReadStreamKey \/ ReadNonce \/ AllocateStream
  \/ InitContext \/ TransformBlock \/ CryptBlock \/ EndTransform
=============================================================================
