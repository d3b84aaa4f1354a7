----------------------------- MODULE Keystream -----------------------------
(***************************************************************************)
(* What every ChaCha20 implementation of the repository promises: after    *)
(* init the cipher is a position in a keystream that depends on the key,   *)
(* the nonce and the initial counter alone.  How the bytes are asked for   *)
(* (one call or many, transform or extract, buffered or not) cannot be     *)
(* seen in the bytes that come out.                                        *)
(***************************************************************************)
EXTENDS ChaChaState

VARIABLES
  session,  (* The arguments of the last init.                              *)
  pos,      (* How many bytes this session has produced.                    *)
  last      (* The last keystream byte produced, or NoByte.                 *)

ksVars == <<session, pos, last>>

Init ==
  /\ session \in Sessions
  /\ pos = 0
  /\ last = NoByte

(* A new session starts at position 0, whatever the old one has produced.  *)
Rekey ==
  /\ session' \in Sessions
  /\ pos' = 0
  /\ last' = NoByte

(* One more byte of the session's keystream.                               *)
Emit ==
  /\ last' = ByteAt(session, pos)
  /\ pos' = pos + 1
  /\ UNCHANGED session

Next == Rekey \/ Emit

Spec == Init /\ [][Next]_ksVars
=============================================================================
