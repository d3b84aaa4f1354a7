-------------------------- MODULE MCChaCha20Block --------------------------
(* ChaCha20Block with bytes of 2 bits: words of 8 bits, rotations by 4, 3, 2 *)
(* and 1 for 16, 12, 8 and 7.  Three pairs of rounds on an input of sixteen  *)
(* different words, on one with the largest word everywhere, and on one with *)
(* a single bit.                                                             *)
EXTENDS ChaCha20Block, Bitwise

MCXOR(u, v) == u ^^ v
MCStates ==
  {[w \in 0 .. 15 |-> (37 * w + 11) % 256], [w \in 0 .. 15 |-> 255],
   [w \in 0 .. 15 |-> IF w = 5 THEN 64 ELSE 0]}
=============================================================================
