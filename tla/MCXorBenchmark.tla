--------------------------- MODULE MCXorBenchmark ---------------------------
(* Bytes of two bits, two of them ends of line, and ints of three: messages  *)
(* that fit, that are negative as an int, and that wrap around to one byte.   *)
EXTENDS XorBenchmark

MCByte == SUBSET {0, 1}
MCXOR(x, y) == (x \ y) \cup (y \ x)
MCEol == {{1}, {0, 1}}
MCZero == {}
MCInputs ==
  {Missing, <<>>, <<{0}, {0, 1}, {}>>, <<{1}, {}, {}, {}, {}>>,
   <<{1}, {0}, {}, {}, {}, {}, {}, {}, {}>>}
MCKeyFiles ==
  {Missing, <<>>, <<{1}>>, <<{0}, {}>>, <<{0}, {1}>>, <<{0}, {1}, {0, 1}>>,
   [p \in 1 .. 8 |-> {0}]}
MCJunk == {{0}}
=============================================================================
