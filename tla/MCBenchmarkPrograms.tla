------------------------- MODULE MCBenchmarkPrograms ------------------------
(* Blocks of two bytes: files with and without a tail, keys that are short,  *)
(* exact, one byte longer (an end of line) and long, nonces likewise.        *)
EXTENDS BenchmarkPrograms

MCInputLens == {Missing, 0, 1, 2, 4, 5}
MCKeyLens == {Missing, 0, 1, 2, 3, 4, 5}
MCNonceLens == {Missing, 1, 2, 3, 4}
MCJunk == {0, 1}
=============================================================================
