---------------------------- MODULE MCAesLayout ----------------------------
(* AesLayout on the example vector of FIPS-197, appendix C.1: the block       *)
(* 00112233..ff under the key 000102..0f.                                     *)
EXTENDS AesLayout, MCAesManual

FIPSInputs == {[p \in 1 .. 16 |-> BitsOf(17 * (p - 1))]}
FIPSKeys == {[p \in 0 .. 15 |-> BitsOf(p)]}
=============================================================================
