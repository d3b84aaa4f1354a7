----------------------------- MODULE AesBytes -----------------------------
(***************************************************************************)
(* The bytes of aes-128/c/aes_manual.c and aes-128/ocaml/aes_manual.ml:    *)
(* sets of bits, so that exclusive or is symmetric difference and a        *)
(* product in GF(2^8) is a shift and a reduction.                          *)
(***************************************************************************)
EXTENDS Integers

Byte == SUBSET (0 .. 7)

XOR(x, y) == (x \ y) \cup (y \ x)

(* Bug: the reduction by 0x1B left out.                                    *)
xtime_NoReduction(x) == {k \in 1 .. 7 : k - 1 \in x}

(* x << 1, cut to a byte, and reduced by 0x1B if the top bit was set.      *)
xtime(x) ==
  LET shifted == {k \in 1 .. 7 : k - 1 \in x}
  IN  IF 7 \in x THEN XOR(shifted, {0, 1, 3, 4}) ELSE shifted

mul2(x) == xtime(x)
mul3(x) == XOR(xtime(x), x)
mul4(x) == mul2(mul2(x))
mul8(x) == mul2(mul4(x))
mul9(x) == XOR(mul8(x), x)
mul11(x) == XOR(XOR(mul8(x), mul2(x)), x)
mul13(x) == XOR(XOR(mul8(x), mul4(x)), x)
mul14(x) == XOR(XOR(mul8(x), mul4(x)), mul2(x))

(* The four bytes that a column is replaced by.                            *)
mix_single_column(a, b, c, d) ==
  << XOR(XOR(XOR(mul2(a), mul3(b)), c), d),
     XOR(XOR(XOR(a, mul2(b)), mul3(c)), d),
     XOR(XOR(XOR(a, b), mul2(c)), mul3(d)),
     XOR(XOR(XOR(mul3(a), b), c), mul2(d)) >>

inv_mix_single_column(a, b, c, d) ==
  << XOR(XOR(XOR(mul14(a), mul11(b)), mul13(c)), mul9(d)),
     XOR(XOR(XOR(mul9(a), mul14(b)), mul11(c)), mul13(d)),
     XOR(XOR(XOR(mul13(a), mul9(b)), mul14(c)), mul11(d)),
     XOR(XOR(XOR(mul11(a), mul13(b)), mul9(c)), mul14(d)) >>
=============================================================================
