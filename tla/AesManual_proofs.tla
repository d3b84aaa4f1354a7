------------------------- MODULE AesManual_proofs -------------------------
(***************************************************************************)
(* Decrypting what was encrypted gives the message back, for every S-box   *)
(* that is a permutation, every key and every message.  The argument: each *)
(* transformation has its inverse (the one that takes work is the product  *)
(* of the column matrices, which is one for every shift that is linear),   *)
(* so the decryption of a block goes back through the states of its        *)
(* encryption.                                                             *)
(***************************************************************************)
EXTENDS AesManual, TLAPS

-----------------------------------------------------------------------------
(* Quotient and remainder by a positive modulus.                           *)
LEMMA DivMod ==
  ASSUME NEW a \in Int, NEW m \in Nat \ {0}
  PROVE  /\ a \div m \in Int
         /\ a % m \in 0 .. m-1
         /\ a = (a \div m) * m + (a % m)
OBVIOUS

(* Quotient and remainder are determined by the equation they satisfy.     *)
LEMMA DivModUnique ==
  ASSUME NEW m \in Nat \ {0}, NEW q \in Int, NEW r \in 0 .. m-1
  PROVE  /\ (q * m + r) \div m = q
         /\ (q * m + r) % m = r
<1> DEFINE a == q * m + r
<1> DEFINE d == a \div m
<1>1. a \in Int
  OBVIOUS
<1>2. /\ d \in Int /\ a % m \in 0 .. m-1
      /\ a = d * m + (a % m)
  BY <1>1, DivMod
<1> HIDE DEF d
<1>3. ASSUME d >= q + 1 PROVE FALSE
  <2>1. m * d >= m * (q + 1)
    BY <1>2, <1>3
  <2> QED BY <2>1, <1>2
<1>4. ASSUME q >= d + 1 PROVE FALSE
  <2>1. m * q >= m * (d + 1)
    BY <1>2, <1>4
  <2> QED BY <2>1, <1>2
<1>5. d = q
  BY <1>2, <1>3, <1>4
<1> QED BY <1>5, <1>2 DEF d

(* The parts of a natural number.                                          *)
LEMMA DivNat ==
  ASSUME NEW m \in Nat \ {0}, NEW a \in Nat
  PROVE  a \div m \in Nat
<1> DEFINE q == a \div m
<1>1. q \in Int /\ a % m \in 0 .. m-1 /\ a = q * m + (a % m)
  BY DivMod
<1> HIDE DEF q
<1>2. CASE q < 0
  <2>1. q * m <= (-1) * m
    BY <1>1, <1>2
  <2> QED BY <1>1, <2>1
<1>3. q \in Nat
  BY <1>1, <1>2
<1> QED BY <1>3 DEF q

LEMMA DivModParts ==
  ASSUME NEW m \in Nat \ {0}, NEW a \in Nat
  PROVE  \E q \in Nat, r \in 0 .. m-1 : a = q * m + r /\ a \div m = q /\ a % m = r
BY DivMod, DivNat

(* Two numbers with the same remainder that differ are m or more apart.    *)
LEMMA ModGap ==
  ASSUME NEW m \in Nat \ {0}, NEW a \in Int, NEW b \in Int, a < b, a % m = b % m
  PROVE  b - a >= m
<1> DEFINE p == a \div m
           q == b \div m
           r == a % m
<1>1. /\ p \in Int /\ q \in Int /\ r \in 0 .. m-1
      /\ a = p * m + r /\ b = q * m + r
  BY DivMod
<1> HIDE DEF p, q, r
<1>2. ASSUME q <= p PROVE FALSE
  <2>1. q * m <= p * m
    BY <1>1, <1>2
  <2> QED BY <2>1, <1>1
<1>3. (p + 1) * m <= q * m
  BY <1>1, <1>2
<1>4. (p + 1) * m = p * m + m
  BY <1>1
<1> QED BY <1>1, <1>3, <1>4

-----------------------------------------------------------------------------
(* Bytes.                                                                  *)
LEMMA XorByte == \A y, z \in Byte : XOR(y, z) \in Byte
BY DEF XOR, Byte

LEMMA XorTwice == \A y, z : XOR(XOR(y, z), z) = y
BY DEF XOR

LEMMA XtimeByte == \A y \in Byte : xtime(y) \in Byte
BY DEF xtime, XOR, Byte

(* Doubling is linear: the reductions of two bytes cancel or not as the    *)
(* top bits do.                                                            *)
LEMMA XtimeLinear == \A y, z \in Byte : xtime(XOR(y, z)) = XOR(xtime(y), xtime(z))
<1> SUFFICES ASSUME NEW y \in Byte, NEW z \in Byte
             PROVE  xtime(XOR(y, z)) = XOR(xtime(y), xtime(z))
  OBVIOUS
<1> DEFINE s(w) == {k \in 1 .. 7 : k - 1 \in w}
<1>1. s(XOR(y, z)) = XOR(s(y), s(z))
  BY DEF XOR
<1>2. \A w : xtime(w) = IF 7 \in w THEN XOR(s(w), {0, 1, 3, 4}) ELSE s(w)
  BY DEF xtime
<1>3. 7 \in XOR(y, z) <=> ((7 \in y /\ 7 \notin z) \/ (7 \notin y /\ 7 \in z))
  BY DEF XOR
<1> HIDE DEF s
<1> QED BY <1>1, <1>2, <1>3 DEF XOR

(* A column of the product, and doubling it.                               *)
Sum(p, q, r, t) == XOR(XOR(XOR(p, q), r), t)

LEMMA SumLinear ==
  ASSUME NEW p \in Byte, NEW q \in Byte, NEW r \in Byte, NEW t \in Byte
  PROVE  /\ Sum(p, q, r, t) \in Byte
         /\ xtime(Sum(p, q, r, t)) = Sum(xtime(p), xtime(q), xtime(r), xtime(t))
<1>1. XOR(p, q) \in Byte /\ XOR(XOR(p, q), r) \in Byte /\ Sum(p, q, r, t) \in Byte
  BY XorByte DEF Sum
<1>2. xtime(Sum(p, q, r, t)) = XOR(xtime(XOR(XOR(p, q), r)), xtime(t))
  BY <1>1, XtimeLinear DEF Sum
<1>3. xtime(XOR(XOR(p, q), r)) = XOR(XOR(xtime(p), xtime(q)), xtime(r))
  BY <1>1, XtimeLinear
<1> QED BY <1>1, <1>2, <1>3 DEF Sum

(* A sum of sums is summed column by column.                               *)
LEMMA XorSwap == \A p, q, r, t : XOR(XOR(p, q), XOR(r, t)) = XOR(XOR(p, r), XOR(q, t))
BY DEF XOR

LEMMA Sum2 ==
  \A p, q, r, t, pp, qq, rr, tt :
    XOR(Sum(p, q, r, t), Sum(pp, qq, rr, tt))
      = Sum(XOR(p, pp), XOR(q, qq), XOR(r, rr), XOR(t, tt))
<1> TAKE p, q, r, t, pp, qq, rr, tt
<1>1. XOR(XOR(XOR(XOR(p, q), r), t), XOR(XOR(XOR(pp, qq), rr), tt))
        = XOR(XOR(XOR(XOR(p, q), r), XOR(XOR(pp, qq), rr)), XOR(t, tt))
  BY XorSwap
<1>2. XOR(XOR(XOR(p, q), r), XOR(XOR(pp, qq), rr))
        = XOR(XOR(XOR(p, q), XOR(pp, qq)), XOR(r, rr))
  BY XorSwap
<1>3. XOR(XOR(p, q), XOR(pp, qq)) = XOR(XOR(p, pp), XOR(q, qq))
  BY XorSwap
<1> QED BY <1>1, <1>2, <1>3 DEF Sum

LEMMA Sum4 ==
  \A p1, q1, r1, t1, p2, q2, r2, t2, p3, q3, r3, t3, p4, q4, r4, t4 :
    Sum(Sum(p1, q1, r1, t1), Sum(p2, q2, r2, t2), Sum(p3, q3, r3, t3), Sum(p4, q4, r4, t4))
      = Sum(Sum(p1, p2, p3, p4), Sum(q1, q2, q3, q4), Sum(r1, r2, r3, r4), Sum(t1, t2, t3, t4))
<1> TAKE p1, q1, r1, t1, p2, q2, r2, t2, p3, q3, r3, t3, p4, q4, r4, t4
<1>1. XOR(Sum(p1, q1, r1, t1), Sum(p2, q2, r2, t2))
        = Sum(XOR(p1, p2), XOR(q1, q2), XOR(r1, r2), XOR(t1, t2))
  BY Sum2
<1>2. XOR(Sum(XOR(p1, p2), XOR(q1, q2), XOR(r1, r2), XOR(t1, t2)), Sum(p3, q3, r3, t3))
        = Sum(XOR(XOR(p1, p2), p3), XOR(XOR(q1, q2), q3), XOR(XOR(r1, r2), r3),
              XOR(XOR(t1, t2), t3))
  BY Sum2
<1>3. XOR(Sum(XOR(XOR(p1, p2), p3), XOR(XOR(q1, q2), q3), XOR(XOR(r1, r2), r3),
              XOR(XOR(t1, t2), t3)), Sum(p4, q4, r4, t4))
        = Sum(Sum(p1, p2, p3, p4), Sum(q1, q2, q3, q4), Sum(r1, r2, r3, r4),
              Sum(t1, t2, t3, t4))
  <2>1. \A x, y, z, w : Sum(x, y, z, w) = XOR(XOR(XOR(x, y), z), w)
    BY DEF Sum
  <2> QED BY Sum2, <2>1
<1>4. \A x, y, z, w : Sum(x, y, z, w) = XOR(XOR(XOR(x, y), z), w)
  BY DEF Sum
<1>5. Sum(Sum(p1, q1, r1, t1), Sum(p2, q2, r2, t2), Sum(p3, q3, r3, t3), Sum(p4, q4, r4, t4))
      = XOR(XOR(XOR(Sum(p1, q1, r1, t1), Sum(p2, q2, r2, t2)), Sum(p3, q3, r3, t3)), Sum(p4, q4, r4, t4))
  BY <1>4
<1> QED BY <1>1, <1>2, <1>3, <1>5

LEMMA SumOne ==
  \A p : Sum(p, {}, {}, {}) = p /\ Sum({}, p, {}, {}) = p
         /\ Sum({}, {}, p, {}) = p /\ Sum({}, {}, {}, p) = p
BY DEF Sum, XOR

(* The product of the two column matrices is the identity.  Every entry of *)
(* it is a sum of shifted bytes in which all but one term cancel.          *)
LEMMA MixInverse ==
  ASSUME NEW a \in Byte, NEW b \in Byte, NEW c \in Byte, NEW d \in Byte
  PROVE  LET m == mix_single_column(a, b, c, d)
         IN  /\ m[1] \in Byte /\ m[2] \in Byte /\ m[3] \in Byte /\ m[4] \in Byte
             /\ inv_mix_single_column(m[1], m[2], m[3], m[4]) = <<a, b, c, d>>
<1> DEFINE a1 == xtime(a)  a2 == xtime(a1)  a3 == xtime(a2)  a4 == xtime(a3)
           b1 == xtime(b)  b2 == xtime(b1)  b3 == xtime(b2)  b4 == xtime(b3)
           c1 == xtime(c)  c2 == xtime(c1)  c3 == xtime(c2)  c4 == xtime(c3)
           d1 == xtime(d)  d2 == xtime(d1)  d3 == xtime(d2)  d4 == xtime(d3)
<1>1. /\ a1 \in Byte /\ a2 \in Byte /\ a3 \in Byte /\ a4 \in Byte
      /\ b1 \in Byte /\ b2 \in Byte /\ b3 \in Byte /\ b4 \in Byte
      /\ c1 \in Byte /\ c2 \in Byte /\ c3 \in Byte /\ c4 \in Byte
      /\ d1 \in Byte /\ d2 \in Byte /\ d3 \in Byte /\ d4 \in Byte
  BY XtimeByte
<1> DEFINE m10 == Sum(a1, XOR(b1, b), c, d)
           m20 == Sum(a, b1, XOR(c1, c), d)
           m30 == Sum(a, b, c1, XOR(d1, d))
           m40 == Sum(XOR(a1, a), b, c, d1)
<1> DEFINE m11 == Sum(a2, XOR(b2, b1), c1, d1)
           m21 == Sum(a1, b2, XOR(c2, c1), d1)
           m31 == Sum(a1, b1, c2, XOR(d2, d1))
           m41 == Sum(XOR(a2, a1), b1, c1, d2)
<1> DEFINE m12 == Sum(a3, XOR(b3, b2), c2, d2)
           m22 == Sum(a2, b3, XOR(c3, c2), d2)
           m32 == Sum(a2, b2, c3, XOR(d3, d2))
           m42 == Sum(XOR(a3, a2), b2, c2, d3)
<1> DEFINE m13 == Sum(a4, XOR(b4, b3), c3, d3)
           m23 == Sum(a3, b4, XOR(c4, c3), d3)
           m33 == Sum(a3, b3, c4, XOR(d4, d3))
           m43 == Sum(XOR(a4, a3), b3, c3, d4)
<1>2. mix_single_column(a, b, c, d) = <<m10, m20, m30, m40>>
  BY DEF mix_single_column, mul2, mul3, Sum
<1>3. m10 \in Byte /\ xtime(m10) = m11 /\ xtime(m11) = m12 /\ xtime(m12) = m13
  <2>1. /\ XOR(b1, b) \in Byte /\ xtime(XOR(b1, b)) = XOR(b2, b1)
        /\ XOR(b2, b1) \in Byte /\ xtime(XOR(b2, b1)) = XOR(b3, b2)
        /\ XOR(b3, b2) \in Byte /\ xtime(XOR(b3, b2)) = XOR(b4, b3)
    BY <1>1, XorByte, XtimeLinear
  <2>2. m10 \in Byte /\ xtime(m10) = m11
    BY <1>1, <2>1, SumLinear
  <2>3. xtime(m11) = m12
    BY <1>1, <2>1, SumLinear
  <2>4. xtime(m12) = m13
    BY <1>1, <2>1, SumLinear
  <2> QED BY <2>2, <2>3, <2>4
<1>4. m20 \in Byte /\ xtime(m20) = m21 /\ xtime(m21) = m22 /\ xtime(m22) = m23
  <2>1. /\ XOR(c1, c) \in Byte /\ xtime(XOR(c1, c)) = XOR(c2, c1)
        /\ XOR(c2, c1) \in Byte /\ xtime(XOR(c2, c1)) = XOR(c3, c2)
        /\ XOR(c3, c2) \in Byte /\ xtime(XOR(c3, c2)) = XOR(c4, c3)
    BY <1>1, XorByte, XtimeLinear
  <2>2. m20 \in Byte /\ xtime(m20) = m21
    BY <1>1, <2>1, SumLinear
  <2>3. xtime(m21) = m22
    BY <1>1, <2>1, SumLinear
  <2>4. xtime(m22) = m23
    BY <1>1, <2>1, SumLinear
  <2> QED BY <2>2, <2>3, <2>4
<1>5. m30 \in Byte /\ xtime(m30) = m31 /\ xtime(m31) = m32 /\ xtime(m32) = m33
  <2>1. /\ XOR(d1, d) \in Byte /\ xtime(XOR(d1, d)) = XOR(d2, d1)
        /\ XOR(d2, d1) \in Byte /\ xtime(XOR(d2, d1)) = XOR(d3, d2)
        /\ XOR(d3, d2) \in Byte /\ xtime(XOR(d3, d2)) = XOR(d4, d3)
    BY <1>1, XorByte, XtimeLinear
  <2>2. m30 \in Byte /\ xtime(m30) = m31
    BY <1>1, <2>1, SumLinear
  <2>3. xtime(m31) = m32
    BY <1>1, <2>1, SumLinear
  <2>4. xtime(m32) = m33
    BY <1>1, <2>1, SumLinear
  <2> QED BY <2>2, <2>3, <2>4
<1>6. m40 \in Byte /\ xtime(m40) = m41 /\ xtime(m41) = m42 /\ xtime(m42) = m43
  <2>1. /\ XOR(a1, a) \in Byte /\ xtime(XOR(a1, a)) = XOR(a2, a1)
        /\ XOR(a2, a1) \in Byte /\ xtime(XOR(a2, a1)) = XOR(a3, a2)
        /\ XOR(a3, a2) \in Byte /\ xtime(XOR(a3, a2)) = XOR(a4, a3)
    BY <1>1, XorByte, XtimeLinear
  <2>2. m40 \in Byte /\ xtime(m40) = m41
    BY <1>1, <2>1, SumLinear
  <2>3. xtime(m41) = m42
    BY <1>1, <2>1, SumLinear
  <2>4. xtime(m42) = m43
    BY <1>1, <2>1, SumLinear
  <2> QED BY <2>2, <2>3, <2>4
<1> HIDE DEF a1, a2, a3, a4, b1, b2, b3, b4, c1, c2, c3, c4, d1, d2, d3, d4
<1>7. Sum(XOR(XOR(m13, m12), m11), XOR(XOR(m23, m21), m20),
          XOR(XOR(m33, m32), m30), XOR(m43, m40)) = a
  <2>1. XOR(XOR(m13, m12), m11)
        = Sum(XOR(XOR(a4, a3), a2), XOR(XOR(XOR(b4, b3), XOR(b3, b2)), XOR(b2, b1)),
              XOR(XOR(c3, c2), c1), XOR(XOR(d3, d2), d1))
    BY Sum2
  <2>2. XOR(XOR(m23, m21), m20)
        = Sum(XOR(XOR(a3, a1), a), XOR(XOR(b4, b2), b1),
              XOR(XOR(XOR(c4, c3), XOR(c2, c1)), XOR(c1, c)), XOR(XOR(d3, d1), d))
    BY Sum2
  <2>3. XOR(XOR(m33, m32), m30)
        = Sum(XOR(XOR(a3, a2), a), XOR(XOR(b3, b2), b),
              XOR(XOR(c4, c3), c1), XOR(XOR(XOR(d4, d3), XOR(d3, d2)), XOR(d1, d)))
    BY Sum2
  <2>4. XOR(m43, m40)
        = Sum(XOR(XOR(a4, a3), XOR(a1, a)), XOR(b3, b),
              XOR(c3, c), XOR(d4, d1))
    BY Sum2
  <2>5. Sum(XOR(XOR(a4, a3), a2), XOR(XOR(a3, a1), a),
          XOR(XOR(a3, a2), a), XOR(XOR(a4, a3), XOR(a1, a))) = a
    BY DEF Sum, XOR
  <2>6. Sum(XOR(XOR(XOR(b4, b3), XOR(b3, b2)), XOR(b2, b1)), XOR(XOR(b4, b2), b1),
          XOR(XOR(b3, b2), b), XOR(b3, b)) = {}
    BY DEF Sum, XOR
  <2>7. Sum(XOR(XOR(c3, c2), c1), XOR(XOR(XOR(c4, c3), XOR(c2, c1)), XOR(c1, c)),
          XOR(XOR(c4, c3), c1), XOR(c3, c)) = {}
    BY DEF Sum, XOR
  <2>8. Sum(XOR(XOR(d3, d2), d1), XOR(XOR(d3, d1), d),
          XOR(XOR(XOR(d4, d3), XOR(d3, d2)), XOR(d1, d)), XOR(d4, d1)) = {}
    BY DEF Sum, XOR
  <2>9. Sum(Sum(XOR(XOR(a4, a3), a2), XOR(XOR(XOR(b4, b3), XOR(b3, b2)), XOR(b2, b1)), XOR(XOR(c3, c2), c1), XOR(XOR(d3, d2), d1)),
            Sum(XOR(XOR(a3, a1), a), XOR(XOR(b4, b2), b1), XOR(XOR(XOR(c4, c3), XOR(c2, c1)), XOR(c1, c)), XOR(XOR(d3, d1), d)),
            Sum(XOR(XOR(a3, a2), a), XOR(XOR(b3, b2), b), XOR(XOR(c4, c3), c1), XOR(XOR(XOR(d4, d3), XOR(d3, d2)), XOR(d1, d))),
            Sum(XOR(XOR(a4, a3), XOR(a1, a)), XOR(b3, b), XOR(c3, c), XOR(d4, d1)))
        = Sum(Sum(XOR(XOR(a4, a3), a2), XOR(XOR(a3, a1), a), XOR(XOR(a3, a2), a), XOR(XOR(a4, a3), XOR(a1, a))),
            Sum(XOR(XOR(XOR(b4, b3), XOR(b3, b2)), XOR(b2, b1)), XOR(XOR(b4, b2), b1), XOR(XOR(b3, b2), b), XOR(b3, b)),
            Sum(XOR(XOR(c3, c2), c1), XOR(XOR(XOR(c4, c3), XOR(c2, c1)), XOR(c1, c)), XOR(XOR(c4, c3), c1), XOR(c3, c)),
            Sum(XOR(XOR(d3, d2), d1), XOR(XOR(d3, d1), d), XOR(XOR(XOR(d4, d3), XOR(d3, d2)), XOR(d1, d)), XOR(d4, d1)))
    BY Sum4
  <2> HIDE DEF m10, m11, m12, m13, m20, m21, m22, m23, m30, m31, m32, m33, m40, m41, m42, m43
  <2> QED BY <2>1, <2>2, <2>3, <2>4, <2>5, <2>6, <2>7, <2>8, <2>9, SumOne
<1>8. Sum(XOR(m13, m10), XOR(XOR(m23, m22), m21),
          XOR(XOR(m33, m31), m30), XOR(XOR(m43, m42), m40)) = b
  <2>1. XOR(m13, m10)
        = Sum(XOR(a4, a1), XOR(XOR(b4, b3), XOR(b1, b)),
              XOR(c3, c), XOR(d3, d))
    BY Sum2
  <2>2. XOR(XOR(m23, m22), m21)
        = Sum(XOR(XOR(a3, a2), a1), XOR(XOR(b4, b3), b2),
              XOR(XOR(XOR(c4, c3), XOR(c3, c2)), XOR(c2, c1)), XOR(XOR(d3, d2), d1))
    BY Sum2
  <2>3. XOR(XOR(m33, m31), m30)
        = Sum(XOR(XOR(a3, a1), a), XOR(XOR(b3, b1), b),
              XOR(XOR(c4, c2), c1), XOR(XOR(XOR(d4, d3), XOR(d2, d1)), XOR(d1, d)))
    BY Sum2
  <2>4. XOR(XOR(m43, m42), m40)
        = Sum(XOR(XOR(XOR(a4, a3), XOR(a3, a2)), XOR(a1, a)), XOR(XOR(b3, b2), b),
              XOR(XOR(c3, c2), c), XOR(XOR(d4, d3), d1))
    BY Sum2
  <2>5. Sum(XOR(a4, a1), XOR(XOR(a3, a2), a1),
          XOR(XOR(a3, a1), a), XOR(XOR(XOR(a4, a3), XOR(a3, a2)), XOR(a1, a))) = {}
    BY DEF Sum, XOR
  <2>6. Sum(XOR(XOR(b4, b3), XOR(b1, b)), XOR(XOR(b4, b3), b2),
          XOR(XOR(b3, b1), b), XOR(XOR(b3, b2), b)) = b
    BY DEF Sum, XOR
  <2>7. Sum(XOR(c3, c), XOR(XOR(XOR(c4, c3), XOR(c3, c2)), XOR(c2, c1)),
          XOR(XOR(c4, c2), c1), XOR(XOR(c3, c2), c)) = {}
    BY DEF Sum, XOR
  <2>8. Sum(XOR(d3, d), XOR(XOR(d3, d2), d1),
          XOR(XOR(XOR(d4, d3), XOR(d2, d1)), XOR(d1, d)), XOR(XOR(d4, d3), d1)) = {}
    BY DEF Sum, XOR
  <2>9. Sum(Sum(XOR(a4, a1), XOR(XOR(b4, b3), XOR(b1, b)), XOR(c3, c), XOR(d3, d)),
            Sum(XOR(XOR(a3, a2), a1), XOR(XOR(b4, b3), b2), XOR(XOR(XOR(c4, c3), XOR(c3, c2)), XOR(c2, c1)), XOR(XOR(d3, d2), d1)),
            Sum(XOR(XOR(a3, a1), a), XOR(XOR(b3, b1), b), XOR(XOR(c4, c2), c1), XOR(XOR(XOR(d4, d3), XOR(d2, d1)), XOR(d1, d))),
            Sum(XOR(XOR(XOR(a4, a3), XOR(a3, a2)), XOR(a1, a)), XOR(XOR(b3, b2), b), XOR(XOR(c3, c2), c), XOR(XOR(d4, d3), d1)))
        = Sum(Sum(XOR(a4, a1), XOR(XOR(a3, a2), a1), XOR(XOR(a3, a1), a), XOR(XOR(XOR(a4, a3), XOR(a3, a2)), XOR(a1, a))),
            Sum(XOR(XOR(b4, b3), XOR(b1, b)), XOR(XOR(b4, b3), b2), XOR(XOR(b3, b1), b), XOR(XOR(b3, b2), b)),
            Sum(XOR(c3, c), XOR(XOR(XOR(c4, c3), XOR(c3, c2)), XOR(c2, c1)), XOR(XOR(c4, c2), c1), XOR(XOR(c3, c2), c)),
            Sum(XOR(d3, d), XOR(XOR(d3, d2), d1), XOR(XOR(XOR(d4, d3), XOR(d2, d1)), XOR(d1, d)), XOR(XOR(d4, d3), d1)))
    BY Sum4
  <2> HIDE DEF m10, m11, m12, m13, m20, m21, m22, m23, m30, m31, m32, m33, m40, m41, m42, m43
  <2> QED BY <2>1, <2>2, <2>3, <2>4, <2>5, <2>6, <2>7, <2>8, <2>9, SumOne
<1>9. Sum(XOR(XOR(m13, m12), m10), XOR(m23, m20),
          XOR(XOR(m33, m32), m31), XOR(XOR(m43, m41), m40)) = c
  <2>1. XOR(XOR(m13, m12), m10)
        = Sum(XOR(XOR(a4, a3), a1), XOR(XOR(XOR(b4, b3), XOR(b3, b2)), XOR(b1, b)),
              XOR(XOR(c3, c2), c), XOR(XOR(d3, d2), d))
    BY Sum2
  <2>2. XOR(m23, m20)
        = Sum(XOR(a3, a), XOR(b4, b1),
              XOR(XOR(c4, c3), XOR(c1, c)), XOR(d3, d))
    BY Sum2
  <2>3. XOR(XOR(m33, m32), m31)
        = Sum(XOR(XOR(a3, a2), a1), XOR(XOR(b3, b2), b1),
              XOR(XOR(c4, c3), c2), XOR(XOR(XOR(d4, d3), XOR(d3, d2)), XOR(d2, d1)))
    BY Sum2
  <2>4. XOR(XOR(m43, m41), m40)
        = Sum(XOR(XOR(XOR(a4, a3), XOR(a2, a1)), XOR(a1, a)), XOR(XOR(b3, b1), b),
              XOR(XOR(c3, c1), c), XOR(XOR(d4, d2), d1))
    BY Sum2
  <2>5. Sum(XOR(XOR(a4, a3), a1), XOR(a3, a),
          XOR(XOR(a3, a2), a1), XOR(XOR(XOR(a4, a3), XOR(a2, a1)), XOR(a1, a))) = {}
    BY DEF Sum, XOR
  <2>6. Sum(XOR(XOR(XOR(b4, b3), XOR(b3, b2)), XOR(b1, b)), XOR(b4, b1),
          XOR(XOR(b3, b2), b1), XOR(XOR(b3, b1), b)) = {}
    BY DEF Sum, XOR
  <2>7. Sum(XOR(XOR(c3, c2), c), XOR(XOR(c4, c3), XOR(c1, c)),
          XOR(XOR(c4, c3), c2), XOR(XOR(c3, c1), c)) = c
    BY DEF Sum, XOR
  <2>8. Sum(XOR(XOR(d3, d2), d), XOR(d3, d),
          XOR(XOR(XOR(d4, d3), XOR(d3, d2)), XOR(d2, d1)), XOR(XOR(d4, d2), d1)) = {}
    BY DEF Sum, XOR
  <2>9. Sum(Sum(XOR(XOR(a4, a3), a1), XOR(XOR(XOR(b4, b3), XOR(b3, b2)), XOR(b1, b)), XOR(XOR(c3, c2), c), XOR(XOR(d3, d2), d)),
            Sum(XOR(a3, a), XOR(b4, b1), XOR(XOR(c4, c3), XOR(c1, c)), XOR(d3, d)),
            Sum(XOR(XOR(a3, a2), a1), XOR(XOR(b3, b2), b1), XOR(XOR(c4, c3), c2), XOR(XOR(XOR(d4, d3), XOR(d3, d2)), XOR(d2, d1))),
            Sum(XOR(XOR(XOR(a4, a3), XOR(a2, a1)), XOR(a1, a)), XOR(XOR(b3, b1), b), XOR(XOR(c3, c1), c), XOR(XOR(d4, d2), d1)))
        = Sum(Sum(XOR(XOR(a4, a3), a1), XOR(a3, a), XOR(XOR(a3, a2), a1), XOR(XOR(XOR(a4, a3), XOR(a2, a1)), XOR(a1, a))),
            Sum(XOR(XOR(XOR(b4, b3), XOR(b3, b2)), XOR(b1, b)), XOR(b4, b1), XOR(XOR(b3, b2), b1), XOR(XOR(b3, b1), b)),
            Sum(XOR(XOR(c3, c2), c), XOR(XOR(c4, c3), XOR(c1, c)), XOR(XOR(c4, c3), c2), XOR(XOR(c3, c1), c)),
            Sum(XOR(XOR(d3, d2), d), XOR(d3, d), XOR(XOR(XOR(d4, d3), XOR(d3, d2)), XOR(d2, d1)), XOR(XOR(d4, d2), d1)))
    BY Sum4
  <2> HIDE DEF m10, m11, m12, m13, m20, m21, m22, m23, m30, m31, m32, m33, m40, m41, m42, m43
  <2> QED BY <2>1, <2>2, <2>3, <2>4, <2>5, <2>6, <2>7, <2>8, <2>9, SumOne
<1>10. Sum(XOR(XOR(m13, m11), m10), XOR(XOR(m23, m22), m20),
          XOR(m33, m30), XOR(XOR(m43, m42), m41)) = d
  <2>1. XOR(XOR(m13, m11), m10)
        = Sum(XOR(XOR(a4, a2), a1), XOR(XOR(XOR(b4, b3), XOR(b2, b1)), XOR(b1, b)),
              XOR(XOR(c3, c1), c), XOR(XOR(d3, d1), d))
    BY Sum2
  <2>2. XOR(XOR(m23, m22), m20)
        = Sum(XOR(XOR(a3, a2), a), XOR(XOR(b4, b3), b1),
              XOR(XOR(XOR(c4, c3), XOR(c3, c2)), XOR(c1, c)), XOR(XOR(d3, d2), d))
    BY Sum2
  <2>3. XOR(m33, m30)
        = Sum(XOR(a3, a), XOR(b3, b),
              XOR(c4, c1), XOR(XOR(d4, d3), XOR(d1, d)))
    BY Sum2
  <2>4. XOR(XOR(m43, m42), m41)
        = Sum(XOR(XOR(XOR(a4, a3), XOR(a3, a2)), XOR(a2, a1)), XOR(XOR(b3, b2), b1),
              XOR(XOR(c3, c2), c1), XOR(XOR(d4, d3), d2))
    BY Sum2
  <2>5. Sum(XOR(XOR(a4, a2), a1), XOR(XOR(a3, a2), a),
          XOR(a3, a), XOR(XOR(XOR(a4, a3), XOR(a3, a2)), XOR(a2, a1))) = {}
    BY DEF Sum, XOR
  <2>6. Sum(XOR(XOR(XOR(b4, b3), XOR(b2, b1)), XOR(b1, b)), XOR(XOR(b4, b3), b1),
          XOR(b3, b), XOR(XOR(b3, b2), b1)) = {}
    BY DEF Sum, XOR
  <2>7. Sum(XOR(XOR(c3, c1), c), XOR(XOR(XOR(c4, c3), XOR(c3, c2)), XOR(c1, c)),
          XOR(c4, c1), XOR(XOR(c3, c2), c1)) = {}
    BY DEF Sum, XOR
  <2>8. Sum(XOR(XOR(d3, d1), d), XOR(XOR(d3, d2), d),
          XOR(XOR(d4, d3), XOR(d1, d)), XOR(XOR(d4, d3), d2)) = d
    BY DEF Sum, XOR
  <2>9. Sum(Sum(XOR(XOR(a4, a2), a1), XOR(XOR(XOR(b4, b3), XOR(b2, b1)), XOR(b1, b)), XOR(XOR(c3, c1), c), XOR(XOR(d3, d1), d)),
            Sum(XOR(XOR(a3, a2), a), XOR(XOR(b4, b3), b1), XOR(XOR(XOR(c4, c3), XOR(c3, c2)), XOR(c1, c)), XOR(XOR(d3, d2), d)),
            Sum(XOR(a3, a), XOR(b3, b), XOR(c4, c1), XOR(XOR(d4, d3), XOR(d1, d))),
            Sum(XOR(XOR(XOR(a4, a3), XOR(a3, a2)), XOR(a2, a1)), XOR(XOR(b3, b2), b1), XOR(XOR(c3, c2), c1), XOR(XOR(d4, d3), d2)))
        = Sum(Sum(XOR(XOR(a4, a2), a1), XOR(XOR(a3, a2), a), XOR(a3, a), XOR(XOR(XOR(a4, a3), XOR(a3, a2)), XOR(a2, a1))),
            Sum(XOR(XOR(XOR(b4, b3), XOR(b2, b1)), XOR(b1, b)), XOR(XOR(b4, b3), b1), XOR(b3, b), XOR(XOR(b3, b2), b1)),
            Sum(XOR(XOR(c3, c1), c), XOR(XOR(XOR(c4, c3), XOR(c3, c2)), XOR(c1, c)), XOR(c4, c1), XOR(XOR(c3, c2), c1)),
            Sum(XOR(XOR(d3, d1), d), XOR(XOR(d3, d2), d), XOR(XOR(d4, d3), XOR(d1, d)), XOR(XOR(d4, d3), d2)))
    BY Sum4
  <2> HIDE DEF m10, m11, m12, m13, m20, m21, m22, m23, m30, m31, m32, m33, m40, m41, m42, m43
  <2> QED BY <2>1, <2>2, <2>3, <2>4, <2>5, <2>6, <2>7, <2>8, <2>9, SumOne
<1>11. /\ mul8(m10) = m13 /\ mul4(m10) = m12 /\ mul2(m10) = m11
      /\ mul8(m20) = m23 /\ mul4(m20) = m22 /\ mul2(m20) = m21
      /\ mul8(m30) = m33 /\ mul4(m30) = m32 /\ mul2(m30) = m31
      /\ mul8(m40) = m43 /\ mul4(m40) = m42 /\ mul2(m40) = m41
  BY <1>3, <1>4, <1>5, <1>6 DEF mul8, mul4, mul2
<1> HIDE DEF m10, m11, m12, m13, m20, m21, m22, m23, m30, m31, m32, m33, m40, m41, m42, m43
<1>12. inv_mix_single_column(m10, m20, m30, m40) = <<a, b, c, d>>
  BY <1>7, <1>8, <1>9, <1>10, <1>11 DEF inv_mix_single_column, mul9, mul11, mul13, mul14, Sum
<1> QED BY <1>2, <1>3, <1>4, <1>5, <1>6, <1>12

-----------------------------------------------------------------------------
(* States: the place 4*i + j, and what each transformation puts there.     *)
LEMMA Places ==
  /\ \A i, j \in 0 .. 3 :
       /\ 4 * i + j \in 0 .. 15
       /\ (4 * i + j) \div 4 = i /\ (4 * i + j) % 4 = j
  /\ \A p \in 0 .. 15 :
       p \div 4 \in 0 .. 3 /\ p % 4 \in 0 .. 3 /\ p = 4 * (p \div 4) + (p % 4)
OBVIOUS

LEMMA AddRoundKey ==
  ASSUME NEW st \in State, NEW rk \in State
  PROVE  /\ add_round_key(st, rk) \in State
         /\ add_round_key(add_round_key(st, rk), rk) = st
<1>1. add_round_key(st, rk) \in State
  BY XorByte DEF add_round_key, State
<1>2. \A p \in 0 .. 15 : add_round_key(add_round_key(st, rk), rk)[p] = st[p]
  BY XorTwice DEF add_round_key, State
<1>3. add_round_key(add_round_key(st, rk), rk) = [p \in 0 .. 15 |-> st[p]]
  BY <1>2 DEF add_round_key
<1> QED BY <1>1, <1>3 DEF State

LEMMA InverseBox ==
  /\ Inverted(sbox) \in [Byte -> Byte]
  /\ \A y \in Byte : Inverted(sbox)[sbox[y]] = y
<1>1. \A y \in Byte : sbox[y] \in Byte
  BY SboxAssumption
<1>2. ASSUME NEW y \in Byte
      PROVE  /\ (CHOOSE z \in Byte : sbox[z] = y) \in Byte
             /\ sbox[CHOOSE z \in Byte : sbox[z] = y] = y
  <2>1. \E z \in Byte : sbox[z] = y
    BY SboxAssumption
  <2> QED BY <2>1
<1>3. Inverted(sbox) \in [Byte -> Byte]
  BY <1>2 DEF Inverted
<1>4. ASSUME NEW y \in Byte PROVE Inverted(sbox)[sbox[y]] = y
  <2>1. /\ Inverted(sbox)[sbox[y]] \in Byte
        /\ sbox[Inverted(sbox)[sbox[y]]] = sbox[y]
    BY <1>1, <1>2 DEF Inverted
  <2> QED BY <2>1, SboxAssumption
<1> QED BY <1>3, <1>4

LEMMA SubBytes ==
  ASSUME NEW st \in State
  PROVE  /\ sub_bytes(st) \in State
         /\ inv_sbox = Inverted(sbox) => inv_sub_bytes(sub_bytes(st)) = st
<1>1. sub_bytes(st) \in State
  BY SboxAssumption DEF sub_bytes, State
<1>2. ASSUME inv_sbox = Inverted(sbox) PROVE inv_sub_bytes(sub_bytes(st)) = st
  <2>1. \A p \in 0 .. 15 : inv_sub_bytes(sub_bytes(st))[p] = st[p]
    BY <1>2, InverseBox DEF sub_bytes, inv_sub_bytes, State
  <2>2. inv_sub_bytes(sub_bytes(st)) = [p \in 0 .. 15 |-> st[p]]
    BY <2>1 DEF inv_sub_bytes
  <2> QED BY <2>2 DEF State
<1> QED BY <1>1, <1>2

LEMMA InvSubBytesType ==
  ASSUME NEW st \in State, inv_sbox \in [Byte -> Byte]
  PROVE  inv_sub_bytes(st) \in State
BY DEF inv_sub_bytes, State

LEMMA Moved ==
  ASSUME NEW st \in State, NEW by \in [0 .. 3 -> 0 .. 3]
  PROVE  /\ MoveRows(st, by) \in State
         /\ \A i, j \in 0 .. 3 :
              MoveRows(st, by)[4 * i + j] = st[4 * i + ((j + by[i]) % 4)]
<1>1. \A i, j \in 0 .. 3 : (j + by[i]) % 4 \in 0 .. 3 /\ 4 * i + ((j + by[i]) % 4) \in 0 .. 15
  OBVIOUS
<1>2. \A p \in 0 .. 15 : p \div 4 \in 0 .. 3 /\ p % 4 \in 0 .. 3
  BY Places
<1>3. \A p \in 0 .. 15 : st[4 * (p \div 4) + (((p % 4) + by[p \div 4]) % 4)] \in Byte
  BY <1>1, <1>2 DEF State
<1>4. MoveRows(st, by) \in State
  BY <1>3 DEF MoveRows, State
<1> QED BY <1>4, Places DEF MoveRows

LEMMA ShiftRows ==
  ASSUME NEW st \in State
  PROVE  /\ shift_rows(st) \in State /\ inv_shift_rows(st) \in State
         /\ inv_shift_rows(shift_rows(st)) = st
<1> DEFINE left == [i \in 0 .. 3 |-> CASE i = 0 -> 0 [] i = 1 -> 1 [] i = 2 -> 2 [] i = 3 -> 3]
           right == [i \in 0 .. 3 |-> CASE i = 0 -> 0 [] i = 1 -> 3 [] i = 2 -> 2 [] i = 3 -> 1]
<1>1. /\ left \in [0 .. 3 -> 0 .. 3] /\ right \in [0 .. 3 -> 0 .. 3]
      /\ left[0] = 0 /\ left[1] = 1 /\ left[2] = 2 /\ left[3] = 3
      /\ right[0] = 0 /\ right[1] = 3 /\ right[2] = 2 /\ right[3] = 1
  OBVIOUS
<1>2. \A w : shift_rows(w) = MoveRows(w, left) /\ inv_shift_rows(w) = MoveRows(w, right)
  BY DEF shift_rows, inv_shift_rows
<1> HIDE DEF left, right
<1>3. \A i, j \in 0 .. 3 : /\ (j + right[i]) % 4 \in 0 .. 3
                          /\ (((j + right[i]) % 4) + left[i]) % 4 = j
  BY <1>1
<1> DEFINE sh == MoveRows(st, left)
           back == MoveRows(sh, right)
<1>4. sh \in State /\ MoveRows(st, right) \in State
  BY <1>1, Moved
<1>5. \A i, j \in 0 .. 3 : sh[4 * i + j] = st[4 * i + ((j + left[i]) % 4)]
  BY <1>1, Moved
<1>6. back \in State /\ \A i, j \in 0 .. 3 : back[4 * i + j] = sh[4 * i + ((j + right[i]) % 4)]
  <2> HIDE DEF sh
  <2> QED BY <1>1, <1>4, Moved
<1> HIDE DEF sh, back
<1>7. \A i, j \in 0 .. 3 : back[4 * i + j] = st[4 * i + j]
  BY <1>3, <1>5, <1>6
<1>8. \A p \in 0 .. 15 : back[p] = st[p]
  BY <1>7, Places
<1>9. back = st
  BY <1>6, <1>8 DEF State
<1> QED BY <1>2, <1>4, <1>9 DEF sh, back

LEMMA MixColumns ==
  ASSUME NEW st \in State
  PROVE  mix_columns(st) \in State /\ inv_mix_columns(mix_columns(st)) = st
<1> DEFINE Col(j) == mix_single_column(st[j], st[4+j], st[8+j], st[12+j])
           mx == mix_columns(st)
<1>1. ASSUME NEW j \in 0 .. 3
      PROVE  /\ \A i \in 0 .. 3 : Col(j)[i+1] \in Byte
             /\ inv_mix_single_column(Col(j)[1], Col(j)[2], Col(j)[3], Col(j)[4])
                  = <<st[j], st[4+j], st[8+j], st[12+j]>>
  <2>1. st[j] \in Byte /\ st[4+j] \in Byte /\ st[8+j] \in Byte /\ st[12+j] \in Byte
    BY DEF State
  <2>2. LET m == mix_single_column(st[j], st[4+j], st[8+j], st[12+j])
        IN  /\ m[1] \in Byte /\ m[2] \in Byte /\ m[3] \in Byte /\ m[4] \in Byte
            /\ inv_mix_single_column(m[1], m[2], m[3], m[4])
                 = <<st[j], st[4+j], st[8+j], st[12+j]>>
    BY <2>1, MixInverse
  <2> HIDE DEF Byte
  <2>3. /\ Col(j)[1] \in Byte /\ Col(j)[2] \in Byte /\ Col(j)[3] \in Byte /\ Col(j)[4] \in Byte
        /\ inv_mix_single_column(Col(j)[1], Col(j)[2], Col(j)[3], Col(j)[4])
             = <<st[j], st[4+j], st[8+j], st[12+j]>>
    BY <2>2
  <2> HIDE DEF Col
  <2>4. \A i \in 0 .. 3 : i = 0 \/ i = 1 \/ i = 2 \/ i = 3
    OBVIOUS
  <2> QED BY <2>3, <2>4
<1>2. mx = [p \in 0 .. 15 |-> Col(p % 4)[(p \div 4) + 1]]
  BY DEF mix_columns
<1> HIDE DEF Col, mx
<1>3. \A p \in 0 .. 15 : Col(p % 4)[(p \div 4) + 1] \in Byte
  BY <1>1, Places
<1>4. mx \in State
  BY <1>2, <1>3 DEF State
<1>5. ASSUME NEW j \in 0 .. 3
      PROVE  mx[j] = Col(j)[1] /\ mx[4+j] = Col(j)[2] /\ mx[8+j] = Col(j)[3] /\ mx[12+j] = Col(j)[4]
  <2>1. /\ j % 4 = j /\ (4 + j) % 4 = j /\ (8 + j) % 4 = j /\ (12 + j) % 4 = j
        /\ j \div 4 = 0 /\ (4 + j) \div 4 = 1 /\ (8 + j) \div 4 = 2 /\ (12 + j) \div 4 = 3
    OBVIOUS
  <2> QED BY <1>2, <2>1
<1>6. ASSUME NEW p \in 0 .. 15
      PROVE  inv_mix_columns(mx)[p] = st[p]
  <2> DEFINE j == p % 4
  <2>1. j \in 0 .. 3 /\ p \div 4 \in 0 .. 3 /\ p = 4 * (p \div 4) + j
    BY Places
  <2>2. inv_mix_columns(mx)[p]
          = inv_mix_single_column(mx[j], mx[4+j], mx[8+j], mx[12+j])[(p \div 4) + 1]
    BY DEF inv_mix_columns
  <2> HIDE DEF j
  <2>3. inv_mix_columns(mx)[p] = <<st[j], st[4+j], st[8+j], st[12+j]>>[(p \div 4) + 1]
    BY <1>1, <1>5, <2>1, <2>2
  <2>4. p \div 4 = 0 \/ p \div 4 = 1 \/ p \div 4 = 2 \/ p \div 4 = 3
    BY <2>1
  <2> QED BY <2>1, <2>3, <2>4
<1>7. inv_mix_columns(mx) = [p \in 0 .. 15 |-> st[p]]
  BY <1>6 DEF inv_mix_columns
<1> QED BY <1>4, <1>7 DEF State, mx

LEMMA RoundInverse ==
  ASSUME NEW st \in State, NEW rk \in State
  PROVE  /\ aes_round(st, rk) \in State
         /\ inv_sbox = Inverted(sbox) =>
              inv_sub_bytes(inv_shift_rows(inv_mix_columns(
                add_round_key(aes_round(st, rk), rk)))) = st
<1> DEFINE s1 == sub_bytes(st)  s2 == shift_rows(s1)  s3 == mix_columns(s2)
<1>1. s1 \in State /\ (inv_sbox = Inverted(sbox) => inv_sub_bytes(s1) = st)
  BY SubBytes
<1> HIDE DEF s1
<1>2. s2 \in State /\ inv_shift_rows(s2) = s1
  BY <1>1, ShiftRows
<1> HIDE DEF s2
<1>3. s3 \in State /\ inv_mix_columns(s3) = s2
  BY <1>2, MixColumns
<1> HIDE DEF s3
<1>4. add_round_key(s3, rk) \in State /\ add_round_key(add_round_key(s3, rk), rk) = s3
  BY <1>3, AddRoundKey
<1>5. aes_round(st, rk) = add_round_key(s3, rk)
  BY DEF aes_round, s1, s2, s3
<1> QED BY <1>1, <1>2, <1>3, <1>4, <1>5

LEMMA FinalInverse ==
  ASSUME NEW st \in State, NEW rk \in State
  PROVE  /\ final_round(st, rk) \in State
         /\ inv_sbox = Inverted(sbox) =>
              inv_sub_bytes(inv_shift_rows(add_round_key(final_round(st, rk), rk))) = st
<1> DEFINE s1 == sub_bytes(st)  s2 == shift_rows(s1)
<1>1. s1 \in State /\ (inv_sbox = Inverted(sbox) => inv_sub_bytes(s1) = st)
  BY SubBytes
<1> HIDE DEF s1
<1>2. s2 \in State /\ inv_shift_rows(s2) = s1
  BY <1>1, ShiftRows
<1> HIDE DEF s2
<1>3. add_round_key(s2, rk) \in State /\ add_round_key(add_round_key(s2, rk), rk) = s2
  BY <1>2, AddRoundKey
<1>4. final_round(st, rk) = add_round_key(s2, rk)
  BY DEF final_round, s1, s2
<1> QED BY <1>1, <1>2, <1>3, <1>4

-----------------------------------------------------------------------------
(* The key schedule.                                                       *)
LEMMA RoundKey ==
  ASSUME NEW ws \in [0 .. 43 -> Word], NEW r \in 0 .. 10
  PROVE  build_round_key(ws, r) \in State
<1>1. \A p \in 0 .. 15 : p \div 4 \in 0 .. 3 /\ p % 4 \in 0 .. 3 /\ 4 * r + (p \div 4) \in 0 .. 43
  OBVIOUS
<1>2. \A i \in 0 .. 43, j \in 0 .. 3 : ws[i][j] \in Byte
  BY DEF Word
<1>3. \A p \in 0 .. 15 : ws[4 * r + (p \div 4)][p % 4] \in Byte
  BY <1>1, <1>2
<1> QED BY <1>3 DEF build_round_key, State

LEMMA NextWordType ==
  ASSUME NEW i \in 4 .. 43, NEW ws \in [0 .. i-1 -> Word]
  PROVE  NextWord(ws, i) \in Word
<1>1. ws[i-1] \in Word /\ ws[i-4] \in Word
  OBVIOUS
<1>2. ASSUME i % 4 = 0 PROVE g(ws[i-1], (i \div 4) - 1) \in Word
  <2>1. ((i \div 4) - 1) + 1 \in 1 .. 10
    OBVIOUS
  <2>2. \A k \in 1 .. 10 : rcon[k] \in Byte
    BY DEF rcon, Byte
  <2>3. \A j \in 0 .. 3 : (j + 1) % 4 \in 0 .. 3
    OBVIOUS
  <2>4. \A j \in 0 .. 3 : sbox[ws[i-1][(j + 1) % 4]] \in Byte
    BY <1>1, <2>3, SboxAssumption DEF Word
  <2> DEFINE r == (i \div 4) - 1
  <2>5. rcon[r + 1] \in Byte
    BY <2>1, <2>2
  <2> HIDE DEF r
  <2>6. \A j \in 0 .. 3 : XOR(sbox[ws[i-1][(j + 1) % 4]], rcon[r + 1]) \in Byte
    BY <2>4, <2>5, XorByte
  <2>7. g(ws[i-1], r) \in Word
    BY <2>4, <2>6 DEF g, Word
  <2> QED BY <2>7 DEF r
<1> DEFINE temp == IF i % 4 = 0 THEN g(ws[i-1], (i \div 4) - 1) ELSE ws[i-1]
<1>3. temp \in Word
  BY <1>1, <1>2
<1>4. NextWord(ws, i) = [j \in 0 .. 3 |-> XOR(ws[i-4][j], temp[j])]
  BY DEF NextWord
<1> HIDE DEF temp
<1> QED BY <1>1, <1>3, <1>4, XorByte DEF Word

-----------------------------------------------------------------------------
(* The inductive invariant: beside the properties, the inverse table is    *)
(* filled in before a block is decrypted, the first block is the one at 0, *)
(* and every state of the history is a state.                              *)
HistoryOK ==
  /\ (pc # "init_inv_sbox" => inv_sbox = Inverted(sbox))
  /\ (pc \in {"init_inv_sbox", "key_expansion"} => block = 0)
  /\ \A b \in DOMAIN trace : \A r \in DOMAIN trace[b] : trace[b][r] \in State

IInv == TypeOK /\ EncryptTraced /\ DecryptRetraces /\ HistoryOK

(* Blocks end inside the buffers; a block is written without touching      *)
(* another.                                                                *)
LEMMA BlockInside ==
  ASSUME NEW l \in Nat, l % 16 = 0, NEW b \in 0 .. l-1, b % 16 = 0
  PROVE  b + 16 <= l
BY ModGap

LEMMA WriteBlock ==
  ASSUME NEW buffer \in Buffer, NEW st \in State,
         len \in Nat, len % 16 = 0, block \in 0 .. len, block % 16 = 0, block + 16 <= len
  PROVE  /\ WithBlock(buffer, st) \in Buffer
         /\ At(WithBlock(buffer, st), block) = st
         /\ \A b \in Blocks : b # block => At(WithBlock(buffer, st), b) = At(buffer, b)
<1>1. \A p \in 0 .. len-1 : p \in block .. block + 15 => p - block \in 0 .. 15
  OBVIOUS
<1>2. DOMAIN buffer = 0 .. len-1 /\ \A p \in 0 .. len-1 : buffer[p] \in Byte \cup {Junk}
  BY DEF Buffer
<1>3. WithBlock(buffer, st) \in Buffer
  BY <1>1, <1>2 DEF WithBlock, Buffer, State
<1>4. \A p \in 0 .. 15 : /\ block + p \in 0 .. len-1 /\ block + p \in block .. block + 15
                         /\ (block + p) - block = p
  OBVIOUS
<1>5. \A p \in 0 .. 15 : At(WithBlock(buffer, st), block)[p] = st[p]
  BY <1>2, <1>4 DEF At, WithBlock
<1>6. At(WithBlock(buffer, st), block) = [p \in 0 .. 15 |-> st[p]]
  BY <1>5 DEF At
<1>7. ASSUME NEW b \in Blocks, b # block
      PROVE  At(WithBlock(buffer, st), b) = At(buffer, b)
  <2>1. b \in 0 .. len-1 /\ b % 16 = 0
    BY DEF Blocks
  <2>2. b + 16 <= len
    BY <2>1, BlockInside
  <2>3. b + 16 <= block \/ block + 16 <= b
    <3>1. CASE b < block
      <4>1. block - b >= 16
        BY <2>1, <3>1, ModGap
      <4> QED BY <2>1, <4>1
    <3>2. CASE block < b
      <4>1. b - block >= 16
        BY <2>1, <3>2, ModGap
      <4> QED BY <2>1, <4>1
    <3> QED BY <1>7, <2>1, <3>1, <3>2
  <2>4. \A p \in 0 .. 15 : b + p \in 0 .. len-1 /\ b + p \notin block .. block + 15
    BY <2>1, <2>2, <2>3
  <2>5. \A p \in 0 .. 15 : WithBlock(buffer, st)[b + p] = buffer[b + p]
    BY <1>2, <2>4 DEF WithBlock
  <2> QED BY <2>5 DEF At
<1> QED BY <1>3, <1>6, <1>7 DEF State

LEMMA ReadBlock ==
  ASSUME message \in [0 .. len-1 -> Byte], len \in Nat, len % 16 = 0,
         NEW b \in 0 .. len-1, b % 16 = 0
  PROVE  At(message, b) \in State
<1>1. b + 16 <= len
  BY BlockInside
<1>2. \A p \in 0 .. 15 : b + p \in 0 .. len-1
  BY <1>1
<1> QED BY <1>2 DEF At, State

-----------------------------------------------------------------------------
(* padded_len is a multiple of 16.                                         *)
LEMMA PaddedWhole ==
  ASSUME NEW l \in Nat
  PROVE  /\ Padded(l) \in Nat /\ Padded(l) % 16 = 0
         /\ l <= Padded(l)
<1> PICK q \in Nat, r \in 0 .. 15 : l + 15 = q * 16 + r /\ (l + 15) \div 16 = q
  BY DivModParts
<1>1. Padded(l) = q * 16
  BY DEF Padded
<1>2. (q * 16 + 0) % 16 = 0
  BY DivModUnique
<1> QED BY <1>1, <1>2

LEMMA InitIInv == Init => IInv
<1> SUFFICES ASSUME Init PROVE IInv
  OBVIOUS
<1>1. msg \in Seq(Byte) /\ Len(msg) \in Nat /\ key \in State
  BY InputsAssumption, KeysAssumption DEF Init
<1>2. len = Padded(Len(msg)) /\ len \in Nat /\ len % 16 = 0
  BY <1>1, PaddedWhole DEF Init
<1>3. TypeOK
  <2>1. message \in [0 .. len-1 -> Byte]
    <3>1. {} \in Byte
      BY DEF Byte
    <3>2. \A p \in 0 .. len-1 : p < Len(msg) => msg[p+1] \in Byte
      BY <1>1, <1>2
    <3> QED BY <3>1, <3>2 DEF Init
  <2>2. words \in [0 .. 3 -> Word]
    <3>1. \A i, j \in 0 .. 3 : 4 * i + j \in 0 .. 15
      OBVIOUS
    <3> QED BY <1>1, <3>1 DEF Init, Word, State
  <2>3. inv_sbox \in [Byte -> Byte] /\ state \in State
    BY DEF Init, Byte, State
  <2>4. encrypted \in Buffer /\ decrypted \in Buffer
    BY DEF Init, Buffer
  <2>5. block \in 0 .. len /\ block % 16 = 0 /\ round = 0 /\ pc = "init_inv_sbox"
    BY <1>2 DEF Init
  <2> QED BY <1>1, <1>2, <2>1, <2>2, <2>3, <2>4, <2>5 DEF TypeOK, Init
<1>4. EncryptTraced /\ DecryptRetraces /\ HistoryOK
  BY DEF Init, EncryptTraced, DecryptRetraces, HistoryOK, Begun, Encrypted, Decrypted
<1> QED BY <1>3, <1>4 DEF IInv

-----------------------------------------------------------------------------
(* The steps.                                                              *)
Start == {"init_inv_sbox", "key_expansion"}

(* A step that leaves the states and buffers alone before the first block  *)
(* is encrypted.                                                           *)
LEMMA StartKeeps ==
  ASSUME len \in Nat, UNCHANGED len, block' = 0,
         pc' \in Start \/ (pc' = "aes_encrypt_buffer" /\ round' = 0)
  PROVE  EncryptTraced' /\ DecryptRetraces'
<1>1. \A b \in Blocks' : ~Begun(b)' /\ ~Encrypted(b)' /\ ~Decrypted(b)'
  BY DEF Blocks, Begun, Encrypted, Decrypted, Start
<1>2. pc' \in Start \/ round' = 0
  OBVIOUS
<1>3. ~((pc = "aes_encrypt_buffer" /\ round > 0)') /\ ~((pc = "aes_decrypt_buffer" /\ round > 0)')
  BY <1>2 DEF Start
<1> QED BY <1>1, <1>3 DEF EncryptTraced, DecryptRetraces

(* What is known of the constants of a run once the buffers are there.     *)
LEMMA LenNat == TypeOK => len \in Nat
BY InputsAssumption, PaddedWhole DEF TypeOK

(* What a step of a call has to keep of the types.                         *)
LEMMA TypeKept ==
  ASSUME TypeOK, UNCHANGED <<files, words, inv_sbox>>, words \in [0 .. 43 -> Word],
         encrypted' \in Buffer, decrypted' \in Buffer, state' \in State,
         pc' \in {"aes_encrypt_buffer", "aes_decrypt_buffer", "done"},
         round' \in 0 .. 10, block' \in 0 .. len, block' % 16 = 0,
         round' > 0 => block' + 16 <= len
  PROVE  TypeOK'
<1>1. /\ msg' = msg /\ len' = len /\ message' = message /\ key' = key
      /\ words' = words /\ inv_sbox' = inv_sbox
  BY DEF files
<1>2. Buffer' = Buffer
  BY <1>1 DEF Buffer
<1>3. /\ msg' \in Inputs /\ key' \in Keys
      /\ len' = Padded(Len(msg')) /\ len' % 16 = 0
      /\ message' \in [0 .. len'-1 -> Byte]
      /\ inv_sbox' \in [Byte -> Byte]
  BY <1>1 DEF TypeOK
<1>4. IF pc' \in {"init_inv_sbox", "key_expansion"}
      THEN words' \in [0 .. 3 + round' -> Word]
      ELSE words' \in [0 .. 43 -> Word] /\ round' \in 0 .. 10
  BY <1>1
<1>5. round' \in 0 .. 40 /\ block' \in 0 .. len' /\ (round' > 0 => block' + 16 <= len')
  BY <1>1
<1> QED BY <1>2, <1>3, <1>4, <1>5 DEF TypeOK

LEMMA StepStart ==
  ASSUME IInv, init_inv_sbox \/ key_expansion
  PROVE  IInv'
<1> USE DEF files
<1>0. TypeOK /\ HistoryOK /\ len \in Nat /\ block = 0
  BY LenNat DEF IInv, HistoryOK, init_inv_sbox, key_expansion, Start
<1>1. CASE init_inv_sbox
  <2>1. TypeOK'
    BY <1>0, <1>1, InverseBox DEF TypeOK, init_inv_sbox, Buffer
  <2>2. EncryptTraced' /\ DecryptRetraces'
    BY <1>0, <1>1, StartKeeps DEF init_inv_sbox, Start
  <2>3. HistoryOK'
    BY <1>0, <1>1 DEF HistoryOK, init_inv_sbox
  <2> QED BY <2>1, <2>2, <2>3 DEF IInv
<1>2. CASE key_expansion
  <2>1. pc = "key_expansion" /\ round \in 0 .. 40 /\ words \in [0 .. 3 + round -> Word]
    BY <1>0, <1>2 DEF key_expansion, TypeOK
  <2>2. TypeOK'
    <3>1. CASE 4 + round < 44
      <4> DEFINE i == 4 + round
      <4>1. i \in 4 .. 43 /\ i - 1 = 3 + round
        BY <2>1, <3>1
      <4>2. NextWord(words, i) \in Word
        <5> HIDE DEF i
        <5> QED BY <2>1, <4>1, NextWordType
      <4>3. words' = [k \in 0 .. i |-> IF k = i THEN NextWord(words, i) ELSE words[k]]
            /\ round' = round + 1 /\ pc' = pc
        BY <1>2, <3>1 DEF key_expansion
      <4>4. words' \in [0 .. i -> Word]
        <5>1. \A k \in 0 .. i : k # i => words[k] \in Word
          BY <2>1
        <5> HIDE DEF i
        <5> QED BY <4>2, <4>3, <5>1
      <4>5. words' \in [0 .. 3 + round' -> Word] /\ round' \in 0 .. 40
        BY <2>1, <3>1, <4>3, <4>4
      <4> QED BY <1>0, <1>2, <2>1, <4>3, <4>5 DEF TypeOK, key_expansion, Buffer
    <3>2. CASE ~(4 + round < 44)
      <4>1. round = 40
        BY <2>1, <3>2
      <4>2. 3 + round = 43
        BY <4>1
      <4>3. words \in [0 .. 43 -> Word]
        BY <2>1, <4>2
      <4>4. words' = words /\ round' = 0 /\ pc' = "aes_encrypt_buffer"
        BY <1>2, <3>2 DEF key_expansion
      <4>5. /\ UNCHANGED <<files, words, inv_sbox>>
            /\ encrypted' \in Buffer /\ decrypted' \in Buffer /\ state' \in State
            /\ block' \in 0 .. len /\ block' % 16 = 0
        BY <1>0, <1>2, <4>4 DEF TypeOK, key_expansion
      <4> QED BY <1>0, <4>3, <4>4, <4>5, TypeKept
    <3> QED BY <3>1, <3>2
  <2>3. EncryptTraced' /\ DecryptRetraces'
    BY <1>0, <1>2, <2>1, StartKeeps DEF key_expansion, Start
  <2>4. HistoryOK'
    BY <1>0, <1>2 DEF HistoryOK, key_expansion
  <2> QED BY <2>2, <2>3, <2>4 DEF IInv
<1> QED BY <1>1, <1>2

(* While blocks are encrypted and decrypted.                               *)
LEMMA Running ==
  ASSUME IInv, pc \in {"aes_encrypt_buffer", "aes_decrypt_buffer"}
  PROVE  /\ words \in [0 .. 43 -> Word] /\ round \in 0 .. 10
         /\ \A r \in 0 .. 10 : build_round_key(words, r) \in State
         /\ inv_sbox = Inverted(sbox) /\ inv_sbox \in [Byte -> Byte]
         /\ state \in State
         /\ len \in Nat /\ len % 16 = 0
         /\ block \in 0 .. len /\ block % 16 = 0
         /\ round > 0 => block + 16 <= len
         /\ block < len => block \in Blocks /\ block + 16 <= len
         /\ ~Returns => block < len
         /\ \A b \in Blocks : b \in 0 .. len-1 /\ b % 16 = 0 /\ At(message, b) \in State
         /\ \A b \in Blocks : b < block + 16 => (b < block \/ b = block)
<1>1. TypeOK /\ HistoryOK /\ len \in Nat
  BY LenNat DEF IInv
<1>2. /\ words \in [0 .. 43 -> Word] /\ round \in 0 .. 10
      /\ inv_sbox = Inverted(sbox) /\ inv_sbox \in [Byte -> Byte]
      /\ state \in State /\ len % 16 = 0
      /\ block \in 0 .. len /\ block % 16 = 0
      /\ round > 0 => block + 16 <= len
      /\ message \in [0 .. len-1 -> Byte]
  BY <1>1 DEF TypeOK, HistoryOK
<1>3. \A r \in 0 .. 10 : build_round_key(words, r) \in State
  BY <1>2, RoundKey
<1>4. \A b \in Blocks : b \in 0 .. len-1 /\ b % 16 = 0
  BY DEF Blocks
<1>5. \A b \in Blocks : At(message, b) \in State
  BY <1>1, <1>2, <1>4, ReadBlock
<1>6. block < len => block \in Blocks /\ block + 16 <= len
  <2> HAVE block < len
  <2>1. block \in 0 .. len-1
    BY <1>1, <1>2
  <2>2. block + 16 <= len
    BY <1>1, <1>2, <2>1, BlockInside
  <2> QED BY <1>2, <2>1, <2>2 DEF Blocks
<1>7. ASSUME NEW b \in Blocks, b < block + 16, ~(b < block), b # block PROVE FALSE
  <2>1. b \in Int /\ block \in Int /\ b % 16 = 0 /\ block % 16 = 0
    <3>1. b \in 0 .. len-1 /\ b % 16 = 0
      BY <1>4, <1>7
    <3> QED BY <1>1, <1>2, <3>1
  <2>2. block < b
    BY <1>7, <2>1
  <2>3. b - block >= 16
    <3>1. 16 \in Nat \ {0} /\ block % 16 = b % 16
      BY <2>1
    <3> QED BY ONLY <2>1, <2>2, <3>1, ModGap
  <2> QED BY <1>7, <2>1, <2>3
<1>8. ~Returns => block < len
  BY <1>1, <1>2 DEF Returns
<1> QED BY <1>1, <1>2, <1>3, <1>4, <1>5, <1>6, <1>7, <1>8

LEMMA StepReturn ==
  ASSUME IInv, EncryptReturn \/ DecryptReturn
  PROVE  IInv'
<1> USE DEF files
<1>1. pc \in {"aes_encrypt_buffer", "aes_decrypt_buffer"} /\ round = 0 /\ round' = 0
  BY DEF EncryptReturn, DecryptReturn
<1>2. TypeOK /\ HistoryOK /\ EncryptTraced /\ DecryptRetraces
  BY DEF IInv
<1>3. \A b \in Blocks : b < block
  BY <1>1, Running DEF Returns, EncryptReturn, DecryptReturn
<1>4. TypeOK'
  <2>1. CASE EncryptReturn
    <3>1. 0 \in 0 .. len /\ 0 % 16 = 0
      BY <1>2, LenNat
    <3>2. words \in [0 .. 43 -> Word] /\ round \in 0 .. 10
      BY <1>1, Running
    <3>3. block' \in 0 .. len' /\ block' % 16 = 0 /\ pc' = "aes_decrypt_buffer"
      BY <2>1, <3>1 DEF EncryptReturn
    <3>4. /\ UNCHANGED <<files, words, inv_sbox>>
          /\ encrypted' \in Buffer /\ decrypted' \in Buffer /\ state' \in State
          /\ block' \in 0 .. len /\ block' % 16 = 0
      BY <1>2, <2>1, <3>1 DEF TypeOK, EncryptReturn
    <3> QED BY <1>1, <1>2, <3>2, <3>3, <3>4, TypeKept
  <2>2. CASE DecryptReturn
    BY <1>1, <1>2, <2>2, Running DEF TypeOK, DecryptReturn, Buffer
  <2> QED BY <2>1, <2>2
<1>5. \A b \in Blocks : Encrypted(b) /\ Encrypted(b)'
  BY <1>1, <1>3 DEF Encrypted, EncryptReturn, DecryptReturn
<1>6. /\ Blocks' = Blocks /\ trace' = trace /\ words' = words
      /\ \A b : /\ At(message, b)' = At(message, b)
                /\ At(encrypted, b)' = At(encrypted, b)
                /\ At(decrypted, b)' = At(decrypted, b)
  BY DEF Blocks, At, EncryptReturn, DecryptReturn
<1>7. EncryptTraced'
  <2>1. \A b \in Blocks : Begun(b)
    BY <1>5 DEF Begun
  <2> QED BY <1>2, <1>5, <1>6, <2>1 DEF EncryptTraced
<1>8. DecryptRetraces'
  <2>1. \A b \in Blocks' : Decrypted(b)' => Decrypted(b)
    <3>1. CASE EncryptReturn
      BY <1>6, <3>1 DEF Decrypted, EncryptReturn, Blocks
    <3>2. CASE DecryptReturn
      BY <1>3, <1>6, <3>2 DEF Decrypted, DecryptReturn
    <3> QED BY <3>1, <3>2
  <2>2. \A b \in Blocks' : Decrypted(b)' => At(decrypted, b)' = At(message, b)'
    BY <1>2, <1>6, <2>1 DEF DecryptRetraces
  <2> QED BY <1>1, <2>2 DEF DecryptRetraces
<1>9. HistoryOK'
  BY <1>2 DEF HistoryOK, EncryptReturn, DecryptReturn, Start
<1> QED BY <1>4, <1>7, <1>8, <1>9 DEF IInv


(* The history of the blocks that are not in hand.                         *)
LEMMA StepEncrypt ==
  ASSUME IInv, EncryptFirst \/ EncryptRound \/ EncryptFinal
  PROVE  IInv'
<1>0. /\ TypeOK /\ HistoryOK /\ EncryptTraced /\ DecryptRetraces
      /\ pc = "aes_encrypt_buffer" /\ pc' = pc
      /\ UNCHANGED <<files, decrypted, words, inv_sbox>>
  BY DEF IInv, EncryptFirst, EncryptRound, EncryptFinal
<1>1. /\ round \in 0 .. 10 /\ words \in [0 .. 43 -> Word] /\ state \in State
      /\ \A r \in 0 .. 10 : build_round_key(words, r) \in State
      /\ len \in Nat /\ len % 16 = 0 /\ block \in 0 .. len /\ block % 16 = 0
      /\ block < len => block \in Blocks /\ block + 16 <= len
      /\ round > 0 => block + 16 <= len
      /\ ~Returns => block < len
      /\ \A b \in Blocks : b \in 0 .. len-1 /\ b % 16 = 0 /\ At(message, b) \in State
      /\ \A b \in Blocks : b < block + 16 => (b < block \/ b = block)
  BY <1>0, Running
<1>2. block \in Blocks /\ block + 16 <= len
  <2>1. block < len
    <3>1. CASE EncryptFirst
      BY <1>1, <3>1 DEF EncryptFirst
    <3>2. CASE EncryptRound \/ EncryptFinal
      <4>1. round > 0
        BY <3>2 DEF EncryptRound, EncryptFinal
      <4> QED BY <1>1, <4>1
    <3> QED BY <3>1, <3>2
  <2> QED BY <1>1, <2>1
<1>3. /\ Blocks' = Blocks /\ \A b : At(message, b)' = At(message, b)
      /\ encrypted \in Buffer /\ decrypted \in Buffer
      /\ \A b \in Blocks : b \in Int
      /\ block \in Int
  BY <1>0, <1>1 DEF Blocks, At, files, TypeOK
<1>4. \A b \in Blocks : ~Decrypted(b)' /\ ~Decrypted(b)
  BY <1>0 DEF Decrypted
<1>5. CASE EncryptFirst
  <2>1. /\ round = 0 /\ round' = 1 /\ block' = block /\ encrypted' = encrypted
        /\ state' = add_round_key(At(message, block), build_round_key(words, 0))
        /\ trace' = [b \in DOMAIN trace \cup {block} |->
                       IF b = block THEN <<state'>> ELSE trace[b]]
    BY <1>5 DEF EncryptFirst, BlockOf, At
  <2>2. state' \in State
    <3>1. At(message, block) \in State /\ build_round_key(words, 0) \in State
      BY <1>1, <1>2
    <3> QED BY <2>1, <3>1, AddRoundKey
  <2>3. TypeOK'
    <3>1. round' \in 0 .. 10 /\ block' \in 0 .. len /\ block' % 16 = 0 /\ block' + 16 <= len
      BY <1>1, <1>2, <2>1
    <3> QED BY <1>0, <1>1, <1>3, <2>1, <2>2, <3>1, TypeKept
  <2>4. /\ trace'[block] = <<state'>> /\ DOMAIN trace'[block] = 1 .. 1
        /\ trace'[block][1] = state'
        /\ DOMAIN trace' = DOMAIN trace \cup {block}
        /\ \A b \in DOMAIN trace : b # block => trace'[b] = trace[b]
    BY <2>1
  <2>5. EncryptTraced'
    <3> SUFFICES ASSUME NEW b \in Blocks, Begun(b)'
                 PROVE  /\ b \in DOMAIN trace'
                        /\ DOMAIN trace'[b] = 1 .. (IF Encrypted(b)' THEN 10 ELSE round')
                        /\ trace'[b][1] = add_round_key(At(message, b), build_round_key(words, 0))
                        /\ \A r \in 1 .. 9 : r + 1 \in DOMAIN trace'[b] =>
                             trace'[b][r+1] = aes_round(trace'[b][r], build_round_key(words, r))
                        /\ Encrypted(b)' =>
                             At(encrypted, b) = final_round(trace'[b][10], build_round_key(words, 10))
      <4>1. \A b : At(encrypted, b)' = At(encrypted, b)
        BY <2>1 DEF At
      <4>2. words' = words /\ \A b : Encrypted(b)' => Begun(b)'
        BY <1>0 DEF Begun
      <4> QED BY <1>3, <4>1, <4>2 DEF EncryptTraced
    <3>1. CASE b = block
      <4>1. ~Encrypted(b)'
        BY <1>0, <1>3, <2>1, <3>1 DEF Encrypted
      <4>2. \A r \in 1 .. 9 : r + 1 \notin 1 .. 1
        OBVIOUS
      <4> QED BY <2>1, <2>4, <3>1, <4>1, <4>2
    <3>2. CASE b # block
      <4>1. Encrypted(b) /\ Begun(b) /\ Encrypted(b)'
        BY <1>0, <2>1, <3>2 DEF Begun, Encrypted
      <4>2. b \in DOMAIN trace
        BY <1>0, <4>1 DEF EncryptTraced
      <4>3. trace'[b] = trace[b] /\ b \in DOMAIN trace'
        BY <2>4, <3>2, <4>2
      <4> QED BY <1>0, <4>1, <4>3 DEF EncryptTraced
    <3> QED BY <3>1, <3>2
  <2>6. DecryptRetraces'
    <3>1. state' = trace'[block'][round']
      BY <2>1, <2>4
    <3> QED BY <1>0, <1>3, <1>4, <3>1 DEF DecryptRetraces
  <2>7. HistoryOK'
    <3>1. \A b \in DOMAIN trace' : \A r \in DOMAIN trace'[b] : trace'[b][r] \in State
      BY <1>0, <2>2, <2>4 DEF HistoryOK
    <3> QED BY <1>0, <3>1 DEF HistoryOK
  <2> QED BY <2>3, <2>5, <2>6, <2>7 DEF IInv
<1>6. CASE EncryptRound
  <2>1. /\ round \in 1 .. 9 /\ round' = round + 1 /\ block' = block /\ encrypted' = encrypted
        /\ state' = aes_round(state, build_round_key(words, round))
        /\ trace' = [trace EXCEPT ![block] =
                       [r \in 1 .. round + 1 |-> IF r <= round THEN @[r] ELSE state']]
    BY <1>6 DEF EncryptRound
  <2>2. state' \in State
    <3>1. build_round_key(words, round) \in State
      BY <1>1, <2>1
    <3> QED BY <1>1, <2>1, <3>1, RoundInverse
  <2>3. TypeOK'
    <3>1. round' \in 0 .. 10 /\ block' \in 0 .. len /\ block' % 16 = 0 /\ block' + 16 <= len
      <4>1. round' \in 0 .. 10
        BY <2>1
      <4>2. block' = block
        BY <2>1
      <4> QED BY <1>1, <1>2, <4>1, <4>2
    <3> QED BY <1>0, <1>1, <1>3, <2>1, <2>2, <3>1, TypeKept
  <2>4. /\ Begun(block) /\ ~Encrypted(block)
        /\ state = trace[block][round]
    BY <1>0, <1>2, <1>3, <2>1 DEF Begun, Encrypted, DecryptRetraces
  <2>5. block \in DOMAIN trace /\ DOMAIN trace[block] = 1 .. round
    BY <1>0, <1>2, <2>4 DEF EncryptTraced
  <2>6. /\ DOMAIN trace' = DOMAIN trace
        /\ \A b \in DOMAIN trace : b # block => trace'[b] = trace[b]
        /\ trace'[block] = [r \in 1 .. round + 1 |-> IF r <= round THEN trace[block][r] ELSE state']
    BY <2>1, <2>5
  <2>7. /\ DOMAIN trace'[block] = 1 .. round'
        /\ \A r \in 1 .. round : trace'[block][r] = trace[block][r]
        /\ trace'[block][round'] = state'
    BY <2>1, <2>6
  <2>8. EncryptTraced'
    <3> SUFFICES ASSUME NEW b \in Blocks, Begun(b)'
                 PROVE  /\ b \in DOMAIN trace'
                        /\ DOMAIN trace'[b] = 1 .. (IF Encrypted(b)' THEN 10 ELSE round')
                        /\ trace'[b][1] = add_round_key(At(message, b), build_round_key(words, 0))
                        /\ \A r \in 1 .. 9 : r + 1 \in DOMAIN trace'[b] =>
                             trace'[b][r+1] = aes_round(trace'[b][r], build_round_key(words, r))
                        /\ Encrypted(b)' =>
                             At(encrypted, b) = final_round(trace'[b][10], build_round_key(words, 10))
      <4>1. \A b : At(encrypted, b)' = At(encrypted, b)
        BY <2>1 DEF At
      <4>2. words' = words /\ \A b : Encrypted(b)' => Begun(b)'
        BY <1>0 DEF Begun
      <4> QED BY <1>3, <4>1, <4>2 DEF EncryptTraced
    <3>1. CASE b = block
      <4>1. \A r \in 1 .. 9 : r + 1 \in DOMAIN trace[block] =>
              trace[block][r+1] = aes_round(trace[block][r], build_round_key(words, r))
        BY <1>0, <1>2, <2>4 DEF EncryptTraced
      <4>2. trace[block][1] = add_round_key(At(message, block), build_round_key(words, 0))
        BY <1>0, <1>2, <2>4 DEF EncryptTraced
      <4>3. trace'[block][1] = trace[block][1]
        BY <2>1, <2>7
      <4>4. ASSUME NEW r \in 1 .. 9, r + 1 \in DOMAIN trace'[block]
            PROVE  trace'[block][r+1] = aes_round(trace'[block][r], build_round_key(words, r))
        <5>1. r \in 1 .. round /\ trace'[block][r] = trace[block][r]
          BY <2>1, <2>7, <4>4
        <5>2. CASE r + 1 <= round
          <6>1. r + 1 \in 1 .. round /\ trace'[block][r+1] = trace[block][r+1]
            BY <2>7, <5>1, <5>2
          <6> QED BY <2>5, <4>1, <5>1, <6>1
        <5>3. CASE ~(r + 1 <= round)
          <6>1. r = round /\ r + 1 = round'
            BY <2>1, <5>1, <5>3
          <6> QED BY <2>1, <2>4, <2>7, <5>1, <6>1
        <5> QED BY <5>2, <5>3
      <4>5. block \in DOMAIN trace' /\ DOMAIN trace'[block] = 1 .. round'
        BY <2>5, <2>6, <2>7
      <4>6. trace'[block][1] = add_round_key(At(message, block), build_round_key(words, 0))
        BY <4>2, <4>3
      <4>7. ~Encrypted(b)'
        BY <1>0, <1>3, <2>1, <3>1 DEF Encrypted
      <4> QED BY <3>1, <4>4, <4>5, <4>6, <4>7
    <3>2. CASE b # block
      <4>1. Encrypted(b) /\ Begun(b) /\ Encrypted(b)'
        BY <1>0, <2>1, <3>2 DEF Begun, Encrypted
      <4>2. b \in DOMAIN trace
        BY <1>0, <4>1 DEF EncryptTraced
      <4>3. trace'[b] = trace[b] /\ b \in DOMAIN trace'
        BY <2>6, <3>2, <4>2
      <4> QED BY <1>0, <4>1, <4>3 DEF EncryptTraced
    <3> QED BY <3>1, <3>2
  <2>9. DecryptRetraces'
    <3>1. state' = trace'[block'][round']
      BY <2>1, <2>7
    <3> QED BY <1>0, <1>3, <1>4, <3>1 DEF DecryptRetraces
  <2>10. HistoryOK'
    <3>1. ASSUME NEW b \in DOMAIN trace', NEW r \in DOMAIN trace'[b]
          PROVE  trace'[b][r] \in State
      <4>1. CASE b = block
        <5>1. r \in 1 .. round \/ r = round'
          BY <2>1, <2>7, <3>1, <4>1
        <5> QED BY <1>0, <2>2, <2>5, <2>7, <4>1, <5>1 DEF HistoryOK
      <4>2. CASE b # block
        BY <1>0, <2>6, <3>1, <4>2 DEF HistoryOK
      <4> QED BY <4>1, <4>2
    <3> QED BY <1>0, <3>1 DEF HistoryOK
  <2> QED BY <2>3, <2>8, <2>9, <2>10 DEF IInv
<1>7. CASE EncryptFinal
  <2>1. /\ round = 10 /\ round' = 0 /\ block' = block + 16
        /\ state' = final_round(state, build_round_key(words, 10))
        /\ encrypted' = WithBlock(encrypted, state') /\ trace' = trace
    BY <1>7 DEF EncryptFinal
  <2>2. state' \in State
    <3>1. build_round_key(words, 10) \in State
      BY <1>1
    <3> QED BY <1>1, <2>1, <3>1, FinalInverse
  <2>3. /\ WithBlock(encrypted, state') \in Buffer
        /\ At(WithBlock(encrypted, state'), block) = state'
        /\ \A b \in Blocks : b # block => At(WithBlock(encrypted, state'), b) = At(encrypted, b)
    BY <1>1, <1>2, <1>3, <2>2, WriteBlock
  <2>4. TypeOK'
    <3>1. round' \in 0 .. 10 /\ block' \in 0 .. len /\ block' % 16 = 0 /\ ~(round' > 0)
      BY <1>1, <1>2, <2>1
    <3> QED BY <1>0, <1>1, <1>3, <2>1, <2>2, <2>3, <3>1, TypeKept
  <2>5. /\ Begun(block) /\ ~Encrypted(block) /\ state = trace[block][10]
    BY <1>0, <1>2, <1>3, <2>1 DEF Begun, Encrypted, DecryptRetraces
  <2>6. \A b : At(encrypted, b)' = At(WithBlock(encrypted, state'), b)
    BY <2>1 DEF At
  <2>7. EncryptTraced'
    <3> SUFFICES ASSUME NEW b \in Blocks, Begun(b)'
                 PROVE  /\ b \in DOMAIN trace
                        /\ DOMAIN trace[b] = 1 .. 10
                        /\ trace[b][1] = add_round_key(At(message, b), build_round_key(words, 0))
                        /\ \A r \in 1 .. 9 : r + 1 \in DOMAIN trace[b] =>
                             trace[b][r+1] = aes_round(trace[b][r], build_round_key(words, r))
                        /\ At(WithBlock(encrypted, state'), b)
                             = final_round(trace[b][10], build_round_key(words, 10))
      <4>1. words' = words /\ \A b : Encrypted(b)' <=> Begun(b)'
        BY <1>0, <2>1 DEF Begun
      <4> QED BY <1>3, <2>1, <2>6, <4>1 DEF EncryptTraced
    <3>1. b < block \/ b = block
      <4>1. b < block + 16
        BY <1>0, <2>1 DEF Begun, Encrypted
      <4> QED BY <1>1, <4>1
    <3>2. CASE b = block
      BY <1>0, <1>2, <2>1, <2>3, <2>5, <3>2 DEF EncryptTraced
    <3>3. CASE b # block
      <4>1. Encrypted(b) /\ Begun(b)
        BY <1>0, <3>1, <3>3 DEF Begun, Encrypted
      <4> QED BY <1>0, <2>3, <3>3, <4>1 DEF EncryptTraced
    <3> QED BY <3>2, <3>3
  <2>8. DecryptRetraces'
    BY <1>0, <1>3, <1>4, <2>1 DEF DecryptRetraces
  <2>9. HistoryOK'
    BY <1>0, <2>1 DEF HistoryOK
  <2> QED BY <2>4, <2>7, <2>8, <2>9 DEF IInv
<1> QED BY <1>5, <1>6, <1>7


LEMMA StepDecrypt ==
  ASSUME IInv, DecryptFirst \/ DecryptRound
  PROVE  IInv'
<1>0. /\ TypeOK /\ HistoryOK /\ EncryptTraced /\ DecryptRetraces
      /\ pc = "aes_decrypt_buffer" /\ pc' = pc
      /\ UNCHANGED <<files, encrypted, words, inv_sbox, trace>>
  BY DEF IInv, DecryptFirst, DecryptRound
<1>1. /\ round \in 0 .. 10 /\ words \in [0 .. 43 -> Word] /\ state \in State
      /\ \A r \in 0 .. 10 : build_round_key(words, r) \in State
      /\ len \in Nat /\ len % 16 = 0 /\ block \in 0 .. len /\ block % 16 = 0
      /\ block < len => block \in Blocks /\ block + 16 <= len
      /\ round > 0 => block + 16 <= len
      /\ ~Returns => block < len
      /\ inv_sbox = Inverted(sbox)
      /\ \A b \in Blocks : b \in 0 .. len-1 /\ b % 16 = 0 /\ At(message, b) \in State
      /\ \A b \in Blocks : b < block + 16 => (b < block \/ b = block)
  BY <1>0, Running
<1>2. block \in Blocks /\ block + 16 <= len
  <2>1. block < len
    <3>1. CASE DecryptFirst
      BY <1>1, <3>1 DEF DecryptFirst
    <3>2. CASE DecryptRound
      <4>1. round > 0
        BY <3>2 DEF DecryptRound
      <4> QED BY <1>1, <4>1
    <3> QED BY <3>1, <3>2
  <2> QED BY <1>1, <2>1
<1>3. /\ Blocks' = Blocks /\ \A b : At(message, b)' = At(message, b)
      /\ \A b : At(encrypted, b)' = At(encrypted, b)
      /\ encrypted \in Buffer /\ decrypted \in Buffer
      /\ \A b \in Blocks : b \in Int
      /\ block \in Int
  BY <1>0, <1>1 DEF Blocks, At, files, TypeOK
<1>4. /\ \A b \in Blocks : /\ Encrypted(b) /\ Encrypted(b)' /\ Begun(b)
      /\ block \in DOMAIN trace /\ DOMAIN trace[block] = 1 .. 10
      /\ trace[block][1] = add_round_key(At(message, block), build_round_key(words, 0))
      /\ \A r \in 1 .. 9 : trace[block][r+1] = aes_round(trace[block][r], build_round_key(words, r))
      /\ At(encrypted, block) = final_round(trace[block][10], build_round_key(words, 10))
      /\ \A r \in 1 .. 10 : trace[block][r] \in State
  <2>1. \A b \in Blocks : Encrypted(b) /\ Encrypted(b)' /\ Begun(b)
    BY <1>0 DEF Encrypted, Begun
  <2>2. /\ block \in DOMAIN trace /\ DOMAIN trace[block] = 1 .. 10
        /\ trace[block][1] = add_round_key(At(message, block), build_round_key(words, 0))
        /\ \A r \in 1 .. 9 : r + 1 \in DOMAIN trace[block] =>
             trace[block][r+1] = aes_round(trace[block][r], build_round_key(words, r))
        /\ At(encrypted, block) = final_round(trace[block][10], build_round_key(words, 10))
    BY <1>0, <1>2, <2>1 DEF EncryptTraced
  <2>3. \A r \in 1 .. 9 : r + 1 \in 1 .. 10
    OBVIOUS
  <2>4. \A r \in 1 .. 10 : trace[block][r] \in State
    BY <1>0, <2>2 DEF HistoryOK
  <2> QED BY <2>1, <2>2, <2>3, <2>4
<1>5. EncryptTraced'
  <2>1. words' = words /\ trace' = trace
    BY <1>0
  <2> QED BY <1>0, <1>3, <1>4, <2>1 DEF EncryptTraced
<1>6. HistoryOK'
  BY <1>0 DEF HistoryOK
<1>7. CASE DecryptFirst
  <2>1. /\ round' = 9 /\ round = 0 /\ block' = block /\ decrypted' = decrypted
        /\ state' = inv_sub_bytes(inv_shift_rows(
                      add_round_key(At(encrypted, block), build_round_key(words, 10))))
    BY <1>7 DEF DecryptFirst, BlockOf, At
  <2>2. trace[block][10] \in State /\ build_round_key(words, 10) \in State
    BY <1>1, <1>4
  <2>3. state' = trace[block][10]
    BY <1>1, <1>4, <2>1, <2>2, FinalInverse
  <2>4. TypeOK'
    <3>1. round' \in 0 .. 10 /\ block' \in 0 .. len /\ block' % 16 = 0 /\ block' + 16 <= len
      BY <1>1, <1>2, <2>1
    <3> QED BY <1>0, <1>1, <1>3, <2>1, <2>2, <2>3, <3>1, TypeKept
  <2>5. DecryptRetraces'
    <3>1. state' = trace'[block'][round' + 1]
      BY <1>0, <2>1, <2>3
    <3>2. \A b \in Blocks : Decrypted(b)' => At(decrypted, b)' = At(message, b)
      BY <1>0, <2>1 DEF DecryptRetraces, Decrypted, At
    <3> QED BY <1>0, <1>3, <3>1, <3>2 DEF DecryptRetraces
  <2> QED BY <1>5, <1>6, <2>4, <2>5 DEF IInv
<1>8. CASE DecryptRound
  <2> DEFINE st == inv_sub_bytes(inv_shift_rows(inv_mix_columns(
                     add_round_key(state, build_round_key(words, round)))))
  <2>1. /\ round \in 1 .. 9
        /\ IF round > 1
           THEN /\ state' = st /\ round' = round - 1
                /\ UNCHANGED <<decrypted, block>>
           ELSE /\ state' = add_round_key(st, build_round_key(words, 0))
                /\ decrypted' = WithBlock(decrypted, state')
                /\ block' = block + 16 /\ round' = 0
    BY <1>8 DEF DecryptRound
  <2>2. trace[block][round] \in State /\ build_round_key(words, round) \in State
    <3>1. round \in 1 .. 10
      BY <2>1
    <3> QED BY <1>1, <1>4, <3>1
  <2>3. state = aes_round(trace[block][round], build_round_key(words, round))
    <3>1. round > 0 /\ state = trace[block][round+1]
      BY <1>0, <2>1 DEF DecryptRetraces
    <3> QED BY <1>4, <2>1, <3>1
  <2>4. st = trace[block][round]
    BY <1>1, <2>2, <2>3, RoundInverse
  <2> HIDE DEF st
  <2>5. CASE round > 1
    <3>1. /\ state' = trace[block][round] /\ round' = round - 1
          /\ block' = block /\ decrypted' = decrypted
      BY <2>1, <2>4, <2>5
    <3>2. TypeOK'
      <4>1. round' \in 0 .. 10
        BY <2>1, <3>1
      <4>2. block' \in 0 .. len /\ block' % 16 = 0 /\ block' + 16 <= len
        BY <1>1, <1>2, <3>1
      <4> QED BY <1>0, <1>1, <1>3, <2>2, <3>1, <4>1, <4>2, TypeKept
    <3>3. DecryptRetraces'
      <4>1. state' = trace'[block'][round' + 1]
        <5>1. round' + 1 = round
          BY <2>1, <3>1
        <5> QED BY <1>0, <3>1, <5>1
      <4>2. \A b \in Blocks : Decrypted(b)' => At(decrypted, b)' = At(message, b)
        BY <1>0, <3>1 DEF DecryptRetraces, Decrypted, At
      <4> QED BY <1>0, <1>3, <4>1, <4>2 DEF DecryptRetraces
    <3> QED BY <1>5, <1>6, <3>2, <3>3 DEF IInv
  <2>6. CASE ~(round > 1)
    <3>1. /\ round = 1 /\ round' = 0 /\ block' = block + 16
          /\ state' = add_round_key(trace[block][1], build_round_key(words, 0))
          /\ decrypted' = WithBlock(decrypted, state')
      <4>1. round = 1
        BY <2>1, <2>6
      <4> QED BY <2>1, <2>4, <2>6, <4>1
    <3>2. At(message, block) \in State /\ build_round_key(words, 0) \in State
      BY <1>1, <1>2
    <3>3. state' = At(message, block)
      BY <1>4, <3>1, <3>2, AddRoundKey
    <3>4. /\ WithBlock(decrypted, state') \in Buffer
          /\ At(WithBlock(decrypted, state'), block) = state'
          /\ \A b \in Blocks : b # block => At(WithBlock(decrypted, state'), b) = At(decrypted, b)
      BY <1>1, <1>2, <1>3, <3>2, <3>3, WriteBlock
    <3>5. TypeOK'
      <4>1. round' \in 0 .. 10 /\ ~(round' > 0)
        BY <3>1
      <4>2. block' \in 0 .. len /\ block' % 16 = 0
        BY <1>1, <1>2, <3>1
      <4> QED BY <1>0, <1>1, <1>3, <3>1, <3>2, <3>3, <3>4, <4>1, <4>2, TypeKept
    <3>6. DecryptRetraces'
      <4>1. \A b : At(decrypted, b)' = At(WithBlock(decrypted, state'), b)
        BY <3>1 DEF At
      <4>2. ASSUME NEW b \in Blocks, Decrypted(b)'
            PROVE  At(decrypted, b)' = At(message, b)
        <5>1. b < block \/ b = block
          <6>1. b < block + 16
            BY <1>0, <3>1, <4>2 DEF Decrypted
          <6> QED BY <1>1, <6>1
        <5>2. CASE b = block
          BY <3>3, <3>4, <4>1, <5>2
        <5>3. CASE b # block
          <6>1. Decrypted(b)
            BY <1>0, <5>1, <5>3 DEF Decrypted
          <6>2. At(decrypted, b) = At(message, b)
            BY <1>0, <6>1 DEF DecryptRetraces
          <6> QED BY <3>4, <4>1, <5>3, <6>2
        <5> QED BY <5>2, <5>3
      <4>3. ~(round' > 0)
        BY <3>1
      <4> QED BY <1>3, <4>2, <4>3 DEF DecryptRetraces
    <3> QED BY <1>5, <1>6, <3>5, <3>6 DEF IInv
  <2> QED BY <2>5, <2>6
<1> QED BY <1>7, <1>8

LEMMA NextIInv == IInv /\ [Next]_vars => IInv'
<1> SUFFICES ASSUME IInv, [Next]_vars PROVE IInv'
  OBVIOUS
<1>1. CASE Next
  BY <1>1, StepStart, StepReturn, StepEncrypt, StepDecrypt DEF Next
<1>2. CASE UNCHANGED vars
  <2>0. TypeOK /\ EncryptTraced /\ DecryptRetraces /\ HistoryOK
    BY DEF IInv
  <2>1. UNCHANGED <<msg, len, message, encrypted, decrypted, key, words, inv_sbox, pc,
                    block, state, round, trace>>
    BY <1>2 DEF vars
  <2>2. /\ Buffer' = Buffer /\ Blocks' = Blocks
        /\ \A b : /\ Begun(b)' = Begun(b) /\ Encrypted(b)' = Encrypted(b)
                  /\ Decrypted(b)' = Decrypted(b)
                  /\ At(message, b)' = At(message, b)
                  /\ At(encrypted, b)' = At(encrypted, b)
                  /\ At(decrypted, b)' = At(decrypted, b)
    BY <2>1 DEF Buffer, Blocks, Begun, Encrypted, Decrypted, At
  <2>3. TypeOK'
    BY <2>0, <2>1, <2>2 DEF TypeOK
  <2>4. EncryptTraced'
    BY <2>0, <2>1, <2>2 DEF EncryptTraced
  <2>5. DecryptRetraces'
    BY <2>0, <2>1, <2>2 DEF DecryptRetraces
  <2>6. HistoryOK'
    BY <2>0, <2>1 DEF HistoryOK
  <2> QED BY <2>3, <2>4, <2>5, <2>6 DEF IInv
<1> QED BY <1>1, <1>2

LEMMA Invariance == Spec => []IInv
<1> QED BY InitIInv, NextIInv, PTL DEF Spec

-----------------------------------------------------------------------------
(* The buffers, the schedule and the states keep their shape: nothing is   *)
(* written outside a buffer, whatever the length of the message.           *)
THEOREM AesTypeCorrect == Spec => []TypeOK
<1>1. IInv => TypeOK
  BY DEF IInv
<1> QED BY <1>1, Invariance, PTL

(* aes_encrypt_buffer runs every block through the ten rounds, each with   *)
(* the words of its own round, and stores it at its own place.             *)
THEOREM EncryptionCorrect == Spec => []EncryptTraced
<1>1. IInv => EncryptTraced
  BY DEF IInv
<1> QED BY <1>1, Invariance, PTL

(* aes128_decrypt passes through the states of aes128_encrypt backwards.   *)
THEOREM DecryptionCorrect == Spec => []DecryptRetraces
<1>1. IInv => DecryptRetraces
  BY DEF IInv
<1> QED BY <1>1, Invariance, PTL

(* The whole padded message comes back.                                    *)
THEOREM RoundTripCorrect == Spec => []RoundTrip
<1>1. IInv => RoundTrip
  <2> SUFFICES ASSUME IInv, pc = "done" PROVE decrypted = message
    BY DEF RoundTrip
  <2>1. /\ len \in Nat /\ len % 16 = 0 /\ message \in [0 .. len-1 -> Byte]
        /\ decrypted \in [0 .. len-1 -> Byte \cup {Junk}]
        /\ \A b \in Blocks : At(decrypted, b) = At(message, b)
    BY LenNat DEF IInv, TypeOK, DecryptRetraces, Decrypted, Buffer
  <2>2. ASSUME NEW p \in 0 .. len-1
        PROVE  decrypted[p] = message[p]
    <3>0. p \in Nat /\ 16 \in Nat \ {0}
      BY <2>1
    <3> PICK q \in Nat, r \in 0 .. 15 : p = q * 16 + r /\ p \div 16 = q
      BY <3>0, DivModParts
    <3> DEFINE b == q * 16
    <3>1. (q * 16 + 0) % 16 = 0
      BY DivModUnique
    <3>2. b \in Blocks
      BY <2>1, <3>1 DEF Blocks
    <3>3. p = b + r
      OBVIOUS
    <3> HIDE DEF b
    <3>4. At(decrypted, b)[r] = At(message, b)[r]
      BY <2>1, <3>2
    <3> QED BY <3>3, <3>4 DEF At
  <2> QED BY <2>1, <2>2
<1> QED BY <1>1, Invariance, PTL
=============================================================================
