---------------------------- MODULE AdditionChains -----------------------------
(* The chains of squares and products with which secp256k1.cpp computes       *)
(* inverses and square roots, followed in the exponents of the operand x.     *)
(*                                                                            *)
(* An exponent is the sequence of its bits, the least significant first: a    *)
(* square is a bit 0 put before it, a product a sum.  The names are those of  *)
(* the variables of the code, which give the exponent in binary where they    *)
(* can.                                                                       *)
EXTENDS Integers, Sequences

Bit(e, i) == IF i <= Len(e) THEN e[i] ELSE 0
Longer(e, f) == IF Len(e) > Len(f) THEN Len(e) ELSE Len(f)

\* The exponent of the product of two powers of x: a carry is generated where
\* both have a bit and goes on while either has.
TimesOver(e, f, L, both) ==
  LET Carry(i) == IF \E k \in both : k < i /\ \A m \in k + 1 .. i - 1 : Bit(e, m) + Bit(f, m) > 0
                  THEN 1 ELSE 0
  IN  SubSeq([i \in 1 .. L + 1 |-> (Bit(e, i) + Bit(f, i) + Carry(i)) % 2], 1, L + Carry(L + 1))
Times(e, f) ==
  TimesOver(e, f, Longer(e, f), {k \in 1 .. Longer(e, f) : Bit(e, k) + Bit(f, k) = 2})

\* The exponent of a power squared n times.
Squared(e, n) == [i \in 1 .. n |-> 0] \o e

\* A loop of n squares, followed by a product.
Then(e, n, f) == Times(Squared(e, n), f)
Again(e, n) == Then(e, n, e)

x == <<1>>

\* u256_inv_p
InverseP ==
  LET t10 == Squared(x, 1)
      t101 == Times(x, Squared(t10, 1))
      t111 == Times(t10, t101)
      t1110 == Squared(t111, 1)
      t111111 == Times(t111, Squared(t1110, 2))
      i13 == Then(t111111, 4, t1110)
      x12 == Then(i13, 2, t111)
      x22 == Times(Then(x12, 10, i13), x)
      i29 == Squared(x22, 1)
      i31 == Squared(i29, 2)
      i54 == Again(i31, 22)
      i122 == Then(Then(i54, 20, i29), 46, i54)
      x223 == Times(Again(i122, 110), t111)
      i269 == Squared(Then(Then(x223, 23, x22), 7, t101), 3)
  IN  Times(t101, i269)

\* u256_sqrt_p: the root it returns, and the power that has to be 1.
RootOf(t) == [result |-> Times(t, x), cond |-> Times(Times(t, x), t)]
RootP ==
  LET t11 == Times(x, Squared(x, 1))
      t1111 == Times(t11, Squared(t11, 2))
      t11111 == Times(x, Squared(t1111, 1))
      t1111111 == Times(t11, Squared(t11111, 2))
      x11 == Then(t1111111, 4, t1111)
      x22 == Again(x11, 11)
      x27 == Then(x22, 5, t11111)
      x54 == Again(x27, 27)
      x108 == Again(x54, 54)
      x216 == Again(x108, 108)
      x223 == Then(x216, 7, t1111111)
      i266 == Squared(Then(Then(x223, 23, x22), 5, x), 3)
  IN  RootOf(Times(t11, i266))

\* u256_inv_n, in three parts.
ShortPowers ==
  LET t10 == Squared(x, 1)
      t11 == Times(x, t10)
      t101 == Times(t10, t11)
      t111 == Times(t10, t101)
      t1001 == Times(t10, t111)
      t1011 == Times(t10, t1001)
      t1101 == Times(t10, t1011)
      t111111 == Times(t1011, Squared(t1101, 2))
      t1111111 == Times(x, Squared(t111111, 1))
      t11111111 == Times(x, Squared(t1111111, 1))
  IN  [t11 |-> t11, t101 |-> t101, t111 |-> t111, t1001 |-> t1001, t1011 |-> t1011,
       t1101 |-> t1101, t111111 |-> t111111, t1111111 |-> t1111111, t11111111 |-> t11111111]
Power127(s) ==
  LET i17 == Squared(s.t11111111, 3)
      i19 == Squared(i17, 2)
      i20 == Squared(i19, 1)
      i21 == Squared(i20, 1)
      i39 == Then(Then(i21, 7, i20), 9, i21)
      i73 == Then(Then(i39, 6, i19), 26, i39)
  IN  Times(Then(Then(i73, 4, i17), 60, i73), s.t1111111)
LongPower(s, x127) ==
  LET i154 == Squared(Then(Then(x127, 5, s.t1011), 3, s.t101), 4)
      i166 == Then(Then(Times(s.t101, i154), 4, s.t111), 5, s.t1101)
      i181 == Squared(Then(Then(i166, 2, s.t11), 5, s.t111), 6)
      i193 == Then(Then(Times(s.t1101, i181), 5, s.t1011), 4, s.t1101)
      i214 == Squared(Then(Then(i193, 3, x), 6, s.t101), 10)
      i230 == Then(Then(Times(s.t111, i214), 4, s.t111), 9, s.t11111111)
      i247 == Squared(Then(Then(i230, 5, s.t1001), 6, s.t1011), 4)
      i261 == Then(Then(Times(s.t1101, i247), 5, s.t11), 6, s.t1101)
      i283 == Squared(Then(Then(i261, 10, s.t1101), 4, s.t1001), 6)
  IN  Then(Times(x, i283), 8, s.t111111)
InverseFrom(s) == LongPower(s, Power127(s))
InverseN == InverseFrom(ShortPowers)
===============================================================================
