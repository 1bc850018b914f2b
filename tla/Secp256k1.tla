------------------------------ MODULE Secp256k1 -------------------------------
(* The arithmetic behind signatures (src/secp256k1_math/secp256k1.cpp).       *)
(*                                                                            *)
(* Scaled down: M instead of 2^256 and Word instead of 2^64, M = Word^4.  The *)
(* primes are M - negP, with negP below Word, and M - negN, with negN between *)
(* the root of M and twice that.  A number of more bits than it can have is   *)
(* cut off as the type of the code that holds it does.  The long chains of    *)
(* squares and products behind inverses and roots are followed in the         *)
(* exponents, which are those of the real primes.                             *)
EXTENDS Integers, Sequences

CONSTANTS M, Word, negP, negN

P == M - negP
N == M - negN

U256(a) == a % M
U257(a) == a % (2 * M)
U320(a) == a % (M * Word)
U448(a) == a % (M * Word * Word * Word)
Top(a) == a \div M

(******************************************************************************)
(* Modulo P                                                                   *)
(******************************************************************************)
\* What is above M, times negP, added to what is below: the same modulo P.
FoldP(a) == Top(a) * negP + U256(a)

u257_mod_p(a) == LET t == U257(a + negP) IN IF Top(t) # 0 THEN U256(t) ELSE U256(a)

u256_norm_p(a) == u257_mod_p(a)
u256_add_p(a, b) == u257_mod_p(U257(a + b))
u256_sub_p(a, b) == IF a >= b THEN a - b ELSE U256(a - b + P)
u256_neg_p(a) == IF a # 0 THEN U256(P - a) ELSE 0

u320_to_u256(a) == U256(FoldP(U257(FoldP(a))))
u512_to_u256(a) == u320_to_u256(U320(FoldP(a)))
u512_mod_p(a) == u257_mod_p(U257(FoldP(U320(FoldP(a)))))

\* Mutant: the carry of the first sum is forgotten.
u320_mod_p_carry(a) ==
  LET s == U256(FoldP(a)) + negP IN IF Top(s) # 0 THEN U256(s) ELSE U256(FoldP(a))

\* The variants on words, where a carry out of the fourth word is a word too.
u320_mod_p_words(a) ==
  LET t == FoldP(a)
      s == U256(t) + negP
  IN  IF Top(t) + Top(s) # 0 THEN U256(s) ELSE U256(t)
\* The asm adders: the words of s are added to those of t, and the carry runs on.
AddWords(t, s) == (t + s) % (M * M)
\* u256_square_p: ten products of words; the products with two different
\* factors are added twice, each sum one of the asm adders.
SquareOfWords(a) ==
  LET w(i) == (a \div Word^i) % Word
      l(i, j) == (w(i) * w(j)) % Word
      h(i, j) == (w(i) * w(j)) \div Word
      at(s, i) == s * Word^i
      start == l(0, 0) + at(l(0, 1), 1) + at(l(0, 2), 2) + at(l(0, 3), 3) + at(l(1, 3), 4)
               + at(l(2, 3), 5) + at(l(3, 3), 6) + at(h(3, 3), 7)
      sum1 == at(l(0, 1), 1) + at(l(1, 1), 2) + at(l(1, 2), 3) + at(l(2, 2), 4)
              + at(l(2, 3), 5) + at(h(2, 3), 6)
      sum2 == at(h(0, 0), 1) + at(l(0, 2), 2) + at(l(1, 2), 3) + at(l(1, 3), 4)
              + at(h(1, 3), 5) + at(h(2, 3), 6)
      sum3 == at(h(0, 1), 2) + at(l(0, 3), 3) + at(h(0, 3), 4) + at(h(2, 2), 5)
      sum4 == at(h(0, 1), 2) + at(h(0, 2), 3) + at(h(1, 2), 4) + at(h(1, 3), 5)
      sum5 == at(h(1, 1), 3) + at(h(1, 2), 4)
      sum6 == at(h(0, 2), 3) + at(h(0, 3), 4)
  IN  AddWords(AddWords(AddWords(AddWords(AddWords(AddWords(start,
        sum1), sum2), sum3), sum4), sum5), sum6)
u256_square_p(a) == u320_mod_p_words(FoldP(SquareOfWords(a)))

u256_mul_p(a, b) == u512_mod_p(a * b)
u256_add_u64_p(a, w) == u257_mod_p(a + w)
u256_mul_u64_p(a, w) == u512_mod_p(U320(a * w))
\* The product used inside this file, below M but not always below P.
mul_p(a, b) == u512_to_u256(a * b)

(******************************************************************************)
(* Modulo N                                                                   *)
(******************************************************************************)
FoldN(a) == Top(a) * negN + U256(a)

u257_mod_n(a) == LET t == U257(a + negN) IN IF Top(t) # 0 THEN U256(t) ELSE U256(a)

u256_norm_n(a) == u257_mod_n(a)
u256_add_n(a, b) == u257_mod_n(U257(a + b))
u256_sub_n(a, b) == IF a >= b THEN a - b ELSE U256(a - b - negN)
u256_neg_n(a) == IF a # 0 THEN U256(N - a) ELSE 0
u512_mod_n(a) == u257_mod_n(U257(U320(FoldN(U320(FoldN(U448(FoldN(a))))))))
u256_mul_n(a, b) == u512_mod_n(a * b)
u256_square_n(a) == u512_mod_n(a * a)
u256_mul_u64_n(a, w) == u257_mod_n(U257(FoldN(U320(a * w))))
\* The product used inside u256_inv_n: the last sum is cut off at M.
mul_n(a, b) == U256(FoldN(U320(FoldN(U448(FoldN(a * b))))))

(******************************************************************************)
(* Points: x and y in terms of z, where z = 0 is the point at infinity.       *)
(******************************************************************************)
IsZero(a) == a.z = 0

u512_to_u257_p(a) == U257(FoldP(U320(FoldP(a))))
u257_to_u256_p(a) == U256(FoldP(a))
u256_fast_mul_p(a, b) == u512_to_u257_p(a * b)
u320_mod_p(a) == u257_mod_p(U257(FoldP(a)))
u320_neg_p(a) == u256_neg_p(u320_mod_p(a))

\* The double of the point a, whose z times its y is yz.
Doubled(a, yz) ==
  LET xx == u256_fast_mul_p(a.x, a.x)
      yy == u257_to_u256_p(u256_fast_mul_p(a.y, a.y))
      xyy4 == U320(4 * u256_fast_mul_p(a.x, yy))
      xx3 == u320_to_u256(U320(3 * xx))
      x == u257_mod_p(mul_p(xx3, xx3) + u320_neg_p(U320(2 * xyy4)))
      t5 == mul_p(xx3, u320_to_u256(U320(xyy4 + u256_neg_p(x))))
  IN  [x |-> x,
       y |-> u257_mod_p(t5 + u320_neg_p(U320(8 * mul_p(yy, yy)))),
       z |-> u257_mod_p(2 * yz)]
jpoint_double(a) == IF IsZero(a) THEN a ELSE Doubled(a, mul_p(a.y, a.z))
point_double(a) == Doubled(a, a.y)

\* The sum of two points whose x are u1 and u2 and whose y are s1 and s2 in terms
\* of z; same is their double, when they are the same point.
Sum(u1, u2, s1, s2, z, same) ==
  LET h == u257_to_u256_p(u2 + u256_neg_p(u1))
      s == u257_to_u256_p(s2 + u256_neg_p(s1))
      hh == mul_p(h, h)
      hhh == mul_p(hh, h)
      uhh == mul_p(hh, u1)
      x == u257_mod_p(mul_p(s, s) + u256_neg_p(u320_mod_p(U320(hhh + 2 * uhh))))
      t4 == mul_p(s, u257_to_u256_p(uhh + u256_neg_p(x)))
      t6 == u256_neg_p(u257_mod_p(u256_fast_mul_p(s1, hhh)))
  IN  IF u1 # u2
      THEN [x |-> x, y |-> u257_mod_p(t4 + t6), z |-> u257_mod_p(u256_fast_mul_p(z, h))]
      ELSE IF s1 = s2 THEN same
      ELSE [x |-> 0, y |-> 0, z |-> 0]

jpoint_add(a, b) ==
  LET aZZ == mul_p(a.z, a.z)
      bZZ == mul_p(b.z, b.z)
  IN  IF IsZero(a) THEN b
      ELSE IF IsZero(b) THEN a
      ELSE Sum(u257_mod_p(u256_fast_mul_p(a.x, bZZ)),
               u257_mod_p(u256_fast_mul_p(b.x, aZZ)),
               u257_mod_p(u256_fast_mul_p(mul_p(a.y, bZZ), b.z)),
               u257_mod_p(u256_fast_mul_p(mul_p(b.y, aZZ), a.z)),
               mul_p(a.z, b.z), jpoint_double(a))

\* The second point has no z: it is 1, and is never infinity.
jpoint_add_point(a, b) ==
  LET aZZ == mul_p(a.z, a.z)
  IN  IF IsZero(a) THEN [x |-> b.x, y |-> b.y, z |-> 1]
      ELSE Sum(a.x, u257_mod_p(u256_fast_mul_p(b.x, aZZ)),
               a.y, u257_mod_p(u256_fast_mul_p(mul_p(b.y, aZZ), a.z)),
               a.z, point_double(b))
===============================================================================
