--------------------------------- MODULE Intx ---------------------------------
(* The fixed-size integers of the EVM (src/evmone/include/intx).              *)
(*                                                                            *)
(* A number is the sequence of its words, the least significant first: two    *)
(* words are a uint128, four a uint256, eight a uint512.  Its first half is   *)
(* the field lo and its second half the field hi.  A word has W bits instead  *)
(* of 64, W a power of 2.  Shifting a word by W bits or more is undefined: it *)
(* gives a value no word has.                                                 *)
EXTENDS Integers, Sequences, Bitwise

CONSTANT W

B == 2^W
Word == 0 .. B - 1
Undefined == -1
Bit(b) == IF b THEN 1 ELSE 0

Lo(x) == SubSeq(x, 1, Len(x) \div 2)
Hi(x) == SubSeq(x, (Len(x) \div 2) + 1, Len(x))
Bits(x) == Len(x) * W

\* The value w, zero-extended to n words.
Extend(x, n) == SubSeq(x \o [i \in 1 .. n |-> 0], 1, n)
Small(w, n) == Extend(<<w>>, n)
Zero(n) == Small(0, n)

ShlWord(w, s) == IF s < W THEN (w * 2^s) % B ELSE Undefined
ShrWord(w, s) == IF s < W THEN w \div 2^s ELSE Undefined
OrWord(v, w) == IF Undefined \in {v, w} THEN Undefined ELSE v | w

(******************************************************************************)
(* Sums, comparisons, bits                                                    *)
(******************************************************************************)
Joined(lo, hi) == [value |-> lo.value \o hi.value, carry |-> hi.carry]

SumWith(w, s, c) == [value |-> <<(s + c) % B>>, carry |-> s < w \/ (s + c) % B < s]
RECURSIVE AddWithCarry(_, _, _)
AddWithCarry(x, y, carry) ==
  IF Len(x) = 1 THEN SumWith(x[1], (x[1] + y[1]) % B, Bit(carry))
  ELSE LET lo == AddWithCarry(Lo(x), Lo(y), carry)
       IN  Joined(lo, AddWithCarry(Hi(x), Hi(y), lo.carry))

LessWith(w, d, c) == [value |-> <<(d - c) % B>>, carry |-> d > w \/ (d - c) % B > d]
RECURSIVE SubWithCarry(_, _, _)
SubWithCarry(x, y, carry) ==
  IF Len(x) = 1 THEN LessWith(x[1], (x[1] - y[1]) % B, Bit(carry))
  ELSE LET lo == SubWithCarry(Lo(x), Lo(y), carry)
       IN  Joined(lo, SubWithCarry(Hi(x), Hi(y), lo.carry))

Add(x, y) == AddWithCarry(x, y, FALSE).value
Sub(x, y) == SubWithCarry(x, y, FALSE).value

\* add_loop: the words one after the other.
AddLoop(x, y) ==
  LET s[i \in 0 .. Len(x)] ==
        IF i = 0 THEN [z |-> <<>>, k |-> FALSE]
        ELSE LET before == s[i - 1]
                 t == (x[i] + y[i]) % B
                 z == (t + Bit(before.k)) % B
             IN  [z |-> Append(before.z, z), k |-> z < Bit(before.k) \/ t < x[i]]
  IN  s[Len(x)].z

RECURSIVE Less(_, _)
Less(x, y) ==
  IF Len(x) = 1 THEN x[1] < y[1]
  ELSE Less(Hi(x), Hi(y)) \/ (Hi(x) = Hi(y) /\ Less(Lo(x), Lo(y)))
AtLeast(x, y) == ~ Less(x, y)

Complement(x) == [i \in DOMAIN x |-> B - 1 - x[i]]
BitOr(x, y) == [i \in DOMAIN x |-> OrWord(x[i], y[i])]
Neg(x) == IF Len(x) = 2 THEN Sub(Zero(2), x) ELSE Add(Complement(x), Small(1, Len(x)))

RECURSIVE Shl(_, _), Shr(_, _)
Shl(x, s) ==
  LET half == Bits(x) \div 2
  IN  IF Len(x) = 1 THEN <<ShlWord(x[1], s)>>
      ELSE IF s < half
      THEN Shl(Lo(x), s) \o BitOr(Shl(Hi(x), s), Shr(Shr(Lo(x), half - s - 1), 1))
      ELSE IF s < Bits(x) THEN Zero(Len(x) \div 2) \o Shl(Lo(x), s - half)
      ELSE Zero(Len(x))
Shr(x, s) ==
  LET half == Bits(x) \div 2
  IN  IF Len(x) = 1 THEN <<ShrWord(x[1], s)>>
      ELSE IF s < half
      THEN BitOr(Shr(Lo(x), s), Shl(Shl(Hi(x), half - s - 1), 1)) \o Shr(Hi(x), s)
      ELSE IF s < Bits(x) THEN Shr(Hi(x), s - half) \o Zero(Len(x) \div 2)
      ELSE Zero(Len(x))

\* shl_loop: word by word, with the bits that leave a word carried to the next.
ShlLoop(x, shift) ==
  LET s == shift % W
      skip == shift \div W
      carry(i) == IF i = 0 THEN 0 ELSE ShrWord(ShrWord(x[i], W - s - 1), 1)
  IN  [i \in DOMAIN x |->
         IF i <= skip THEN 0 ELSE OrWord(ShlWord(x[i - skip], s), carry(i - skip - 1))]

\* A shift by a number of any size.
ShiftCount(y) == IF \A i \in 1 .. Len(y) : i * W > 16 => y[i] = 0
                 THEN LET v[i \in 0 .. Len(y)] ==
                            IF i = 0 THEN 0
                            ELSE IF y[i] = 0 THEN v[i - 1] ELSE v[i - 1] + y[i] * B^(i - 1)
                      IN  v[Len(y)]
                 ELSE 2^16
ShlBy(x, y) == IF ShiftCount(y) < Bits(x) THEN Shl(x, ShiftCount(y)) ELSE Zero(Len(x))

\* clz, and clz_generic, which halves the part of the word it looks at.
RECURSIVE Clz(_), ClzFrom(_, _, _)
ClzFrom(x, n, s) ==
  IF s = 0 THEN n - x
  ELSE LET hi == x \div 2^s
       IN  IF hi # 0 THEN ClzFrom(hi, n - s, s \div 2) ELSE ClzFrom(x, n, s \div 2)
ClzGeneric(w) == ClzFrom(w, W, W \div 2)
Clz(x) ==
  IF Len(x) = 1 THEN ClzGeneric(x[1])
  ELSE IF Hi(x) = Zero(Len(Hi(x))) THEN Clz(Lo(x)) + (Bits(x) \div 2) ELSE Clz(Hi(x))

RECURSIVE CountSignificantWords(_)
CountSignificantWords(x) ==
  IF Len(x) = 1 THEN Bit(x[1] # 0)
  ELSE LET h == CountSignificantWords(Hi(x))
       IN  IF h # 0 THEN h + (Len(x) \div 2) ELSE CountSignificantWords(Lo(x))

(******************************************************************************)
(* Products                                                                   *)
(******************************************************************************)
\* The product of two words from those of their halves, as if none were wider.
ConstexprUmulWords(x, y) ==
  LET h == 2^(W \div 2)
      t0 == (x % h) * (y % h)
      t1 == (x \div h) * (y % h)
      t2 == (x % h) * (y \div h)
      t3 == (x \div h) * (y \div h)
      u1 == (t1 + (t0 \div h)) % B
      u2 == (t2 + (u1 % h)) % B
  IN  <<((u2 * h) % B) | (t0 % h), (t3 + (u2 \div h) + (u1 \div h)) % B>>

UmulWords(x, y) == <<(x * y) % B, (x * y) \div B>>

\* umul, or constexpr_umul, which does without a product of words.
RECURSIVE UmulBy(_, _, _)
UmulBy(x, y, portable) ==
  IF Len(x) = 1
  THEN IF portable THEN ConstexprUmulWords(x[1], y[1]) ELSE UmulWords(x[1], y[1])
  ELSE LET t0 == UmulBy(Lo(x), Lo(y), portable)
           t1 == UmulBy(Hi(x), Lo(y), portable)
           t2 == UmulBy(Lo(x), Hi(y), portable)
           t3 == UmulBy(Hi(x), Hi(y), portable)
           u1 == Add(t1, Extend(Hi(t0), Len(x)))
           u2 == Add(t2, Extend(Lo(u1), Len(x)))
       IN  BitOr(Shl(u2, Bits(x) \div 2), Extend(Lo(t0), Len(x)))
             \o Add(Add(t3, Extend(Hi(u2), Len(x))), Extend(Hi(u1), Len(x)))
Umul(x, y) == UmulBy(x, y, FALSE)
ConstexprUmul(x, y) == UmulBy(x, y, TRUE)

\* One line of the schoolbook product: p, from its word j on, plus v times the
\* first count words of u, and the word that is left over.
WithWord(p, at, t) == [p |-> [p EXCEPT ![at] = t[1]], k |-> t[2]]
MulLine(p, u, v, j, count) ==
  LET line[i \in 0 .. count] ==
        IF i = 0 THEN [p |-> p, k |-> 0]
        ELSE LET before == line[i - 1]
             IN  WithWord(before.p, i + j - 1,
                          Add(Add(UmulWords(u[i], v), Small(before.p[i + j - 1], 2)),
                              Small(before.k, 2)))
  IN  line[count]

WithRest(line, at) == [line.p EXCEPT ![at] = line.k]
UmulLoop(u, v) ==
  LET n == Len(u)
      after[j \in 0 .. n] ==
        IF j = 0 THEN Zero(2 * n) ELSE WithRest(MulLine(after[j - 1], u, v[j], j, n), j + n)
  IN  after[n]

WithLast(line, at, product) == [line.p EXCEPT ![at] = (@ + product + line.k) % B]
MulLoopOpt(u, v) ==
  LET n == Len(u)
      after[j \in 0 .. n] ==
        IF j = 0 THEN Zero(n)
        ELSE WithLast(MulLine(after[j - 1], u, v[j], j, n - j), n, u[n - j + 1] * v[j])
  IN  after[n]

\* The product of a uint128 or a uint256, from halves; of a uint512 in a loop.
PlusHigh(t, cross) == Lo(t) \o Add(cross, Hi(t))
RECURSIVE MulHalves(_, _)
MulHalves(x, y) ==
  IF Len(x) = 1 THEN <<(x[1] * y[1]) % B>>
  ELSE PlusHigh(Umul(Lo(x), Lo(y)),
                Add(MulHalves(Lo(x), Hi(y)), MulHalves(Hi(x), Lo(y))))
Mul(x, y) == IF Len(x) <= 4 THEN MulHalves(x, y) ELSE MulLoopOpt(x, y)

Sqr(x) ==
  PlusHigh(Umul(Lo(x), Lo(x)), Mul(Small(2, Len(x) \div 2), Mul(Lo(x), Hi(x))))

RECURSIVE Power(_, _, _)
Power(result, base, exponent) ==
  IF exponent = Zero(Len(exponent)) THEN result
  ELSE Power(IF exponent[1] % 2 = 1 THEN Mul(result, base) ELSE result,
             Sqr(base), Shr(exponent, 1))
Exp(base, exponent) ==
  IF base = Small(2, Len(base)) THEN ShlBy(Small(1, Len(base)), exponent)
  ELSE Power(Small(1, Len(base)), base, exponent)

(******************************************************************************)
(* Quotients                                                                  *)
(******************************************************************************)
\* reciprocal_2by1 by its result; the steps there are made for words of 64 bits.
Reciprocal2by1(d) == ((B * B - 1) \div d) - B

\* reciprocal_3by2: Reciprocal2by1 of the upper word, corrected twice.
Reciprocal3by2(d) ==
  LET corrected(v, p, t) ==
        IF p >= t[2] THEN v
        ELSE IF p > d[2] \/ (p = d[2] /\ t[1] >= d[1]) THEN (v - 2) % B
        ELSE (v - 1) % B
      again(v, p) == LET t == UmulWords(v, d[1]) IN corrected(v, (p + t[2]) % B, t)
      times(p) == IF p >= d[1] THEN 0 ELSE IF p >= d[2] THEN 2 ELSE 1
      first(v, p) == again((v - times(p)) % B, (p - times(p) * d[2]) % B)
      guess(v) == first(v, (d[2] * v + d[1]) % B)
  IN  guess(Reciprocal2by1(d[2]))

\* Two words by one, the quotient guessed with the reciprocal v.
Udivrem2by1(u, d, v) ==
  LET last(q, r) == IF r >= d THEN [quot |-> (q + 1) % B, rem |-> r - d] ELSE [quot |-> q, rem |-> r]
      corrected(q, r, low) ==
        IF r > low THEN last((q - 1) % B, (r + d) % B) ELSE last(q, r)
      guess(q, low) == corrected(q, (u[1] - q * d) % B, low)
      product(q) == guess((q[2] + 1) % B, q[1])
  IN  product(Add(UmulWords(v, u[2]), u))

Last3by2(q, r, d) ==
  IF AtLeast(r, d) THEN [quot |-> (q + 1) % B, rem |-> Sub(r, d)] ELSE [quot |-> q, rem |-> r]
Corrected3by2(q, r, low, d) ==
  Last3by2(IF r[2] >= low THEN (q - 1) % B ELSE q, IF r[2] >= low THEN Add(r, d) ELSE r, d)
Guessed3by2(q, u1, u0, d) ==
  Corrected3by2((q[2] + 1) % B,
                Sub(Sub(<<u0, (u1 - q[2] * d[2]) % B>>, UmulWords(d[1], q[2])), d), q[1], d)
Udivrem3by2(u2, u1, u0, d, v) == Guessed3by2(Add(UmulWords(v, u2), <<u1, u2>>), u1, u0, d)

Udivrem128(x, y) ==
  LET masked(w, lsh) == IF lsh = 0 THEN 0 ELSE ShrWord(w, (W - lsh) % W)
      shifted(z, lsh) == <<ShlWord(z[1], lsh), OrWord(ShlWord(z[2], lsh), masked(z[1], lsh))>>
      halves(r1, r2, lsh) == [quot |-> <<r2.quot, r1.quot>>, rem |-> <<ShrWord(r2.rem, lsh), 0>>]
      rest(r, xn, d, v, lsh) == halves(r, Udivrem2by1(<<xn[1], r.rem>>, d, v), lsh)
      by1(xn, d, v, lsh) == rest(Udivrem2by1(<<xn[2], masked(x[2], lsh)>>, d, v), xn, d, v, lsh)
      by2(r, lsh) == [quot |-> Small(r.quot, 2), rem |-> Shr(r.rem, lsh)]
      divide(xn, yn, lsh) ==
        IF y[2] = 0 THEN by1(xn, yn[1], Reciprocal2by1(yn[1]), lsh)
        ELSE IF y[2] > x[2] THEN [quot |-> Zero(2), rem |-> x]
        ELSE IF lsh = 0
        THEN IF y[2] < x[2] \/ y[1] <= x[1] THEN [quot |-> Small(1, 2), rem |-> Sub(x, y)]
             ELSE [quot |-> Zero(2), rem |-> x]
        ELSE by2(Udivrem3by2(masked(x[2], lsh), xn[2], xn[1], yn, Reciprocal3by2(yn)), lsh)
      start(lsh) == divide(shifted(x, lsh), shifted(y, lsh), lsh)
  IN  start(IF y[2] = 0 THEN Clz(<<y[1]>>) ELSE Clz(<<y[2]>>))

\* The operands of a longer division, shifted until the divisor's top bit is
\* set, and the number of words of each that count.  The numerator has one more
\* word, numerator_ex; the word before its first is the divisor's last.
Normalize(u, v) ==
  LET words == Len(u)
      moved(x, i, s) ==
        IF s = 0 THEN IF i > words THEN 0 ELSE x[i]
        ELSE OrWord(IF i > words THEN 0 ELSE ShlWord(x[i], s),
                    IF i = 1 THEN 0 ELSE ShrWord(x[i - 1], W - s))
      first(x, k, s) == SubSeq([i \in 1 .. k |-> moved(x, i, s)], 1, k)
      count(un, vn, m, n) ==
        IF un[m + 1] # 0 \/ (IF m = 0 THEN vn[words] ELSE un[m]) >= vn[n] THEN m + 1 ELSE m
      result(un, vn, m, n, s) ==
        [divisor |-> vn, numerator |-> un, n |-> n, shift |-> s, m |-> count(un, vn, m, n)]
      shift(m, n, s) == result(first(u, words + 1, s), first(v, words, s), m, n, s)
      from(m, n) == shift(m, n, Clz(<<v[n]>>))
      top(x) == CHOOSE k \in 0 .. words :
                  (k > 0 => x[k] # 0) /\ \A j \in k + 1 .. words : x[j] = 0
  IN  from(top(u), top(v))

\* The first len words of u by one word d; u becomes the quotient.
UdivremBy1(u, len, d) ==
  LET v == Reciprocal2by1(d)
      step[k \in 0 .. len - 1] ==
        IF k = 0 THEN [u |-> [u EXCEPT ![len] = 0], rem |-> u[len]]
        ELSE LET before == step[k - 1]
                 i == len - k
                 r == Udivrem2by1(<<before.u[i], before.rem>>, d, v)
             IN  [u |-> [before.u EXCEPT ![i] = r.quot], rem |-> r.rem]
  IN  step[len - 1]

\* By two words.
UdivremBy2(u, len, d) ==
  LET v == Reciprocal3by2(d)
      step[k \in 0 .. len - 2] ==
        IF k = 0
        THEN [u |-> [u EXCEPT ![len] = 0, ![len - 1] = 0], rem |-> <<u[len - 1], u[len]>>]
        ELSE LET before == step[k - 1]
                 i == len - 1 - k
                 r == Udivrem3by2(before.rem[2], before.rem[1], before.u[i], d, v)
             IN  [u |-> [before.u EXCEPT ![i] = r.quot], rem |-> r.rem]
  IN  step[len - 2]

\* add: the carry runs from word to word.
AddChain(x, y) ==
  LET sum[i \in 0 .. Len(x)] ==
        IF i = 0 THEN [value |-> <<>>, carry |-> FALSE]
        ELSE LET before == sum[i - 1]
             IN  Joined(before, AddWithCarry(<<x[i]>>, <<y[i]>>, before.carry))
  IN  sum[Len(x)]

\* add and submul on the len words of u from the j-th on, and what leaves them.
AddWords(u, j, d, len) ==
  LET put(r) == [u |-> SubSeq(u, 1, j - 1) \o r.value \o SubSeq(u, j + len, Len(u)),
                 carry |-> Bit(r.carry)]
  IN  put(AddChain(SubSeq(u, j, j + len - 1), SubSeq(d, 1, len)))
Submul(u, j, d, len, multiplier) ==
  LET word(x, i, p, s, t) == [u |-> [x EXCEPT ![i] = t.value[1]],
                              borrow |-> (p[2] + Bit(s.carry) + Bit(t.carry)) % B]
      less(x, i, p, s) == word(x, i, p, s, SubWithCarry(s.value, <<p[1]>>, FALSE))
      step[k \in 0 .. len] ==
        IF k = 0 THEN [u |-> u, borrow |-> 0]
        ELSE LET before == step[k - 1]
                 i == j + k - 1
             IN  less(before.u, i, UmulWords(d[k], multiplier),
                      SubWithCarry(<<before.u[i]>>, <<before.borrow>>, FALSE))
  IN  step[len]

\* One digit of Knuth's division: the words of u from the j-th on by d.
\* The quotient guessed by the top words is one too much if a borrow is left.
KnuthBack(r, at, d, q) ==
  [q |-> (q - 1) % B, u |-> [r.u EXCEPT ![at] = (@ + d + r.carry) % B]]
KnuthChecked(u, j, d, n, q, borrow) ==
  IF ~ borrow THEN [q |-> q, u |-> u] ELSE KnuthBack(AddWords(u, j, d, n - 1), j + n - 1, d[n], q)
KnuthLess(u, j, d, n, q, a, b) ==
  KnuthChecked([u EXCEPT ![j + n - 2] = a.value[1], ![j + n - 1] = b.value[1]], j, d, n, q, b.carry)
KnuthGuessed(u, j, d, n, guess, low) ==
  LET a == SubWithCarry(<<guess.rem[1]>>, <<low.borrow>>, FALSE)
  IN  KnuthLess(low.u, j, d, n, guess.quot, a,
                SubWithCarry(<<guess.rem[2]>>, <<Bit(a.carry)>>, FALSE))
KnuthFrom(u, j, d, n, guess) == KnuthGuessed(u, j, d, n, guess, Submul(u, j, d, n - 2, guess.quot))
KnuthMost(r, top) == [q |-> B - 1, u |-> [r.u EXCEPT ![top] = (@ - r.borrow) % B]]
KnuthDigit(u, j, d, n, v) ==
  LET divisor == <<d[n - 1], d[n]>>
  IN  IF <<u[j + n - 1], u[j + n]>> = divisor THEN KnuthMost(Submul(u, j, d, n, B - 1), j + n)
      ELSE KnuthFrom(u, j, d, n,
                     Udivrem3by2(u[j + n], u[j + n - 1], u[j + n - 2], divisor, v))

PutDigit(before, j, r) == [q |-> [before.q EXCEPT ![j] = r.q], u |-> r.u]
UdivremKnuth(u, m, d, n, v) ==
  LET step[k \in 0 .. m - n] ==
        IF k = 0 THEN [q |-> Zero(Len(d)), u |-> u]
        ELSE LET j == m - n - k + 1
             IN  PutDigit(step[k - 1], j, KnuthDigit(step[k - 1].u, j, d, n, v))
  IN  step[m - n]

\* udivrem of a uint256 or a uint512.
RemainderOf(x, n, s, words) ==
  [i \in 1 .. words |->
     IF i > n THEN 0
     ELSE IF s = 0 THEN x[i]
     ELSE OrWord(ShrWord(x[i], s), IF i = n THEN 0 ELSE ShlWord(x[i + 1], W - s))]
DivideNormalized(na, words) ==
  LET by1(r) == [quot |-> SubSeq(r.u, 1, words), rem |-> Small(ShrWord(r.rem, na.shift), words)]
      by2(r) == [quot |-> SubSeq(r.u, 1, words), rem |-> Extend(Shr(r.rem, na.shift), words)]
      long(r) == [quot |-> r.q, rem |-> RemainderOf(r.u, na.n, na.shift, words)]
      d == na.divisor
  IN  CASE na.n = 1 -> by1(UdivremBy1(na.numerator, na.m, d[1]))
        [] na.n = 2 -> by2(UdivremBy2(na.numerator, na.m, SubSeq(d, 1, 2)))
        [] OTHER -> long(UdivremKnuth(na.numerator, na.m, d, na.n,
                                      Reciprocal3by2(<<d[na.n - 1], d[na.n]>>)))
UdivremLong(u, v) ==
  LET na == Normalize(u, v)
  IN  IF na.m <= na.n THEN [quot |-> Zero(Len(u)), rem |-> u] ELSE DivideNormalized(na, Len(u))

Udivrem(x, y) == IF Len(x) = 2 THEN Udivrem128(x, y) ELSE UdivremLong(x, y)

Negative(x) == x[Len(x)] >= B \div 2
Sdivrem(x, y) ==
  LET signed(r) == [quot |-> IF Negative(x) # Negative(y) THEN Neg(r.quot) ELSE r.quot,
                    rem |-> IF Negative(x) THEN Neg(r.rem) ELSE r.rem]
      Abs(z) == IF Negative(z) THEN Neg(z) ELSE z
  IN  signed(Udivrem(Abs(x), Abs(y)))

AddMod(x, y, mod) ==
  LET s == AddWithCarry(x, y, FALSE)
      wide == s.value \o Small(Bit(s.carry), Len(x))
  IN  Lo(Udivrem(wide, Extend(mod, 2 * Len(x))).rem)
MulMod(x, y, mod) == Lo(Udivrem(Umul(x, y), Extend(mod, 2 * Len(x))).rem)

===============================================================================
