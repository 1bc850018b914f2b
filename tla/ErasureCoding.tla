----------------------------- MODULE ErasureCoding -----------------------------
(* The erasure code of the block chips (src/erasure_coding).                  *)
(*                                                                            *)
(* Bytes have FieldBits bits and are multiplied modulo the polynomial         *)
(* Polynomial, whose powers of 2 are value_table; a vector register has Lanes *)
(* bytes.  The code has 8, 0x11d, and 16 or 32.  Data and codes are sequences *)
(* of bytes, a row of stride bytes after the other, and what is counted from  *)
(* 0 in the code is counted from 0 here: byte i of s is s[i + 1].             *)
EXTENDS Integers, Sequences, Bitwise

CONSTANTS FieldBits, Polynomial, Lanes
ASSUME FieldAssumption == FieldBits \in {4, 8} /\ Lanes \in Nat \ {0}

Order == 2^FieldBits - 1
Byte == 0 .. Order

\* The sequence F(0), ..., F(n - 1).
Tuple(n, F(_)) == SubSeq([i \in 1 .. n |-> F(i - 1)], 1, n)

(******************************************************************************)
(* The field                                                                  *)
(******************************************************************************)
Twice(x) == IF 2 * x > Order THEN (2 * x) ^^ Polynomial ELSE 2 * x
RECURSIVE PowersOf2(_, _)
PowersOf2(powers, x) ==
  IF Len(powers) = Order THEN powers ELSE PowersOf2(Append(powers, x), Twice(x))
value_table == <<0>> \o PowersOf2(<<>>, 1)
exp_table == Tuple(Order + 1, LAMBDA a : IF a = 0 THEN Order
                                         ELSE (CHOOSE i \in 1 .. Order + 1 : value_table[i] = a) - 2)
FromExp(e) == value_table[(e % Order) + 2]
Reciprocal(a) == IF a <= 1 THEN a ELSE value_table[Order + 2 - exp_table[a + 1]]
Pow(a, e) == IF e = 0 THEN 1 ELSE IF a = 0 THEN 0 ELSE FromExp(exp_table[a + 1] * e)

mul_table == Tuple(Order + 1, LAMBDA b : Tuple(Order + 1, LAMBDA a :
               IF a = 0 \/ b = 0 THEN 0 ELSE FromExp(exp_table[a + 1] + exp_table[b + 1])))
Multiply(a, b) == mul_table[b + 1][a + 1]
sum_table == Tuple(Order + 1, LAMBDA b : Tuple(Order + 1, LAMBDA a : a ^^ b))
Plus(a, b) == sum_table[b + 1][a + 1]

\* F(0) + ... + F(n - 1).
SumOf(n, F(_)) ==
  LET sum[i \in 0 .. n] == IF i = 0 THEN 0 ELSE Plus(sum[i - 1], F(i - 1))
  IN  sum[n]

(******************************************************************************)
(* mat_inverse: elimination downwards, then upwards, then a division.  It     *)
(* does not look for a pivot: dividing by 0 gives 0, and nothing is reported. *)
(******************************************************************************)
Unit(n) == Tuple(n, LAMBDA r : Tuple(n, LAMBDA c : IF r = c THEN 1 ELSE 0))

AddRow(row, other, scale, columns) ==
  Tuple(Len(row), LAMBDA c : IF c + 1 \in columns
                             THEN Plus(row[c + 1], Multiply(other[c + 1], scale)) ELSE row[c + 1])

\* Row i taken away from row r, so that its element in column i becomes 0.
Eliminate(s, i, r, downwards) ==
  LET scale == Multiply(s.mat[r][i], Reciprocal(s.mat[i][i]))
      n == Len(s.mat)
      cleared == IF downwards THEN [s.mat[r] EXCEPT ![i] = 0] ELSE s.mat[r]
      columns == IF downwards THEN i + 1 .. n ELSE 1 .. i - 1
  IN  IF scale = 0 THEN s
      ELSE [mat |-> [s.mat EXCEPT ![r] = AddRow(cleared, s.mat[i], scale, columns)],
            inv |-> [s.inv EXCEPT ![r] = AddRow(s.inv[r], s.inv[i], scale, 1 .. n)]]

\* F(e), with e evaluated first.
After(e, F(_)) == CHOOSE v \in {F(x) : x \in {e}} : TRUE

RECURSIVE Downwards(_, _, _), Upwards(_, _, _)
Downwards(s, i, r) ==
  IF r <= Len(s.mat)
  THEN After(Eliminate(s, i, r, TRUE), LAMBDA t : Downwards(t, i, r + 1))
  ELSE IF i < Len(s.mat) THEN Downwards(s, i + 1, i + 2) ELSE s
Upwards(s, i, r) ==
  IF r >= 1 THEN After(Eliminate(s, i, r, FALSE), LAMBDA t : Upwards(t, i, r - 1))
  ELSE IF i > 1 THEN Upwards(s, i - 1, i - 2) ELSE s

MatInverse(mat) ==
  LET n == Len(mat)
      s == Upwards(Downwards([mat |-> mat, inv |-> Unit(n)], 1, 2), n, n - 1)
  IN  Tuple(n, LAMBDA r : Tuple(n, LAMBDA c :
                            Multiply(s.inv[r + 1][c + 1], Reciprocal(s.mat[r + 1][r + 1]))))

(******************************************************************************)
(* Rows of bytes by rows of coefficients                                      *)
(******************************************************************************)
\* ec_encode and ec_decode: row by row, each product from mul_table.
RECURSIVE RowsFrom(_, _, _)
RowsFrom(data, coefficients, at) ==
  LET stride == Len(coefficients[1])
      row == Tuple(Len(coefficients), LAMBDA k :
               SumOf(stride, LAMBDA i : Multiply(coefficients[k + 1][i + 1], data[at + i + 1])))
  IN  IF at = Len(data) THEN <<>> ELSE row \o RowsFrom(data, coefficients, at + stride)
Rows(data, coefficients) == RowsFrom(data, coefficients, 0)

\* Mutant: the upper half is not put back in its place.
ShuffledLow(t, b) ==
  Plus(Multiply(t, b % (2^(FieldBits \div 2))), Multiply(t, b \div (2^(FieldBits \div 2))))

\* The products of a byte with t, looked up for its lower and its upper half.
Nibble == 2^(FieldBits \div 2)
Shuffled(t, b) == Plus(Multiply(t, b % Nibble), Multiply(t, (b \div Nibble) * Nibble))

\* The ssse3 and avx2 variants: a block of Lanes rows at a time, and then one of
\* the rows that are left, each column of the block in a register.
Block(data, coefficients, at, count) ==
  LET stride == Len(coefficients[1])
      k == Len(coefficients)
      line(i) == Tuple(count, LAMBDA j : data[at + (j * stride) + i + 1])
      sum(c) == Tuple(count, LAMBDA j :
                  SumOf(stride, LAMBDA i : Shuffled(coefficients[c + 1][i + 1], line(i)[j + 1])))
  IN  Tuple(count * k, LAMBDA n : sum(n % k)[(n \div k) + 1])
RECURSIVE BlocksFrom(_, _, _)
BlocksFrom(data, coefficients, r) ==
  LET stride == Len(coefficients[1])
      rows == Len(data) \div stride
  IN  IF r <= rows - Lanes
      THEN Block(data, coefficients, r * stride, Lanes) \o BlocksFrom(data, coefficients, r + Lanes)
      ELSE IF r < rows THEN Block(data, coefficients, r * stride, rows - r) ELSE <<>>
Blocks(data, coefficients) == BlocksFrom(data, coefficients, 0)

(******************************************************************************)
(* The exported functions, vector or not                                      *)
(******************************************************************************)
Product(data, coefficients, vector) ==
  IF vector THEN Blocks(data, coefficients) ELSE Rows(data, coefficients)

EncodeError(dataBytes, ecBytes, dataStride, ecStride) ==
  IF dataStride <= 0 \/ dataStride >= Order THEN 1
  ELSE IF ecStride <= 0 \/ ecStride >= Order THEN 2
  ELSE IF dataBytes % dataStride # 0 THEN 3
  ELSE IF ecBytes % ecStride # 0 THEN 4
  ELSE IF dataBytes \div dataStride # ecBytes \div ecStride THEN 5
  ELSE 0
Encode(data, dataStride, ecStride, vector) ==
  IF EncodeError(Len(data), (Len(data) \div dataStride) * ecStride, dataStride, ecStride) # 0
  THEN <<>>   \* nothing is written, and the caller gets an exception
  ELSE Product(data, Tuple(ecStride, LAMBDA r : Tuple(dataStride, LAMBDA c : Pow(FromExp(r), c))), vector)

\* indexes: pairs of the place of a lost byte in a row and the code put there.
Distinct(indexes, which) ==
  \A i, j \in DOMAIN indexes : i # j => indexes[i][which] # indexes[j][which]
DecodeError(bytes, stride, indexes) ==
  IF stride <= 0 \/ stride >= Order THEN 1
  ELSE IF Len(indexes) <= 0 \/ Len(indexes) >= Order THEN 2
  ELSE IF bytes % stride # 0 THEN 3
  ELSE IF \E i \in DOMAIN indexes : \/ indexes[i][1] \notin 0 .. stride - 1
                                    \/ indexes[i][2] \notin 0 .. Order - 2
  THEN 4
  ELSE IF ~ Distinct(indexes, 1) \/ ~ Distinct(indexes, 2) THEN 4
  ELSE 0
DecodeMatrix(stride, indexes) ==
  MatInverse(Tuple(stride, LAMBDA r : Tuple(stride, LAMBDA c :
    IF \E i \in DOMAIN indexes : indexes[i][1] = r
    THEN Pow(FromExp(indexes[CHOOSE i \in DOMAIN indexes : indexes[i][1] = r][2]), c)
    ELSE IF r = c THEN 1 ELSE 0)))
Decode(data, stride, indexes, vector) ==
  LET inverse == DecodeMatrix(stride, indexes)
      n == Len(indexes)
      found == Product(data, Tuple(n, LAMBDA i : inverse[indexes[i + 1][1] + 1]), vector)
      lost(at) == {i \in 1 .. n : indexes[i][1] = at % stride}
  IN  Tuple(Len(data), LAMBDA at :
        IF lost(at) = {} THEN data[at + 1]
        ELSE found[(at \div stride) * n + (CHOOSE i \in lost(at) : TRUE)])
===============================================================================
