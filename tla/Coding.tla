-------------------------------- MODULE Coding --------------------------------
(* Numbers and strings as bytes (util/coding.cc, util/coding.h). A byte holds *)
(* Group values and a flag, so that Group is 128 in the code.                 *)
EXTENDS Integers, Sequences, FiniteSets

CONSTANTS
  Group,       \* values in the low bits of a byte
  Bits32,      \* width of the smaller numbers, 32 in the code
  Bits64       \* width of the larger ones

NoNumber == -1

(******************************************************************************)
(* Of fixed length                                                            *)
(******************************************************************************)
\* The lowest byte first; the length is that of the type.
EncodeFixed(length, v) == SubSeq([i \in 1 .. length |-> (v \div (2 * Group)^(i - 1)) % (2 * Group)],
                                 1, length)
DecodeFixed(s) ==
  LET v[i \in 0 .. Len(s)] == IF i = 0 THEN 0 ELSE v[i - 1] + s[i] * (2 * Group)^(i - 1)
  IN  v[Len(s)]

(******************************************************************************)
(* Of variable length                                                         *)
(******************************************************************************)
\* The flag says that more bytes follow.
Groups(v, n) == SubSeq([i \in 1 .. n |-> ((v \div Group^(i - 1)) % Group) + (IF i < n THEN Group ELSE 0)],
                       1, n)

\* The ladder of limits, one for each length but the longest.
Longest32 == CHOOSE n \in 1 .. Bits32 : Group^n >= 2^Bits32 /\ Group^(n - 1) < 2^Bits32
\* Mutant: a limit belongs to the shorter length.
EncodeVarint32Short(v) ==
  LET fits == {n \in 1 .. Longest32 - 1 : v <= Group^n}
  IN  Groups(v, IF fits = {} THEN Longest32 ELSE CHOOSE n \in fits : \A k \in fits : n <= k)
EncodeVarint32(v) ==
  LET fits == {n \in 1 .. Longest32 - 1 : v < Group^n}
  IN  Groups(v, IF fits = {} THEN Longest32 ELSE CHOOSE n \in fits : \A k \in fits : n <= k)

\* Bytes with the flag as long as the rest does not fit into one.
EncodeVarint64(v) ==
  LET bytes[w \in 0 .. v] ==
        IF w < Group THEN <<w>> ELSE <<(w % Group) + Group>> \o bytes[w \div Group]
  IN  bytes[v]

VarintLength(v) ==
  LET length[w \in 0 .. v] == IF w < Group THEN 1 ELSE 1 + length[w \div Group]
  IN  length[v]

PutLengthPrefixedSlice(s) == EncodeVarint32(Len(s)) \o s

(******************************************************************************)
(* Reading: [ok, value, rest]                                                 *)
(******************************************************************************)
Failed(input) == [ok |-> FALSE, value |-> NoNumber, rest |-> input]

\* The first byte without the flag ends the number, if it comes before the shift
\* is longer than lastShift; what is shifted out of the width is lost.
GetVarint(input, lastShift, bits) ==
  LET ends == {n \in 1 .. Len(input) :
                 input[n] < Group /\ \A i \in 1 .. n - 1 : input[i] >= Group}
      Sum[i \in 0 .. Len(input)] ==
        IF i = 0 THEN 0 ELSE (Sum[i - 1] + (input[i] % Group) * Group^(i - 1)) % 2^bits
  IN  IF \E n \in ends : Group^(n - 1) <= 2^lastShift
      THEN LET n == CHOOSE n \in ends : TRUE
           IN  [ok |-> TRUE, value |-> Sum[n], rest |-> SubSeq(input, n + 1, Len(input))]
      ELSE Failed(input)

\* 28 for 32 bits and 63 for 64: the last multiple of 7 below the width.
LastShift(bits) ==
  CHOOSE s \in 0 .. bits - 1 :
    /\ \E n \in 0 .. bits : Group^n = 2^s
    /\ \A t \in s + 1 .. bits - 1 : \A n \in 0 .. bits : Group^n # 2^t
GetVarint32(input) == GetVarint(input, LastShift(Bits32), Bits32)
GetVarint64(input) == GetVarint(input, LastShift(Bits64), Bits64)

GetLengthPrefixedSlice(input) ==
  LET length == GetVarint32(input)
  IN  IF length.ok /\ Len(length.rest) >= length.value
      THEN [ok |-> TRUE, value |-> SubSeq(length.rest, 1, length.value),
            rest |-> SubSeq(length.rest, length.value + 1, Len(length.rest))]
      ELSE Failed(input)

(******************************************************************************)
(* Properties                                                                 *)
(******************************************************************************)
\* What was written is read back, with the length that was foretold, whatever
\* follows; a number that is cut short is not read at all.
NumbersReadBack(v, after) ==
  LET s == EncodeVarint64(v)
      short == EncodeVarint32(v % 2^Bits32)
  IN  /\ GetVarint64(s \o after) = [ok |-> TRUE, value |-> v, rest |-> after]
      /\ GetVarint32(short \o after) = [ok |-> TRUE, value |-> v % 2^Bits32, rest |-> after]
      /\ VarintLength(v) = Len(s) /\ VarintLength(v % 2^Bits32) = Len(short)
      /\ \A n \in 0 .. Len(s) - 1 : ~GetVarint64(SubSeq(s, 1, n)).ok
      /\ \A n \in 0 .. Len(short) - 1 : ~GetVarint32(SubSeq(short, 1, n)).ok
      /\ DecodeFixed(EncodeFixed(4, v)) = v
===============================================================================
