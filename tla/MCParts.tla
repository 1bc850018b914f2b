------------------------------- MODULE MCParts --------------------------------
(* The parts that stand alone, one of them in each behaviour: a log of        *)
(* LevelDB, an iterator over a database, the list of a memory table, a cache, *)
(* the chips of a block; and, without steps, the edits of a manifest and the  *)
(* arithmetic of the EVM and of signatures.                                   *)
EXTENDS BlockChips, TLC
Sets == INSTANCE FiniteSetsExt

CONSTANT Absent

VARIABLES
  part,
  operands,                                                \* arithmetic
  file, offset, written, synced, safe, errors, damage,     \* log
  children, entries, sequence, contents, it, db,           \* iterator
  stores, insert, published, reader,                       \* list
  shards, readers                                          \* cache

logVars == <<file, offset, written, synced, safe, errors, damage>>
walkVars == <<children, entries, sequence, contents, it, db>>
listVars == <<stores, insert, published, reader>>
cacheVars == <<shards, readers>>

Log == INSTANCE LogFormat WITH
  BlockSize <- 7, HeaderSize <- 3, RecordSizes <- {0, 4, 9}, MaxRecords <- 3, MaxErrors <- 1

MCHash(u) == CASE u = <<1>> -> 1 [] u = <<1, 1>> -> 14 [] u = <<1, 3>> -> 7
               [] OTHER -> 9
Samples == INSTANCE MCDatabases WITH
  MaxByte <- 3, MaxTrailer <- 99, RestartInterval <- 2, BlockSize <- 3, FilterBase <- 2,
  BitsPerKey <- 2, Probes <- 2, MinBits <- 4, WordBits <- 4, Rotate <- 2, Hash <- MCHash
Walk == INSTANCE DBIterator WITH
  MaxByte <- 3, MaxTrailer <- 99, RestartInterval <- 2, BlockSize <- 3, FilterBase <- 2,
  BitsPerKey <- 2, Probes <- 2, MinBits <- 4, WordBits <- 4, Rotate <- 2, Hash <- MCHash,
  Databases <- Samples!Databases, UserKeys <- Samples!Keys

\* Two of the keys share a shard, one is alone in another.
CacheKeys == {"a", "b", "c"}
List == INSTANCE SkipList WITH Keys <- 1 .. 3, kMaxHeight <- 2, MaxReads <- 2
Cache == INSTANCE LRUCache WITH
  HashSlice <- [a |-> 1, b |-> 3, c |-> 6], HashBits <- 3, kNumShardBits <- 1, FirstLength <- 1,
  Capacities <- {0, 5}, Charges <- {1, 2}, Readers <- Threads, MaxInserts <- 4

Words2 == INSTANCE Intx WITH W <- 2
Words4 == INSTANCE Intx WITH W <- 4
Curve == INSTANCE Secp256k1 WITH M <- 4096, Word <- 8, negP <- 5, negN <- 107
Chains == INSTANCE AdditionChains
Edits == INSTANCE VersionEdit WITH Group <- 4, Bits32 <- 5, Bits64 <- 9, kNumLevels <- 3

MCSymmetry == Permutations(Threads)

(******************************************************************************)
(* Operands                                                                   *)
(******************************************************************************)
Bytes == 0 .. 255
Divisors == {1, 2, 3, 4, 5, 7, 15, 16, 17, 63, 64, 65, 85, 127, 128, 129, 200, 251, 255}
Residues == {0, 1, 2, 4, 5, 6, 63, 64, 107, 108, 512, 2047, 2048, 3988, 3989, 3990, 4000}
            \cup 4084 .. 4095

P == Curve!P
RECURSIVE Raised(_, _, _)
Raised(a, e, m) ==
  IF e = 0 THEN 1
  ELSE LET h == Raised((a * a) % m, e \div 2, m) IN IF e % 2 = 1 THEN (h * a) % m ELSE h
InverseOf(a) == Raised(a, P - 2, P)
Points == {<<a, b>> \in (0 .. 30 \cup (P - 20) .. (P - 1)) \X (0 .. P - 1) :
             (b * b) % P = ((((a * a) % P) * a) + 7) % P}

\* The fields of an edit, in four choices.
Fields(n) ==
  CASE n = 1 -> [comparator : {Absent, <<1, 7>>}, log_number : {Absent, 0, 20},
                 prev_log_number : {Absent, 0}, next_file_number : {Absent, 31},
                 last_sequence : {Absent, 4, 511}]
    [] n = 2 -> {<<>>, <<<<2, <<5>>>>>>, <<<<0, <<6, 1>>>>, <<1, <<4>>>>>>}
    [] n = 3 -> {{}, {<<1, 64>>}, {<<2, 3>>, <<0, 4>>, <<2, 1>>}}
    [] n = 4 -> {<<>>, <<[level |-> 0, number |-> 63, size |-> 300, smallest |-> <<1>>,
                          largest |-> <<2, 3, 4, 5, 6>>]>>}
    [] OTHER -> {}
EditOf(f) ==
  f[1] @@
    [compact_pointers |-> f[2], deleted_files |-> f[3], new_files |-> f[4]]

\* The operands are chosen one after the other.
Choices(n) ==
  CASE part = "words" -> IF n = 1 THEN Bytes ELSE IF n = 2 THEN Divisors ELSE {}
    [] part = "field" -> IF n <= 2 THEN Residues ELSE {}
    [] part = "points" -> IF n <= 2 THEN Points ELSE IF n = 3 THEN {1, P - 2, 1234} ELSE {}
    [] part = "edits" -> Fields(n)
    [] part = "totals" ->
         IF n = 1 THEN 1 .. Restorable
         ELSE IF n = 2 THEN Sets!kSubset(restoreCount(operands[1]), 0 .. operands[1] - 1) ELSE {}
    [] OTHER -> {}
Choose ==
  /\ \E x \in Choices(Len(operands) + 1) : operands' = Append(operands, x)
  /\ UNCHANGED <<part, vars, logVars, walkVars, listVars, cacheVars>>

Parts == {"log", "iterator", "list", "cache", "chips", "totals", "edits", "words", "field", "points"}
MCInit ==
  /\ part \in Parts /\ operands = <<>>
  /\ Init /\ Log!Init /\ List!Init
  /\ IF part = "cache" THEN Cache!Init ELSE shards = <<>> /\ readers = <<>>
  /\ IF part = "iterator" THEN Walk!Init
     ELSE /\ children = <<>> /\ entries = {} /\ sequence = 0 /\ contents = <<>>
          /\ it = [states |-> <<>>, current |-> 0, reverse |-> FALSE]
          /\ db = [valid |-> FALSE, reverse |-> FALSE, key |-> <<>>, value |-> 0]
MCNext ==
  \/ Choose
  \/ part = "log" /\ Log!Next
     /\ UNCHANGED <<part, operands, vars, walkVars, listVars, cacheVars>>
  \/ part = "iterator" /\ Walk!Next
     /\ UNCHANGED <<part, operands, vars, logVars, listVars, cacheVars>>
  \/ part = "list" /\ List!NextStep
     /\ UNCHANGED <<part, operands, vars, logVars, walkVars, cacheVars>>
  \/ part = "cache" /\ Cache!Next
     /\ UNCHANGED <<part, operands, vars, logVars, walkVars, listVars>>
  \/ part = "chips" /\ Next
     /\ UNCHANGED <<part, operands, logVars, walkVars, listVars, cacheVars>>
MCSpec == MCInit /\ [][MCNext]_<<part, operands, vars, logVars, walkVars, listVars, cacheVars>>

(******************************************************************************)
(* Properties                                                                 *)
(******************************************************************************)
LogRecovers == part = "log" => Log!Recovered /\ Log!OffsetsHonoured
WalksTables == part = "iterator" => Walk!ChildrenAround /\ Walk!LookupsAgree
ImplementsCursor == Walk!ImplementsCursor
ReadsWhole == List!ReadsWhole
CacheConsistent == part = "cache" => Cache!CacheConsistent

\* The same chip by chip: whichever sufficient chips of a block are there, of any
\* number of chips up to Restorable (BlockChip.cs 92-131; erasure_coding.cpp
\* 22-61).
ChipsRestore ==
  /\ RestoresBlock
  /\ part = "totals" /\ Len(operands) = 2 =>
       LET total == operands[1]
           needed == restoreCount(total)
       IN  Restore(needed, operands[2], Split(total, needed, FALSE), FALSE) = BlockData

\* Edits, numbers and strings are read back as they were written (coding.cc,
\* version_edit.cc 41-205).
EditsReadBack ==
  part = "edits" =>
    /\ Len(operands) = 4 => Edits!EditReadsBack(EditOf(operands))
    /\ operands = <<>> => \A v \in 0 .. 511 : Edits!NumbersReadBack(v, <<5, 0>>)

\* A number in n words of base b, and back.
Words(b, n, v) == SubSeq([i \in 1 .. n |-> (v \div b^(i - 1)) % b], 1, n)
Value(b, s) ==
  LET v[i \in 0 .. Len(s)] == IF i = 0 THEN 0 ELSE v[i - 1] + s[i] * b^(i - 1) IN v[Len(s)]

DividesTo(r, b, a, d) == Value(b, r.quot) = a \div d /\ Value(b, r.rem) = a % d
SignedByte(a) == IF a >= 128 THEN a - 256 ELSE a
Magnitude(a) == IF a < 0 THEN -a ELSE a
DividesSigned(r, a, d) ==
  /\ Value(4, r.rem) = (IF a < 0 THEN -(Magnitude(a) % Magnitude(d))
                        ELSE Magnitude(a) % Magnitude(d)) % 256
  /\ Value(4, r.quot) = (IF (a < 0) # (d < 0) THEN -(Magnitude(a) \div Magnitude(d))
                         ELSE Magnitude(a) \div Magnitude(d)) % 256

\* Products of the bytes of the erasure code, as polynomials.
PolynomialProduct(a, b) ==
  LET p[i \in 0 .. 8] ==
        IF i = 0 THEN 0
        ELSE LET before == p[i - 1]
                 twice == Twice(before)
             IN  IF (b \div 2^(8 - i)) % 2 = 1 THEN twice ^^ a ELSE twice
  IN  p[8]

\* Sums, products, shifts and quotients that are put together from words, with
\* guesses that are corrected and carries between the words, are those of the
\* integers, and the products of bytes those of polynomials (intx.hpp,
\* int128.hpp, GF.h).
WordsAgree ==
  part = "words" /\ Len(operands) = 2 =>
    LET x == operands[1]
        y == operands[2]
        a2 == Words(16, 2, x)
        b2 == Words(16, 2, y)
        a4 == Words(4, 4, x)
        b4 == Words(4, 4, y)
        big == x * y + x
        a8 == Words(4, 8, big)
    IN  /\ Value(16, Words4!Add(a2, b2)) = (x + y) % 256
        /\ Value(16, Words4!Sub(a2, b2)) = (x - y) % 256
        /\ Value(16, Words4!Mul(a2, b2)) = (x * y) % 256
        /\ Value(16, Words4!Umul(a2, b2)) = x * y
        /\ Value(16, Words4!ConstexprUmul(a2, b2)) = x * y
        /\ DividesTo(Words4!Udivrem(a2, b2), 16, x, y)
        /\ Words2!Less(a4, b4) = (x < y)
        /\ Value(4, Words2!Add(a4, b4)) = (x + y) % 256
        /\ Words2!AddLoop(a4, b4) = Words2!Add(a4, b4)
        /\ Value(4, Words2!Sub(a4, b4)) = (x - y) % 256
        /\ Value(4, Words2!Mul(a4, b4)) = (x * y) % 256
        /\ Value(4, Words2!Umul(a4, b4)) = x * y
        /\ Words2!UmulLoop(a4, b4) = Words2!Umul(a4, b4)
        /\ Words2!MulLoopOpt(a4, b4) = Words2!Mul(a4, b4)
        /\ DividesTo(Words2!Udivrem(a4, b4), 4, x, y)
        /\ DividesTo(Words2!Udivrem(a8, Words(4, 8, 250 + y)), 4, big, 250 + y)
        /\ DividesSigned(Words2!Sdivrem(a4, b4), SignedByte(x), SignedByte(y))
        /\ Value(4, Words2!AddMod(a4, Words(4, 4, 255 - y), b4)) = (x + 255 - y) % y
        /\ Value(4, Words2!MulMod(a4, Words(4, 4, 255 - y), b4)) = (x * (255 - y)) % y
        /\ Value(4, Words2!Exp(a4, b4)) = Raised(x, y, 256)
        /\ y < 20 =>
             /\ Value(4, Words2!Shl(a4, y)) = (x * 2^y) % 256
             /\ Value(4, Words2!Shr(a4, y)) = x \div 2^y
             /\ y < 8 => Words2!ShlLoop(a4, y) = Words2!Shl(a4, y)
        /\ Value(4, Words2!Sqr(a4)) = (x * x) % 256
        /\ x # 0 => 2^(7 - Words2!Clz(a4)) <= x /\ x < 2^(8 - Words2!Clz(a4))
        /\ 2^(8 - Words2!Clz(a4)) > x
        /\ Multiply(x, y) = PolynomialProduct(x, y)

\* Numbers modulo the primes: every result below the prime for operands below
\* it, and right when they are not (secp256k1.cpp 374-464, 667-754).
FieldAgrees ==
  part = "field" /\ Len(operands) = 2 =>
    LET a == operands[1]
        b == operands[2]
        N == Curve!N
    IN  /\ Curve!u256_norm_p(a) = a % P
        /\ Curve!u256_mul_p(a, b) = (a * b) % P
        /\ Curve!mul_p(a, b) % P = (a * b) % P
        /\ Curve!u256_square_p(a) % P = (a * a) % P
        /\ Curve!u320_to_u256(a * 8 + (b % 8)) % P = (a * 8 + (b % 8)) % P
        /\ Curve!u256_mul_u64_p(a, b % 8) = (a * (b % 8)) % P
        /\ Curve!u256_norm_n(a) = a % N
        /\ Curve!u256_mul_n(a, b) = (a * b) % N
        /\ Curve!u256_square_n(a) = (a * a) % N
        /\ Curve!u256_mul_u64_n(a, b % 8) = (a * (b % 8)) % N
        /\ a < P /\ b < P =>
             /\ Curve!u256_add_p(a, b) = (a + b) % P
             /\ Curve!u256_sub_p(a, b) = (a - b) % P
             /\ Curve!u256_neg_p(a) = (-a) % P
             /\ Curve!u256_add_u64_p(a, b % 8) = (a + (b % 8)) % P
        /\ a < N /\ b < N =>
             /\ Curve!u256_add_n(a, b) = (a + b) % N
             /\ Curve!u256_sub_n(a, b) = (a - b) % N
             /\ Curve!u256_neg_n(a) = (-a) % N

\* The sum of two points by slopes, and a point by its three coordinates.
SlopeSum(p, q) ==
  LET l == IF p = q THEN (((3 * ((p[1] * p[1]) % P)) % P) * InverseOf((2 * p[2]) % P)) % P
           ELSE (((q[2] - p[2]) % P) * InverseOf((q[1] - p[1]) % P)) % P
      x == (l * l - p[1] - q[1]) % P
  IN  <<x, (l * ((p[1] - x) % P) - p[2]) % P>>
Scaled(p, z) ==
  LET zz == (z * z) % P IN [x |-> (p[1] * zz) % P, y |-> (((p[2] * zz) % P) * z) % P, z |-> z]
IsSum(r, p, q) ==
  LET i == InverseOf(r.z)
      ii == (i * i) % P
  IN  IF p[1] = q[1] /\ (p[2] + q[2]) % P = 0 THEN r.z = 0
      ELSE r.z # 0 /\ SlopeSum(p, q) = <<(r.x * ii) % P, (((r.y * ii) % P) * i) % P>>

\* Points added and doubled without a division, whatever their third coordinate,
\* are the sums by slopes, the unit and the double among them, as long as x came
\* out below P (secp256k1.cpp 1056-1194).
PointsAgree ==
  part = "points" /\ Len(operands) = 3 =>
    LET p == operands[1]
        q == operands[2]
        z == operands[3]
        sum == Curve!jpoint_add(Scaled(p, z), Scaled(q, P - 3))
        mixed == Curve!jpoint_add_point(Scaled(p, z), [x |-> q[1], y |-> q[2]])
    IN  /\ sum.x < P => IsSum(sum, p, q)
        /\ mixed.x < P => IsSum(mixed, p, q)

\* The bits of a number given by words of 16 bits, without the lowest drop.
BitsOf(words, drop) ==
  SubSeq([i \in 1 .. 16 * Len(words) |-> (words[((i - 1) \div 16) + 1] \div 2^((i - 1) % 16)) % 2],
         1 + drop, 16 * Len(words))
Ones(n) == SubSeq([i \in 1 .. n |-> \hFFFF], 1, n)

\* The chains end in P - 2, N - 2, (P + 1) / 4 and (P - 1) / 2, so that they give
\* inverses and roots (secp256k1.cpp 466-659, 756-965).
ChainsAgree ==
  part = "field" /\ operands = <<0, 0>> =>
    /\ Chains!InverseP = BitsOf(<<\hFC2D, \hFFFF, \hFFFE>> \o Ones(13), 0)
    /\ Chains!InverseN = BitsOf(<<\h413F, \hD036, \h5E8C, \hBFD2, \hA03B, \hAF48, \hDCE6,
                                  \hBAAE, \hFFFE>> \o Ones(7), 0)
    /\ Chains!RootP.result = BitsOf(<<\hFC30, \hFFFF, \hFFFE>> \o Ones(13), 2)
    /\ Chains!RootP.cond = BitsOf(<<\hFC2E, \hFFFF, \hFFFE>> \o Ones(13), 1)

\* What signatures are computed with is the arithmetic of the curve.
CurveAgrees == FieldAgrees /\ PointsAgree /\ ChainsAgree

\* Contracts and signatures compute with the integers they stand for.
ArithmeticAgrees == WordsAgree /\ CurveAgrees
===============================================================================
