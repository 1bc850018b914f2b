-------------------------- MODULE EvmInstructions --------------------------
(***************************************************************************)
(* The instructions of evmone (src/evmone/instructions.hpp,                *)
(* instructions_calls.cpp) and the table of their base prices and stack    *)
(* effects (instructions.cpp), as operators on a record s, the             *)
(* ExecutionState: gas, stack (top first), mem, returnData, status,        *)
(* outOffset, outSize and host.                                            *)
(*                                                                         *)
(* Words have WordSize bytes (32 in the code) and addresses AddressSize    *)
(* (20): every constant of the code that is derived from the two is        *)
(* written so here.  Gas prices are the code's.  The arithmetic of words   *)
(* is the integers modulo 256^WordSize, which module Intx shows the word   *)
(* arithmetic of intx to compute.                                          *)
(*                                                                         *)
(* A stack access outside the storage and a memory access outside the      *)
(* vector are undefined in C++; here they stop the machine with the        *)
(* status "FAULT".                                                         *)
(***************************************************************************)
EXTENDS Integers, Sequences, Bitwise, EvmHost

CONSTANTS WordSize,       \* bytes of a word
          AddressSize,    \* bytes of an address
          StackLimit,     \* evm_stack::limit: 1024
          MaxBuffer,      \* max_buffer_size: 2^32 - 1
          CallDepth,      \* the deepest call: 1024
          CalcHash(_)     \* the host's hash of a sequence of bytes

VARIABLES rev,   \* the revision: 0 Frontier .. 7 Istanbul, 8 Berlin
          msg,   \* [kind, static, depth, gas, dest, sender, value, input]
          code   \* the bytes of the contract

Modulus == 256 ^ WordSize

\* The revisions the code compares with.
Revision == [TANGERINE_WHISTLE |-> 2, SPURIOUS_DRAGON |-> 3,
             CONSTANTINOPLE |-> 5, ISTANBUL |-> 7]

\* The opcodes (evmc/instructions.h); PUSH1, DUP1, SWAP1 and LOG0 begin a range.
OP == [STOP |-> 0, ADD |-> 1, MUL |-> 2, SUB |-> 3, DIV |-> 4, SDIV |-> 5,
       MOD |-> 6, SMOD |-> 7, ADDMOD |-> 8, MULMOD |-> 9, EXP |-> 10,
       SIGNEXTEND |-> 11, LT |-> 16, GT |-> 17, SLT |-> 18, SGT |-> 19,
       EQ |-> 20, ISZERO |-> 21, AND |-> 22, OR |-> 23, XOR |-> 24,
       NOT |-> 25, BYTE |-> 26, SHL |-> 27, SHR |-> 28, SAR |-> 29,
       SHA3 |-> 32, ADDRESS |-> 48, BALANCE |-> 49, ORIGIN |-> 50,
       CALLER |-> 51, CALLVALUE |-> 52, CALLDATALOAD |-> 53,
       CALLDATASIZE |-> 54, CALLDATACOPY |-> 55, CODESIZE |-> 56,
       CODECOPY |-> 57, GASPRICE |-> 58, EXTCODESIZE |-> 59,
       EXTCODECOPY |-> 60, RETURNDATASIZE |-> 61, RETURNDATACOPY |-> 62,
       EXTCODEHASH |-> 63, BLOCKHASH |-> 64, COINBASE |-> 65,
       TIMESTAMP |-> 66, NUMBER |-> 67, DIFFICULTY |-> 68, GASLIMIT |-> 69,
       CHAINID |-> 70, SELFBALANCE |-> 71, POP |-> 80, MLOAD |-> 81,
       MSTORE |-> 82, MSTORE8 |-> 83, SLOAD |-> 84, SSTORE |-> 85,
       JUMP |-> 86, JUMPI |-> 87, PC |-> 88, MSIZE |-> 89, GAS |-> 90,
       JUMPDEST |-> 91, PUSH1 |-> 96, DUP1 |-> 128, SWAP1 |-> 144,
       LOG0 |-> 160, CREATE |-> 240, CALL |-> 241, CALLCODE |-> 242,
       RETURN |-> 243, DELEGATECALL |-> 244, CREATE2 |-> 245,
       STATICCALL |-> 250, REVERT |-> 253, INVALID |-> 254,
       SELFDESTRUCT |-> 255]
-----------------------------------------------------------------------------
(* The table of instructions. *)

IsPush(b) == b \in OP.PUSH1 .. OP.PUSH1 + WordSize - 1
Undefined == [defined |-> FALSE, gas |-> 0, req |-> 0, change |-> 0]
Entry(g, r, c) == [defined |-> TRUE, gas |-> g, req |-> r, change |-> c]

\* The first revision: <<opcodes, price, stack items needed, change of height>>.
FrontierRows ==
  { <<{OP.STOP, OP.INVALID}, 0, 0, 0>>, <<{OP.JUMPDEST}, 1, 0, 0>>,
    <<{OP.ADD, OP.SUB, OP.LT, OP.GT, OP.SLT, OP.SGT, OP.EQ, OP.AND, OP.OR,
       OP.XOR, OP.BYTE}, 3, 2, -1>>,
    <<{OP.MUL, OP.DIV, OP.SDIV, OP.MOD, OP.SMOD, OP.SIGNEXTEND}, 5, 2, -1>>,
    <<{OP.ADDMOD, OP.MULMOD}, 8, 3, -2>>, <<{OP.EXP}, 10, 2, -1>>,
    <<{OP.SHA3}, 30, 2, -1>>, <<{OP.ISZERO, OP.NOT, OP.CALLDATALOAD, OP.MLOAD}, 3, 1, 0>>,
    <<{OP.ADDRESS, OP.ORIGIN, OP.CALLER, OP.CALLVALUE, OP.CALLDATASIZE, OP.CODESIZE,
       OP.GASPRICE, OP.COINBASE, OP.TIMESTAMP, OP.NUMBER, OP.DIFFICULTY,
       OP.GASLIMIT, OP.PC, OP.MSIZE, OP.GAS}, 2, 0, 1>>,
    <<{OP.BALANCE, OP.EXTCODESIZE, OP.BLOCKHASH}, 20, 1, 0>>,
    <<{OP.CALLDATACOPY, OP.CODECOPY}, 3, 3, -3>>, <<{OP.EXTCODECOPY}, 20, 4, -4>>,
    <<{OP.POP}, 2, 1, -1>>, <<{OP.MSTORE, OP.MSTORE8}, 3, 2, -2>>,
    <<{OP.SLOAD}, 50, 1, 0>>, <<{OP.SSTORE, OP.RETURN}, 0, 2, -2>>,
    <<{OP.JUMP}, 8, 1, -1>>, <<{OP.JUMPI}, 10, 2, -2>>,
    <<{b \in 0 .. 255 : IsPush(b)}, 3, 0, 1>>,
    <<{OP.CREATE}, 32000, 3, -2>>, <<{OP.CALL, OP.CALLCODE}, 40, 7, -6>>,
    <<{OP.SELFDESTRUCT}, 0, 1, -1>> }
  \cup {<<{OP.DUP1 + n - 1}, 3, n, 1>> : n \in 1 .. 16}
  \cup {<<{OP.SWAP1 + n - 1}, 3, n + 1, 0>> : n \in 1 .. 16}
  \cup {<<{OP.LOG0 + n}, 375 * (n + 1), n + 2, -(n + 2)>> : n \in 0 .. 4}

EntryOf(rows) == LET r == CHOOSE r \in rows : TRUE IN Entry(r[2], r[3], r[4])
TableOfRows(rows) ==
  [b \in 0 .. 255 |->
     IF \E r \in rows : b \in r[1] THEN EntryOf({r \in rows : b \in r[1]}) ELSE Undefined]
TableFrontier == TableOfRows(FrontierRows)

\* Mutant: DELEGATECALL is entered with the items of CALL.
TableHomesteadAsCall == [TableFrontier EXCEPT ![OP.DELEGATECALL] = Entry(40, 7, -6)]

TableHomestead == [TableFrontier EXCEPT ![OP.DELEGATECALL] = Entry(40, 6, -5)]

TableTangerineWhistle ==
  [TableHomestead EXCEPT
     ![OP.BALANCE].gas = 400, ![OP.EXTCODESIZE].gas = 700, ![OP.EXTCODECOPY].gas = 700,
     ![OP.SLOAD].gas = 200, ![OP.CALL].gas = 700, ![OP.CALLCODE].gas = 700,
     ![OP.DELEGATECALL].gas = 700, ![OP.SELFDESTRUCT].gas = 5000]

TableByzantium ==
  [TableTangerineWhistle EXCEPT
     ![OP.RETURNDATASIZE] = Entry(2, 0, 1), ![OP.RETURNDATACOPY] = Entry(3, 3, -3),
     ![OP.STATICCALL] = Entry(700, 6, -5), ![OP.REVERT] = Entry(0, 2, -2)]

TableConstantinople ==
  [TableByzantium EXCEPT
     ![OP.SHL] = Entry(3, 2, -1), ![OP.SHR] = Entry(3, 2, -1), ![OP.SAR] = Entry(3, 2, -1),
     ![OP.EXTCODEHASH] = Entry(400, 1, 0), ![OP.CREATE2] = Entry(32000, 4, -3)]

TableIstanbul ==
  [TableConstantinople EXCEPT
     ![OP.BALANCE] = Entry(700, 1, 0), ![OP.CHAINID] = Entry(2, 0, 1),
     ![OP.EXTCODEHASH] = Entry(700, 1, 0), ![OP.SELFBALANCE] = Entry(5, 0, 1),
     ![OP.SLOAD] = Entry(800, 1, 0)]

OpTables == <<TableFrontier, TableHomestead, TableTangerineWhistle,
              TableTangerineWhistle, TableByzantium, TableConstantinople,
              TableConstantinople, TableIstanbul, TableIstanbul>>

OpTable(b) == OpTables[rev + 1][b]
-----------------------------------------------------------------------------
(* The stack, the memory and the price of an instruction. *)

Running(s)      == s.status = "RUNNING"
Exit(s, status) == [s EXCEPT !.status = status]
Then(s, t)      == IF Running(s) THEN t ELSE s       \* if (...) return ...; t

\* The same with what follows as an operator on the state, evaluated once.
After(s, F(_)) == CHOOSE r \in {Then(x, F(x)) : x \in {s}} : TRUE

Item(s, i)  == s.stack[i + 1]                        \* stack[i]
Drop(s, n)  == [s EXCEPT !.stack = SubSeq(@, n + 1, Len(@))]
Push(s, x)  == [s EXCEPT !.stack = <<x>> \o @]
Top(s, x)   == [s EXCEPT !.stack[1] = x]

Pay(s, cost) ==
  Then(s, LET p == [s EXCEPT !.gas = @ - cost]
          IN IF p.gas < 0 THEN Exit(p, "OUT_OF_GAS") ELSE p)

NumWords(n) == (n + (WordSize - 1)) \div WordSize
MemoryCost(words) == 3 * words + (words * words) \div 512

\* Memory grows in whole words and never shrinks; only the growth is paid for.
Grow(s, newSize) ==
  IF newSize <= Len(s.mem) THEN s
  ELSE LET words == NumWords(newSize)
           p == Pay(s, MemoryCost(words) - MemoryCost(Len(s.mem) \div WordSize))
       IN Then(p, [p EXCEPT !.mem = [i \in 1 .. words * WordSize |->
                                        IF i <= Len(@) THEN @[i] ELSE 0]])

CheckMemory(s, offset, size) ==
  Then(s, IF size = 0 THEN s
          ELSE IF size > MaxBuffer \/ offset > MaxBuffer THEN Exit(s, "OUT_OF_GAS")
          ELSE Grow(s, offset + size))

\* memory[offset .. offset + size), which must be there.
Within(s, offset, size, t) ==
  Then(s, IF size > 0 /\ offset + size > Len(s.mem) THEN Exit(s, "FAULT") ELSE t)
Data(s, offset, size) == SubSeq(s.mem, offset + 1, offset + size)
Put(s, offset, bytes) ==
  Within(s, offset, Len(bytes),
         [s EXCEPT !.mem = [i \in 1 .. Len(@) |->
                              IF i \in offset + 1 .. offset + Len(bytes)
                                THEN bytes[i - offset] ELSE @[i]]])

\* Big-endian loads and stores; an address is the low bytes of a word.
RECURSIVE Load(_)
Load(bytes) == IF bytes = <<>> THEN 0
               ELSE 256 * Load(SubSeq(bytes, 1, Len(bytes) - 1)) + bytes[Len(bytes)]
Store(x) == [i \in 1 .. WordSize |-> (x \div (256 ^ (WordSize - i))) % 256]
Address(x) == x % (256 ^ AddressSize)
Zeros(n) == [i \in 1 .. n |-> 0]
-----------------------------------------------------------------------------
(* Arithmetic.  x is the top of the stack, y the item below. *)

Signed(x)   == IF 2 * x >= Modulus THEN x - Modulus ELSE x
Abs(x)      == IF x < 0 THEN -x ELSE x
Unsigned(x) == x % Modulus
Flag(b)     == IF b THEN 1 ELSE 0

\* x * y modulo m <= Modulus, y taken a byte at a time: the full product of
\* two words is beyond TLC's integers.
TimesMod(x, y, m) == ((((x * (y \div 256)) % m) * 256) + (x * (y % 256))) % m

\* By squaring; h is bound by a set so that it is evaluated once.
RECURSIVE Power(_, _)
Power(x, n) ==
  IF n = 0 THEN 1
  ELSE CHOOSE r \in {TimesMod(TimesMod(h, h, Modulus), IF n % 2 = 1 THEN x ELSE 1, Modulus)
                     : h \in {Power(x, n \div 2)}} : TRUE

\* Division rounds towards zero and the remainder takes the dividend's sign.
SignedQuotient(x, y) ==
  LET q == Abs(Signed(x)) \div Abs(Signed(y))
  IN Unsigned(IF (Signed(x) < 0) # (Signed(y) < 0) THEN -q ELSE q)
SignedRemainder(x, y) ==
  LET r == Abs(Signed(x)) % Abs(Signed(y))
  IN Unsigned(IF Signed(x) < 0 THEN -r ELSE r)

Arithmetic(op, x, y) ==
  CASE op = OP.ADD  -> (x + y) % Modulus
    [] op = OP.MUL  -> TimesMod(x, y, Modulus)
    [] op = OP.SUB  -> (x - y) % Modulus
    [] op = OP.DIV  -> IF y = 0 THEN 0 ELSE x \div y
    [] op = OP.SDIV -> IF y = 0 THEN 0 ELSE SignedQuotient(x, y)
    [] op = OP.MOD  -> IF y = 0 THEN 0 ELSE x % y
    [] op = OP.SMOD -> IF y = 0 THEN 0 ELSE SignedRemainder(x, y)

SignExtend(ext, x) ==
  IF ext >= WordSize - 1 THEN x
  ELSE LET limit == 256 ^ (ext + 1)  low == x % limit
       IN IF 2 * low >= limit THEN low + (Modulus - limit) ELSE low

Compare(op, x, y) ==
  Flag(CASE op = OP.LT -> x < y [] op = OP.GT -> y < x [] op = OP.EQ -> x = y
         [] op = OP.SLT -> Signed(x) < Signed(y)
         [] op = OP.SGT -> Signed(y) < Signed(x))

Bitwise_(op, x, y) ==
  CASE op = OP.AND -> x & y [] op = OP.OR -> x | y [] op = OP.XOR -> x ^^ y
    [] op = OP.BYTE -> IF x > WordSize - 1 THEN 0
                       ELSE (y \div (256 ^ (WordSize - 1 - x))) % 256

\* x is the distance.
Shift(op, x, y) ==
  LET bits == 8 * WordSize IN
  CASE op = OP.SHL -> IF x >= bits THEN 0 ELSE (y % (2 ^ (bits - x))) * (2 ^ x)
    [] op = OP.SHR \/ (op = OP.SAR /\ Signed(y) >= 0) ->
         IF x >= bits THEN 0 ELSE y \div (2 ^ x)
    [] op = OP.SAR /\ Signed(y) < 0 ->
         IF x >= bits THEN Modulus - 1
         ELSE (y \div (2 ^ x)) + (Modulus - (2 ^ (bits - x)))

ModularSum(x, y, m)     == IF m = 0 THEN 0 ELSE (x + y) % m
ModularProduct(x, y, m) == IF m = 0 THEN 0 ELSE TimesMod(x % m, y, m)

SignificantBytes(x) == IF x = 0 THEN 0
                       ELSE CHOOSE n \in 1 .. WordSize :
                              256 ^ (n - 1) <= x /\ x < 256 ^ n

Exp(s) ==
  LET exponent == Item(s, 1)
      p == Pay(Drop(s, 1), SignificantBytes(exponent)
                             * (IF rev >= Revision.SPURIOUS_DRAGON THEN 50 ELSE 10))
  IN Then(p, Top(p, Power(Item(s, 0), exponent)))

Sha3(s) ==
  LET index == Item(s, 0)  size == Item(s, 1)
      p == Pay(CheckMemory(Drop(s, 1), index, size), 6 * NumWords(size))
  IN Within(p, index, size, Top(p, CalcHash(Data(p, index, size))))
-----------------------------------------------------------------------------
(* Instructions that read the message, the host and the block. *)

\* The instructions that push one value of the context.
Context(op, s) ==
  LET tx == s.host.tx IN
  CASE op = OP.ADDRESS -> msg.dest           [] op = OP.ORIGIN -> tx.origin
    [] op = OP.CALLER -> msg.sender          [] op = OP.CALLVALUE -> msg.value
    [] op = OP.CALLDATASIZE -> Len(msg.input) [] op = OP.CODESIZE -> Len(code)
    [] op = OP.GASPRICE -> tx.gasPrice       [] op = OP.RETURNDATASIZE -> Len(s.returnData)
    [] op = OP.COINBASE -> tx.coinbase       [] op = OP.TIMESTAMP -> tx.timestamp
    [] op = OP.NUMBER -> tx.number           [] op = OP.DIFFICULTY -> tx.difficulty
    [] op = OP.GASLIMIT -> tx.gasLimit       [] op = OP.CHAINID -> tx.chainId
    [] op = OP.SELFBALANCE -> GetBalance(s.host, msg.dest)
    [] op = OP.MSIZE -> Len(s.mem)

ContextOps == {OP.ADDRESS, OP.ORIGIN, OP.CALLER, OP.CALLVALUE, OP.CALLDATASIZE,
               OP.CODESIZE, OP.GASPRICE, OP.RETURNDATASIZE, OP.COINBASE, OP.TIMESTAMP,
               OP.NUMBER, OP.DIFFICULTY, OP.GASLIMIT, OP.CHAINID, OP.SELFBALANCE,
               OP.MSIZE}

\* The instructions that replace an address by what the host knows of it.
Account(op, s, x) ==
  CASE op = OP.BALANCE     -> GetBalance(s.host, Address(x))
    [] op = OP.EXTCODESIZE -> GetCodeSize(s.host, Address(x))
    [] op = OP.EXTCODEHASH -> GetCodeHash(s.host, Address(x))
    [] op = OP.SLOAD       -> GetStorage(s.host, msg.dest, x)

\* One of the last 256 blocks; anything else has the hash 0.
BlockHash(s) ==
  LET upper == s.host.tx.number
      lower == IF upper > 256 THEN upper - 256 ELSE 0
      n == Item(s, 0)
  IN IF n < upper /\ n >= lower
       THEN [Top(s, s.host.blockHash) EXCEPT !.host = GetBlockHash(@, n)]
       ELSE Top(s, 0)

\* size bytes of source from index on, zeros beyond its end.
Padded(source, index, size) ==
  [i \in 1 .. size |-> IF index + i <= Len(source) THEN source[index + i] ELSE 0]

CallDataLoad(s) == Top(s, Load(Padded(msg.input, Item(s, 0), WordSize)))

\* CALLDATACOPY, CODECOPY: <<memory index, source index, size>>.
Copy(s, source) ==
  LET to == Item(s, 0)  from == Item(s, 1)  size == Item(s, 2)
      p == Pay(CheckMemory(Drop(s, 3), to, size), 3 * NumWords(size))
  IN Then(p, Put(p, to, Padded(source, from, size)))

ExtCodeCopy(s) ==
  LET addr == Address(Item(s, 0))
      to == Item(s, 1)  size == Item(s, 3)
      from == IF MaxBuffer < Item(s, 2) THEN MaxBuffer ELSE Item(s, 2)
      p == Pay(CheckMemory(Drop(s, 4), to, size), 3 * NumWords(size))
      copied == CopyCode(s.host, addr, from, size)
  IN Then(p, Put(p, to, copied \o Zeros(size - Len(copied))))

\* Reading beyond the returned data is an error, not zeros.
ReturnDataCopy(s) ==
  LET to == Item(s, 0)  from == Item(s, 1)  size == Item(s, 2)
      m == CheckMemory(Drop(s, 3), to, size)
      p == Pay(m, 3 * NumWords(size))
  IN Then(m, IF from + size > Len(s.returnData) THEN Exit(m, "INVALID_MEMORY_ACCESS")
             ELSE Then(p, Put(p, to, SubSeq(s.returnData, from + 1, from + size))))

MLoad(s) ==
  LET m == CheckMemory(s, Item(s, 0), WordSize)
  IN Within(m, Item(s, 0), WordSize, Top(m, Load(Data(m, Item(s, 0), WordSize))))

\* MSTORE and MSTORE8.
MStore(s, bytes) ==
  LET m == CheckMemory(Drop(s, 2), Item(s, 0), Len(bytes))
  IN Then(m, Put(m, Item(s, 0), bytes))
-----------------------------------------------------------------------------
(* Instructions that change the state. *)

\* The price of a write by what it did, after the revision's rules.
StorageCost(status) ==
  CASE status = "ADDED" -> 20000
    [] status \in {"MODIFIED", "DELETED"} -> 5000
    [] status \in {"UNCHANGED", "MODIFIED_AGAIN"} ->
         IF rev >= Revision.ISTANBUL THEN 800
         ELSE IF rev = Revision.CONSTANTINOPLE THEN 200 ELSE 5000

SStore(s) ==
  IF msg.static THEN Exit(s, "STATIC_MODE_VIOLATION")
  ELSE IF rev >= Revision.ISTANBUL /\ s.gas <= 2300 THEN Exit(s, "OUT_OF_GAS")
  ELSE LET w == SetStorage(s.host, msg.dest, Item(s, 0), Item(s, 1))
       IN Pay([Drop(s, 2) EXCEPT !.host = w.host], StorageCost(w.status))

\* Mutant: a static call may log.
LogAlways(s, topics) ==
  LET offset == Item(s, 0)  size == Item(s, 1)
      p == Pay(CheckMemory(Drop(s, 2), offset, size), 8 * size)
  IN Within(p, offset, size,
            [Drop(p, topics) EXCEPT
               !.host = EmitLog(@, msg.dest, Data(p, offset, size),
                                SubSeq(p.stack, 1, topics))])

Log(s, topics) ==
  IF msg.static THEN Exit(s, "STATIC_MODE_VIOLATION")
  ELSE LET offset == Item(s, 0)  size == Item(s, 1)
           p == Pay(CheckMemory(Drop(s, 2), offset, size), 8 * size)
       IN Within(p, offset, size,
                 [Drop(p, topics) EXCEPT
                    !.host = EmitLog(@, msg.dest, Data(p, offset, size),
                                     SubSeq(p.stack, 1, topics))])

\* The account that inherits is paid for when it does not exist yet; always
\* the last instruction.
SelfDestructed(s) ==
  IF msg.static THEN Exit(s, "STATIC_MODE_VIOLATION")
  ELSE LET beneficiary == Address(Item(s, 0))
           newAccount ==
             /\ rev >= Revision.TANGERINE_WHISTLE
             /\ \/ rev = Revision.TANGERINE_WHISTLE
                \/ GetBalance(s.host, msg.dest) # 0
             /\ ~Exists(s.host, beneficiary)
           p == Pay(s, IF newAccount THEN 25000 ELSE 0)
       IN Then(p, Exit([p EXCEPT !.host = SelfDestruct(@, msg.dest, beneficiary)],
                       "SUCCESS"))

HasValue(op) == op \in {OP.CALL, OP.CALLCODE}

\* The message of a call, its gas aside.
CallMessage(op, s, dst, value, input) ==
  [kind   |-> IF op = OP.STATICCALL THEN OP.CALL ELSE op,
   static |-> msg.static \/ op = OP.STATICCALL,
   depth  |-> msg.depth + 1, gas |-> 0, dest |-> dst,
   sender |-> IF op = OP.DELEGATECALL THEN msg.sender ELSE msg.dest,
   value  |-> IF op = OP.DELEGATECALL THEN msg.value ELSE value,
   input  |-> input]

\* What is asked for, and never more than all but a 64th of what is left.
ChildGas(s, asked) ==
  LET cap == s.gas - (s.gas \div 64)
  IN IF rev >= Revision.TANGERINE_WHISTLE /\ asked > cap THEN cap ELSE asked

\* call(): after the call its answer replaces the 0 on the stack, its output
\* is kept and copied, and the gas it used is paid.
Answered(s, m, outOffset, outSize) ==
  LET r == CallAnswer(s.host, m)
      copied == IF outSize < Len(r.output) THEN outSize ELSE Len(r.output)
      t == [Top(s, Flag(r.status = "SUCCESS")) EXCEPT
              !.returnData = r.output, !.host = Call(@, m),
              !.gas = @ - (m.gas - r.gasLeft)]
  IN Put(t, outOffset, SubSeq(r.output, 1, copied))

CallTo(op, s) ==
  LET k == IF HasValue(op) THEN 1 ELSE 0
      asked == Item(s, 0)  dst == Address(Item(s, 1))
      value == IF HasValue(op) THEN Item(s, 2) ELSE 0
      inOffset  == Item(s, k + 2)  inSize  == Item(s, k + 3)
      outOffset == Item(s, k + 4)  outSize == Item(s, k + 5)
      newAccount == /\ op = OP.CALL
                    /\ value # 0 \/ rev < Revision.SPURIOUS_DRAGON
                    /\ ~Exists(s.host, dst)
      cost == (IF value # 0 THEN 9000 ELSE 0) + (IF newAccount THEN 25000 ELSE 0)
      stipend == IF value # 0 THEN 2300 ELSE 0
      Send(q, gas) ==
        IF msg.depth >= CallDepth \/ GetBalance(s.host, msg.dest) < value THEN q
        ELSE Within(q, inOffset, inSize,
               Answered(q, [CallMessage(op, s, dst, value, Data(q, inOffset, inSize))
                              EXCEPT !.gas = gas + stipend], outOffset, outSize))
      Charged(p) ==
        IF ChildGas(p, asked) > p.gas THEN Exit(p, "OUT_OF_GAS")
        ELSE Send([p EXCEPT !.gas = @ + stipend, !.returnData = <<>>], ChildGas(p, asked))
      Reserved(m) ==
        IF op = OP.CALL /\ value # 0 /\ msg.static THEN Exit(m, "STATIC_MODE_VIOLATION")
        ELSE After(Pay(m, cost), Charged)
  IN After(CheckMemory(Push(Drop(s, k + 6), 0), inOffset, inSize),
           LAMBDA m : After(CheckMemory(m, outOffset, outSize), Reserved))

\* CREATE and CREATE2, which also takes a salt and pays for hashing the code.
CreateMessage(op, q, endowment, salt, input) ==
  [kind |-> op, static |-> FALSE, depth |-> msg.depth + 1,
   gas |-> IF rev >= Revision.TANGERINE_WHISTLE THEN q.gas - (q.gas \div 64) ELSE q.gas,
   dest |-> 0, sender |-> msg.dest, value |-> endowment, salt |-> salt, input |-> input]
CreatedBy(q, call, r) ==
  [Top(q, IF r.status = "SUCCESS" THEN r.createAddress ELSE 0) EXCEPT
     !.gas = @ - (call.gas - r.gasLeft), !.returnData = r.output, !.host = Call(@, call)]
Created(q, call) == CreatedBy(q, call, CallAnswer(q.host, call))

CreateContract(op, s) ==
  LET endowment == Item(s, 0)  offset == Item(s, 1)  size == Item(s, 2)
      salt == IF op = OP.CREATE2 THEN Item(s, 3) ELSE 0
      Hashed(m) == IF op = OP.CREATE2 THEN Drop(Pay(m, 6 * NumWords(size)), 1) ELSE m
      Send(q) ==
        IF msg.depth >= CallDepth \/ GetBalance(s.host, msg.dest) < endowment THEN q
        ELSE Within(q, offset, size,
               Created(q, CreateMessage(op, q, endowment, salt, Data(q, offset, size))))
      Ready(p) == Send([Push(p, 0) EXCEPT !.returnData = <<>>])
  IN IF msg.static THEN Exit(s, "STATIC_MODE_VIOLATION")
     ELSE After(Hashed(CheckMemory(Drop(s, 3), offset, size)), Ready)

\* RETURN and REVERT.
Return(s, status) ==
  LET m == CheckMemory(s, Item(s, 0), Item(s, 1))
  IN Then(m, Within(m, Item(s, 0), Item(s, 1),
              Exit([m EXCEPT !.outSize = Item(s, 1),
                             !.outOffset = IF Item(s, 1) # 0 THEN Item(s, 0) ELSE @],
                   status)))

Dup(s, n)  == Push(s, s.stack[n])
Swap(s, n) == [s EXCEPT !.stack[1] = s.stack[n + 1], !.stack[n + 1] = s.stack[1]]

\* Every instruction whose effect does not depend on where it stands.
Instruction(op, s) ==
  LET x == Item(s, 0)  y == Item(s, 1)  z == Item(s, 2)
      Binary(v) == Top(Drop(s, 1), v)
  IN
  CASE op \in {OP.ADD, OP.MUL, OP.SUB, OP.DIV, OP.SDIV, OP.MOD, OP.SMOD} ->
         Binary(Arithmetic(op, x, y))
    [] op = OP.ADDMOD -> Top(Drop(s, 2), ModularSum(x, y, z))
    [] op = OP.MULMOD -> Top(Drop(s, 2), ModularProduct(x, y, z))
    [] op = OP.EXP -> Exp(s)
    [] op = OP.SIGNEXTEND -> Binary(SignExtend(x, y))
    [] op \in {OP.LT, OP.GT, OP.SLT, OP.SGT, OP.EQ} -> Binary(Compare(op, x, y))
    [] op = OP.ISZERO -> Top(s, Flag(x = 0))
    [] op \in {OP.AND, OP.OR, OP.XOR, OP.BYTE} -> Binary(Bitwise_(op, x, y))
    [] op = OP.NOT -> Top(s, Modulus - 1 - x)
    [] op \in {OP.SHL, OP.SHR, OP.SAR} -> Binary(Shift(op, x, y))
    [] op = OP.SHA3 -> Sha3(s)
    [] op \in ContextOps -> Push(s, Context(op, s))
    [] op \in {OP.BALANCE, OP.EXTCODESIZE, OP.EXTCODEHASH, OP.SLOAD} ->
         Top(s, Account(op, s, x))
    [] op = OP.BLOCKHASH -> BlockHash(s)
    [] op = OP.CALLDATALOAD -> CallDataLoad(s)
    [] op = OP.CALLDATACOPY -> Copy(s, msg.input)
    [] op = OP.CODECOPY -> Copy(s, code)
    [] op = OP.EXTCODECOPY -> ExtCodeCopy(s)
    [] op = OP.RETURNDATACOPY -> ReturnDataCopy(s)
    [] op = OP.POP -> Drop(s, 1)
    [] op = OP.MLOAD -> MLoad(s)
    [] op = OP.MSTORE -> MStore(s, Store(y))
    [] op = OP.MSTORE8 -> MStore(s, <<y % 256>>)
    [] op = OP.SSTORE -> SStore(s)
    [] op \in OP.DUP1 .. OP.DUP1 + 15 -> Dup(s, op - OP.DUP1 + 1)
    [] op \in OP.SWAP1 .. OP.SWAP1 + 15 -> Swap(s, op - OP.SWAP1 + 1)
    [] op \in OP.LOG0 .. OP.LOG0 + 4 -> Log(s, op - OP.LOG0)
    [] op \in {OP.CREATE, OP.CREATE2} -> CreateContract(op, s)
    [] op \in {OP.CALL, OP.CALLCODE, OP.DELEGATECALL, OP.STATICCALL} -> CallTo(op, s)
    [] op = OP.RETURN -> Return(s, "SUCCESS")
    [] op = OP.REVERT -> Return(s, "REVERT")
    [] op = OP.SELFDESTRUCT -> SelfDestructed(s)
    [] op = OP.INVALID -> Exit(s, "INVALID_INSTRUCTION")
    [] op = OP.STOP -> Exit(s, "SUCCESS")
============================================================================
