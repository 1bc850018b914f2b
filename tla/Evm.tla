--------------------------------- MODULE Evm --------------------------------
(***************************************************************************)
(* evmone (src/evmone): analysis.cpp cuts the code into basic blocks and   *)
(* replaces every JUMPDEST by BEGINBLOCK, the instruction that charges the *)
(* price of a whole block and checks the stack for all of it at once;      *)
(* execution.cpp then runs the resulting table of instructions.  Whatever  *)
(* an instruction needs of the gas at its own place (GAS, the calls,       *)
(* CREATE, SSTORE) is recovered from the part of the block's price that    *)
(* was charged up to it, which the analysis leaves in the instruction.     *)
(***************************************************************************)
EXTENDS EvmInstructions

CONSTANTS Codes, Revisions, Hosts,  \* what a run begins with
          Messages(_)               \* the messages a code is run for

VARIABLES analysis,  \* the result of analyze(): instrs, offsets, targets
          vm,        \* the ExecutionState
          instr      \* the index of the next instruction; 0 is nullptr

evmVars == <<rev, msg, code, analysis, vm, instr>>

-----------------------------------------------------------------------------
(* analysis.cpp.  Instructions and blocks are counted from 1.              *)

BEGINBLOCK == OP.JUMPDEST
Larger(x, y)  == IF x > y THEN x ELSE y
Clamp(x)      == IF x > 32767 THEN 32767 ELSE x        \* to int16_t
NewBlock(index) == [index |-> index, gas |-> 0, req |-> 0, growth |-> 0, change |-> 0]

\* Mutant: the items needed are compared with the height behind the instruction.
Account1Late(block, e) ==
  LET change == block.change + e.change
  IN [block EXCEPT !.req = Larger(@, e.req - change), !.change = change,
                   !.growth = Larger(@, change), !.gas = @ + e.gas]

\* The block with one more instruction.
Account1(block, e) ==
  LET change == block.change + e.change
  IN [block EXCEPT !.req = Larger(@, e.req - block.change),
                   !.change = change,
                   !.growth = Larger(@, change),
                   !.gas = @ + e.gas]

\* The bytes after a PUSH at position p, those beyond the code read as 0.
PushValue(size, p) == Load(Padded(code, p, size))

Terminators == {OP.JUMP, OP.JUMPI, OP.STOP, OP.RETURN, OP.REVERT, OP.SELFDESTRUCT}
GasReaders  == {OP.GAS, OP.CALL, OP.CALLCODE, OP.DELEGATECALL, OP.STATICCALL,
                OP.CREATE, OP.CREATE2, OP.SSTORE}

\* The argument of the instruction at position p of the code.
Argument(op, p, block) ==
  CASE IsPush(op) -> PushValue(op - OP.PUSH1 + 1, p)
    [] op \in GasReaders -> block.gas
    [] op = OP.PC -> p - 1
    [] OTHER -> 0

Close(instrs, block) ==
  [instrs EXCEPT ![block.index].arg =
     [gas |-> block.gas, req |-> Clamp(block.req), growth |-> Clamp(block.growth)]]
Begin == [op |-> BEGINBLOCK, arg |-> 0]

\* One turn of the loop over the code: the instruction at position pos (bytes
\* read so far) enters the open block; a block ends behind a terminator and in
\* front of a JUMPDEST, which never gets an instruction of its own.
AnalyzeStep ==
  LET a  == analysis
      op == code[a.pos + 1]
      isDest == op = OP.JUMPDEST
      next == IF IsPush(op) THEN a.pos + 1 + (op - OP.PUSH1 + 1) ELSE a.pos + 1
      More(block) == IF isDest THEN a.instrs
                     ELSE Append(a.instrs, [op |-> op, arg |-> Argument(op, a.pos + 1, block)])
      ends == op \in Terminators \/ (next < Len(code) /\ code[next + 1] = OP.JUMPDEST)
  IN /\ a.pos < Len(code)
     /\ \E block \in {Account1(a.open, OpTable(op))} : \E more \in {More(block)} :
          analysis' =
            [pos     |-> next,
             instrs  |-> IF ends THEN Append(Close(more, block), Begin) ELSE more,
             open    |-> IF ends THEN NewBlock(Len(more) + 1) ELSE block,
             offsets |-> IF isDest THEN Append(a.offsets, a.pos) ELSE a.offsets,
             targets |-> IF isDest THEN Append(a.targets, Len(a.instrs)) ELSE a.targets]
     /\ UNCHANGED <<rev, msg, code, vm, instr>>

\* What follows the loop: the last block is closed and a STOP put behind it.
AnalyzeEnd(a) ==
  [a EXCEPT !.instrs = Append(Close(@, a.open), [op |-> OP.STOP, arg |-> 0])]

\* lower_bound over the sorted offsets; 0 is "not a jump destination".
FindJumpdest(dst) ==
  LET it == Len(SelectSeq(analysis.offsets, LAMBDA o : o < dst)) + 1
  IN IF it <= Len(analysis.offsets) /\ analysis.offsets[it] = dst
       THEN analysis.targets[it] ELSE 0
-----------------------------------------------------------------------------
(* execution.cpp and the instructions that depend on their place. *)

\* ExecutionState::ExecutionState.
NewState(gas, h) ==
  [gas |-> gas, stack |-> <<>>, mem |-> <<>>, returnData |-> <<>>,
   status |-> "RUNNING", outOffset |-> 0, outSize |-> 0, blockCost |-> 0, host |-> h]

Init ==
  /\ code \in Codes /\ rev \in Revisions
  /\ analysis = [pos |-> 0, instrs |-> <<Begin>>, open |-> NewBlock(1),
                 offsets |-> <<>>, targets |-> <<>>]
  /\ msg = <<>> /\ vm = [status |-> "ANALYSIS"] /\ instr = 0

\* execute() after analyze(): the first instruction of the new state.
Start ==
  /\ vm.status = "ANALYSIS" /\ analysis.pos >= Len(code)
  /\ analysis' = AnalyzeEnd(analysis)
  /\ msg' \in Messages(code)
  /\ vm' \in {NewState(msg'.gas, h) : h \in Hosts}
  /\ instr' = 1
  /\ UNCHANGED <<rev, code>>

\* Mutant: the price is compared and not charged.
BeginBlockFree(s, block) ==
  IF s.gas < block.gas THEN Exit(s, "OUT_OF_GAS")
  ELSE IF Len(s.stack) < block.req THEN Exit(s, "STACK_UNDERFLOW")
  ELSE IF Len(s.stack) + block.growth > StackLimit THEN Exit(s, "STACK_OVERFLOW")
  ELSE [s EXCEPT !.blockCost = block.gas]

\* opx_beginblock.
BeginBlock(s, block) ==
  LET p == [s EXCEPT !.gas = @ - block.gas]
  IN IF p.gas < 0 THEN Exit(p, "OUT_OF_GAS")
     ELSE IF Len(s.stack) < block.req THEN Exit(p, "STACK_UNDERFLOW")
     ELSE IF Len(s.stack) + block.growth > StackLimit THEN Exit(p, "STACK_OVERFLOW")
     ELSE [p EXCEPT !.blockCost = block.gas]

\* SSTORE, the calls and CREATE run with the gas that is left at their place;
\* the rest of the block's price is taken again afterwards.
Corrected(op, s, correction) ==
  Pay(Instruction(op, [s EXCEPT !.gas = @ + correction]), correction)

\* Mutant: GAS sees the whole block paid for.
GasUncorrected(s, paid) == Push(s, Unsigned(s.gas))

Gas(s, paid) == Push(s, Unsigned(s.gas + (s.blockCost - paid)))

\* One instruction i with the entry e of the table, except for where it leads.
ExecuteAs(i, s, e) ==
  IF Len(s.stack) < e.req \/ Len(s.stack) + e.change > StackLimit THEN Exit(s, "FAULT")
  ELSE CASE ~e.defined -> Exit(s, "UNDEFINED_INSTRUCTION")
    [] IsPush(i.op) \/ i.op = OP.PC -> Push(s, i.arg)
    [] i.op = OP.GAS -> Gas(s, i.arg)
    [] i.op \in GasReaders \ {OP.GAS} -> Corrected(i.op, s, s.blockCost - i.arg)
    [] i.op = OP.JUMP -> Drop(s, 1)
    [] i.op = OP.JUMPI -> Drop(s, 2)
    [] OTHER -> Instruction(i.op, s)
Execute(i, s) ==
  IF i.op = BEGINBLOCK THEN BeginBlock(s, i.arg) ELSE ExecuteAs(i, s, OpTable(i.op))

Jumps(i, s) == i.op = OP.JUMP \/ (i.op = OP.JUMPI /\ Item(s, 1) # 0)

\* One turn of the loop in execute().
Step ==
  LET i == analysis.instrs[instr] IN
  /\ instr # 0
  /\ \E t \in {Execute(i, vm)} :
       IF ~Running(t) THEN vm' = t /\ instr' = 0
       ELSE IF ~Jumps(i, vm) THEN vm' = t /\ instr' = instr + 1
       ELSE LET dst == FindJumpdest(Item(vm, 0))
            IN /\ vm' = IF dst = 0 THEN Exit(t, "BAD_JUMP_DESTINATION") ELSE t
               /\ instr' = dst
  /\ UNCHANGED <<rev, msg, code, analysis>>

Over(s) == s.status \notin {"ANALYSIS", "RUNNING"}

\* What execute() returns: the gas of a run that failed is lost.
Result(s) ==
  LET ok == s.status \in {"SUCCESS", "REVERT"}
  IN [status |-> s.status, gas |-> IF ok THEN s.gas ELSE 0,
      output |-> Data(s, s.outOffset, s.outSize)]
============================================================================
