------------------------------- MODULE MCEvm --------------------------------
(***************************************************************************)
(* Evm beside the machine its documentation promises: one that charges and *)
(* checks every instruction of the code where it stands, without analysis  *)
(* and without blocks.  The two share the bodies of the instructions       *)
(* (EvmInstructions) and nothing else.  The programs are short codes put   *)
(* together from pieces, and one probe for every opcode and every choice   *)
(* of its arguments.                                                       *)
(***************************************************************************)
EXTENDS Evm

CONSTANTS Pieces,      \* what the short codes are made of
          MaxPieces,   \* how many of them
          Probed,      \* the opcodes probed
          Arguments,   \* the values of their arguments
          GasGiven     \* the gas a run begins with

VARIABLES ref,   \* the ExecutionState of the machine without blocks
          pc     \* its position in the code

vars == <<evmVars, ref, pc>>

RECURSIVE StartsFrom(_)
StartsFrom(p) ==
  IF p >= Len(code) THEN {}
  ELSE LET op == code[p + 1]
       IN {p} \cup StartsFrom(p + 1 + IF IsPush(op) THEN op - OP.PUSH1 + 1 ELSE 0)
IsDestination(p) == p \in StartsFrom(0) /\ code[p + 1] = OP.JUMPDEST

\* One instruction of the code: its price, its stack, its effect.  The price is
\* paid in p.
RefTurn(op, e, p) ==
  IF ~Running(p) THEN p
  ELSE IF ~e.defined THEN Exit(p, "UNDEFINED_INSTRUCTION")
  ELSE IF Len(p.stack) < e.req THEN Exit(p, "STACK_UNDERFLOW")
  ELSE IF Len(p.stack) + e.change > StackLimit THEN Exit(p, "STACK_OVERFLOW")
  ELSE CASE IsPush(op) -> Push(p, PushValue(op - OP.PUSH1 + 1, pc + 1))
         [] op = OP.PC -> Push(p, pc)
         [] op = OP.GAS -> Push(p, Unsigned(p.gas))
         [] op = OP.JUMPDEST -> p
         [] op = OP.JUMP -> IF IsDestination(Item(p, 0)) THEN Drop(p, 1)
                            ELSE Exit(p, "BAD_JUMP_DESTINATION")
         [] op = OP.JUMPI -> IF Item(p, 1) = 0 \/ IsDestination(Item(p, 0)) THEN Drop(p, 2)
                             ELSE Exit(p, "BAD_JUMP_DESTINATION")
         [] OTHER -> Instruction(op, p)
RefStep ==
  LET op == IF pc < Len(code) THEN code[pc + 1] ELSE OP.STOP
      length == IF IsPush(op) THEN op - OP.PUSH1 + 2 ELSE 1
      jumps == op = OP.JUMP \/ (op = OP.JUMPI /\ Item(ref, 1) # 0)
  IN /\ Over(vm) /\ Running(ref)
     /\ \E e \in {OpTable(op)} : \E t \in {RefTurn(op, e, Pay(ref, e.gas))} :
          /\ ref' = t
          /\ pc' = IF Running(t) /\ jumps THEN Item(ref, 0) ELSE pc + length
     /\ UNCHANGED evmVars

MCInit == Init /\ ref = vm /\ pc = 0
Next == \/ (AnalyzeStep \/ Step) /\ UNCHANGED <<ref, pc>>
        \/ Start /\ ref' = vm' /\ pc' = 0
        \/ RefStep
Spec == MCInit /\ [][Next]_vars /\ WF_vars(Next)
-----------------------------------------------------------------------------
(* Properties. *)

Succeeded(s) == s.status \in {"SUCCESS", "REVERT"}

\* A run in blocks ends as the run instruction by instruction does: with the
\* same status, gas, output and effects on the host when either succeeds, and
\* failing when either fails (analysis.cpp analyze, instructions.cpp
\* opx_beginblock, op_gas, op_call, op_create, op_sstore).
ResultAgrees ==
  Over(vm) /\ Over(ref) =>
     /\ Succeeded(vm) <=> Succeeded(ref)
     /\ Succeeded(vm) => Result(vm) = Result(ref) /\ vm.host = ref.host

\* No instruction reads or writes outside the stack or the memory: what
\* BEGINBLOCK and check_memory admitted covers every unchecked access after
\* it (execution_state.hpp push, pop, evm_memory operator[]).
NoFault == /\ vm.status # "FAULT"
           /\ vm.status = "RUNNING" => Len(vm.stack) <= StackLimit

\* A static call changes nothing: no storage, no log, no contract, no value
\* moved, and every call it makes is static itself; calls do not nest beyond
\* the limit (instructions_calls.cpp, instructions.hpp sstore, log,
\* selfdestruct).
Own(m) == m.kind # OP.CALL \/ m.value = 0
StaticStays ==
  LET h == vm.host IN
  vm.status # "ANALYSIS" =>
  /\ msg.static =>
       /\ h.accounts = CHOOSE a \in {g.accounts : g \in Hosts} : TRUE
       /\ h.logs = <<>> /\ h.selfdestructs = <<>>
       /\ \A i \in DOMAIN h.calls : h.calls[i].static /\ Own(h.calls[i])
  /\ \A i \in DOMAIN h.calls : h.calls[i].depth <= CallDepth

\* An instruction changes the height of the stack by what the table says, or
\* the check of its block was for another instruction (instructions.cpp
\* op_tables), and a call never leaves more gas than there was
\* (instructions_calls.cpp call: price, stipend and what the callee used).
StepKeepsAccounts ==
  [][LET i == analysis.instrs[instr] IN
     instr # 0 /\ vm'.status \in {"RUNNING", "SUCCESS"} /\ i.op # BEGINBLOCK
       => /\ vm'.status = "RUNNING"
               => Len(vm'.stack) = Len(vm.stack) + OpTable(i.op).change
          /\ vm'.gas <= vm.gas]_vars

\* Every run ends: each block costs something unless the code ends in it
\* (instructions.cpp opx_beginblock, execution.cpp execute).
Terminates == <>Over(vm)
-----------------------------------------------------------------------------
(* The instance. *)

RECURSIVE Sentences(_)
Sentences(n) == IF n = 0 THEN {<<>>}
                ELSE LET shorter == Sentences(n - 1)
                     IN shorter \cup {s \o p : s \in shorter, p \in Pieces}

\* Every choice of the arguments, from fewer values when there are many.
Choices(n) == [1 .. n -> IF n > 3 THEN {0, 1} ELSE Arguments]

RECURSIVE Pushes(_)
Pushes(args) == IF args = <<>> THEN <<>>
                ELSE (IF args[1] < 256 THEN <<96, args[1]>>
                      ELSE <<97, args[1] \div 256, args[1] % 256>>) \o Pushes(Tail(args))

\* The instruction between its arguments and code that returns the gas that
\* is left and the item it left on the stack.
Probe(op, args) ==
  Pushes(args) \o <<op, 90, 96, 0, 82>>
    \o (IF TableIstanbul[op].req + TableIstanbul[op].change > 0
          THEN <<96, 2, 82>> ELSE <<>>)
    \o <<96, 4, 96, 0, 243>>
Probes == UNION {{Probe(op, a) : a \in Choices(TableIstanbul[op].req)} : op \in Probed}

MCCodes == Sentences(MaxPieces) \cup Probes
Message(s, d, g) ==
  [kind |-> 241, static |-> s, depth |-> d, gas |-> g, dest |-> 1,
   sender |-> 2, value |-> 1, input |-> <<7, 8, 9>>]
MCMessages(c) ==
  IF c \in Probes
    THEN {Message(FALSE, 0, g) : g \in GasGiven}
           \cup {Message(TRUE, 0, 60000), Message(FALSE, CallDepth, 60000)}
    ELSE {Message(FALSE, 0, 26), Message(FALSE, 0, 90)}
Host(status) ==
  [accounts |-> [a \in {1, 2} |->
     [balance |-> 2 - a, code |-> <<a, 4>>, codehash |-> 300 + a,
      storage |-> [k \in {0} |-> 1], dirty |-> {}]],
   tx |-> [gasPrice |-> 3, origin |-> 2, coinbase |-> 9, number |-> 3,
           timestamp |-> 77, gasLimit |-> 500, difficulty |-> 4, chainId |-> 1],
   blockHash |-> 999,
   result |-> [status |-> status, gasLeft |-> 40, output |-> <<6, 5>>, createAddress |-> 8],
   calls |-> <<>>, logs |-> <<>>, selfdestructs |-> <<>>, blockhashes |-> <<>>]
MCProbed == {op \in 0 .. 255 : TableIstanbul[op].defined /\ TableIstanbul[op].req <= 7}
             \cup {12}
MCPieces == {<<91>>, <<96, 0>>, <<96, 3>>, <<96, 4>>, <<86>>, <<87>>, <<90>>, <<80>>, <<96>>, <<128>>}
MCHosts == {Host("SUCCESS")}
RECURSIVE MCCalcHash(_)
MCCalcHash(d) == IF d = <<>> THEN 1
                 ELSE (31 * MCCalcHash(Tail(d)) + d[1]) % 65521
============================================================================
