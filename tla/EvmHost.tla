------------------------------ MODULE EvmHost ------------------------------
(***************************************************************************)
(* The host behind the virtual machine (src/evmone/include/evmc/           *)
(* mocked_host.hpp), as operators on a record h:                           *)
(*   accounts    address -> [balance, code, codehash, storage, dirty]      *)
(*   tx          the transaction context                                   *)
(*   blockHash   what get_block_hash answers                               *)
(*   result      what call answers                                         *)
(*   calls, logs, selfdestructs, blockhashes   what was asked of it        *)
(* A storage is a function whose absent keys read as 0; dirty is the set   *)
(* of keys already written in this transaction.  The record of account     *)
(* accesses, which nothing reads, is left out.                             *)
(***************************************************************************)
EXTENDS Integers, Sequences

Exists(h, addr) == addr \in DOMAIN h.accounts

GetStorage(h, addr, key) ==
  IF Exists(h, addr) /\ key \in DOMAIN h.accounts[addr].storage
    THEN h.accounts[addr].storage[key] ELSE 0

\* The write and the status the gas price depends on.  A key already written
\* in this transaction is always "modified again".
SetStorage(h, addr, key, value) ==
  LET old == GetStorage(h, addr, key)
      status == IF key \in h.accounts[addr].dirty THEN "MODIFIED_AGAIN"
                ELSE IF old = 0 THEN "ADDED"
                ELSE IF value # 0 THEN "MODIFIED" ELSE "DELETED"
  IN IF ~Exists(h, addr) \/ old = value THEN [host |-> h, status |-> "UNCHANGED"]
     ELSE [status |-> status,
           host |-> [h EXCEPT !.accounts[addr].dirty = @ \cup {key},
                              !.accounts[addr].storage =
                                [k \in DOMAIN @ \cup {key} |->
                                   IF k = key THEN value ELSE @[k]]]]

GetBalance(h, addr)  == IF Exists(h, addr) THEN h.accounts[addr].balance ELSE 0
GetCodeSize(h, addr) == IF Exists(h, addr) THEN Len(h.accounts[addr].code) ELSE 0
GetCodeHash(h, addr) == IF Exists(h, addr) THEN h.accounts[addr].codehash ELSE 0

\* The bytes copied: at most size of them, none from beyond the end.
CopyCode(h, addr, offset, size) ==
  IF ~Exists(h, addr) THEN <<>>
  ELSE LET c == h.accounts[addr].code
           last == IF offset + size < Len(c) THEN offset + size ELSE Len(c)
       IN SubSeq(c, offset + 1, last)

SelfDestruct(h, addr, beneficiary) ==
  [h EXCEPT !.selfdestructs = Append(@, <<addr, beneficiary>>)]

\* The record of the message.  The answer is the configured one; a host gives
\* back no more gas than the message carried.
Call(h, m) == [h EXCEPT !.calls = Append(@, m)]
CallAnswer(h, m) ==
  [h.result EXCEPT !.gasLeft = IF @ < m.gas THEN @ ELSE m.gas]

GetBlockHash(h, n) == [h EXCEPT !.blockhashes = Append(@, n)]

EmitLog(h, addr, data, topics) == [h EXCEPT !.logs = Append(@, <<addr, data, topics>>)]
============================================================================
