------------------------------- MODULE MCLedger -------------------------------
(* Four accounts: p makes blocks, c is a campaign node whose pledge has been *)
(* redeemed within the round, u holds coins, v has no account yet.           *)
EXTENDS Ledger

MCInitWorld ==
  [a \in Address |->
     CASE a = "p" -> [Fresh EXCEPT !.superPledge = 3]
       [] a = "c" -> [Fresh EXCEPT !.balance = 1]
       [] a = "u" -> [Fresh EXCEPT !.balance = 5]
       [] OTHER   -> Absent]

Plain(from, nonce, to, value) ==
  [from |-> from, nonce |-> nonce, to |-> to, value |-> value, kind |-> "transfer",
   voteFor |-> <<>>, round |-> 0, unlock |-> 0]

Lock(from, nonce, to, value, unlock) ==
  [Plain(from, nonce, to, value) EXCEPT !.kind = "lock", !.unlock = unlock]

Vote(from, nonce, value, voteFor) ==
  [Plain(from, nonce, from, value) EXCEPT !.kind = "vote", !.voteFor = voteFor, !.round = 1]

Other(from, nonce, value, kind) == [Plain(from, nonce, from, value) EXCEPT !.kind = kind]

\* Transfers and locks, between accounts that may coincide.
TransferTx ==
  {Plain("u", n, a, 1) : n \in 0 .. 3, a \in {"p", "u", "v"}} \cup
  {Plain("p", 0, "u", 1), Plain("v", 0, "u", 1)} \cup
  {Lock("u", n, "v", 1, t) : n \in 0 .. 2, t \in 1 .. 3} \cup
  {Lock("u", 0, "u", 1, 2), Plain("u", 0, "v", 5)}

\* Pledges, votes and redemptions: those that succeed, and those that fail half
\* way because of their addresses, of coins missing or of an account removed.
VoteTx ==
  {Vote("u", n, 1, s) : n \in 0 .. 2, s \in {<<"c">>, <<"u">>, <<"p">>, <<"c", "c">>, <<>>}} \cup
  {Vote("v", n, 1, <<"c">>) : n \in 0 .. 1} \cup
  {Other("u", n, v, "pledge") : n \in 0 .. 1, v \in 1 .. 2} \cup
  {Other("u", n, 0, k) : n \in 1 .. 3, k \in {"unvote", "redeem"}} \cup
  {Other("v", n, 0, "unvote") : n \in 1 .. 2} \cup {Other("p", 0, 0, "redeem")} \cup
  {Plain("p", 1, "u", 1), Plain("c", 0, "u", 0), Plain("u", 0, "v", 3), Plain("u", 1, "c", 1)}

AllTx == TransferTx \cup VoteTx
=============================================================================
