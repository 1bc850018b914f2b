------------------------------- MODULE Orders -------------------------------
(* Sequences made from the members of a set, or from some of a sequence.   *)
EXTENDS Naturals, Sequences, FiniteSets

\* The members of a set in the order of a comparator.
InOrder(S, Less(_, _)) ==
  [i \in 1..Cardinality(S) |->
     CHOOSE x \in S : Cardinality({y \in S : Less(y, x)}) = i - 1]

\* What of s is in S, in the order of s.
Only(s, S) ==
  LET taken[i \in 0..Len(s)] ==
        IF i = 0 THEN <<>>
        ELSE IF s[i] \in S THEN Append(taken[i - 1], s[i]) ELSE taken[i - 1]
  IN  taken[Len(s)]
=============================================================================
