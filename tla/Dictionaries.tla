----------------------------- MODULE Dictionaries -----------------------------
(* What MerklePatriciaTree promises to the code that uses it: dictionaries     *)
(* that are independent of each other. A dictionary can be changed until it is *)
(* made read-only, from then on it can only be copied, and the copy starts a   *)
(* life of its own.                                                            *)
EXTENDS Naturals, Sequences, FiniteSets

CONSTANTS Key, Value, MaxTrees

VARIABLE dicts   \* sequence of [contents, count, readOnly], contents a set of <<key, value>>
vars == dicts

Dict(contents, readOnly) ==
  [contents |-> contents, count |-> Cardinality(contents), readOnly |-> readOnly]

Without(contents, k) == {item \in contents : item[1] # k}

\* One key is added, replaced or removed, or everything is removed.
Changes(contents) ==
  {{}} \cup {Without(contents, k) : k \in Key} \cup
  {Without(contents, k) \cup {<<k, v>>} : k \in Key, v \in Value}

\* What a step on one of the dictionaries ds makes of it, or of its copy.
Change(ds, d) ==
  \E c \in Changes(ds[d].contents) :
    ~ds[d].readOnly /\ dicts' = [ds EXCEPT ![d] = Dict(c, FALSE)]
Freeze(ds, d) ==
  ~ds[d].readOnly /\ dicts' = [ds EXCEPT ![d].readOnly = TRUE]
Copy(ds, d) ==
  ds[d].readOnly /\ Len(ds) < MaxTrees /\ dicts' = Append(ds, Dict(ds[d].contents, FALSE))

Init == dicts = <<Dict({}, FALSE)>>
Next == \E d \in DOMAIN dicts : Change(dicts, d) \/ Freeze(dicts, d) \/ Copy(dicts, d)
Spec == Init /\ [][Next]_vars
=============================================================================
