----------------------------- MODULE MCLevelDB -----------------------------
EXTENDS LevelDB
P(k) == [key |-> k, put |-> TRUE]
D(k) == [key |-> k, put |-> FALSE]
MCWrites == {[ops |-> <<P(1)>>, sync |-> TRUE],
             [ops |-> <<D(1)>>, sync |-> FALSE],
             [ops |-> <<P(2), P(1)>>, sync |-> FALSE]}
MCBytes == [l \in 1..3 |-> 2 * l]
MCRanges == {[level |-> 0, begin |-> NoKey, end |-> NoKey],
             [level |-> 1, begin |-> NoKey, end |-> NoKey]}
=============================================================================
