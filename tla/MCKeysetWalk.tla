---------------------------- MODULE MCKeysetWalk ----------------------------
EXTENDS KeysetWalk

\* One nullable column, then the key: NULLs are met in the middle of the walk.
MCOrders == {<<[desc |-> FALSE, nulls |-> "first"], [desc |-> TRUE, nulls |-> "default"]>>}
MCDatabases == {"postgres"}
MCVals == {1}
MCIds == {1, 2, 3}
MCSizes == {1}
MCTotals == {TRUE}
MCAtoi == [r \in {"1"} |-> 1]
MCParseBool == [r \in {"true"} |-> TRUE]
\* With a size, and without one.
MCQueries == {[size |-> <<"1">>, include_total |-> <<"true">>], [total |-> <<"true">>]}
=============================================================================
