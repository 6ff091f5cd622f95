------------------------------ MODULE MCKeyset ------------------------------
EXTENDS Connection

Asc(p)  == [desc |-> FALSE, nulls |-> p]
Desc(p) == [desc |-> TRUE, nulls |-> p]

\* A nullable leading column, NULLs last going up and first going down, before
\* the key.  Moves take either row to either side of the other, and of a cursor.
MCOrders == {<<Asc("last"), Asc("default")>>, <<Desc("first"), Asc("default")>>}
MCDatabases == {"mysql"}
MCVals == {1}
MCIds == {1, 2}
MCSizes == {0, 1, 2}
MCTotals == {TRUE, FALSE}
=============================================================================
