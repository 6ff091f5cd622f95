---------------------------- MODULE MCOffsetList ----------------------------
EXTENDS OffsetServer

MCRows == 1..3
\* Below, at, within and past the ends of a table of up to three rows.
MCNumbers == {-1, 0, 1, 2, 4}
MCIsolation == {TRUE, FALSE}
MCNone == {FALSE}

MCAtoi == [r \in {"-1", "0", "1", "2", "4"} |->
              CASE r = "-1" -> -1 [] r = "0" -> 0 [] r = "1" -> 1 [] r = "2" -> 2
                [] r = "4" -> 4]
MCParseBool == [r \in {"1", "0"} |-> r = "1"]
\* Every choice of the four numbers with a total, by either name, or without;
\* and a number that is given twice, or is none.
Given(choice) == [k \in {k \in DOMAIN choice : choice[k] # Absent} |-> <<choice[k]>>]
Choices == [{"first", "last", "after", "before"} -> DOMAIN MCAtoi \cup {Absent}]
MCQueries ==
    {Given(c) : c \in Choices}
    \cup {[k \in DOMAIN Given(c) \cup {"total"} |->
              IF k = "total" THEN <<"1">> ELSE <<c[k]>>] : c \in Choices}
    \cup {[first |-> <<"2", "x">>, include_total |-> <<"1">>],
          [first |-> <<"2">>, last |-> <<"x">>]}
=============================================================================
