--------------------------- MODULE MCKeysetCases ----------------------------
EXTENDS KeysetCases, TLC

\* Two values of each kind at least: the ends of int64 and an unsigned value
\* past them, a NaN (3), a string that is not UTF-8 (2), a time with seconds in
\* its zone (2) and one with a five-digit year (3).
MCColumn == [int |-> {-1, 1}, uint |-> {1, 2}, float |-> {1, 3}, string |-> {1, 2},
             bool |-> {0, 1}, time |-> {1, 2, 3}, bytes |-> {0, 1}, other |-> {1}]
Same(S) == [x \in S |-> x]
MCCarried == [k \in Kinds |->
    CASE k = "float" -> (3 :> Failed) @@ Same(MCColumn[k])
      [] k = "string" -> (2 :> 1) @@ Same(MCColumn[k])
      [] k = "time" -> (2 :> 1) @@ (3 :> Unreadable) @@ Same(MCColumn[k])
      [] OTHER -> Same(MCColumn[k])]
MCMinInt == -1

MCLeading == [form : {"plain"}, kind : Kinds]
             \cup [form : {"pointer", "valuer"}, kind : {"int", "time", "bytes"}]
=============================================================================
