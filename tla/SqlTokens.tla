----------------------------- MODULE SqlTokens ------------------------------
(***************************************************************************)
(* What generated SQL conditions are made of: a sequence of tokens, each a *)
(* symbol or an atom - a column, an operator and the parameter marks it    *)
(* takes.  A mark is its number and, as a history, the value it was        *)
(* written for.  Like SqlLogic, the contract generated SQL is read         *)
(* against, and no part of the repository.                                 *)
(***************************************************************************)
EXTENDS SqlLogic, Sequences

Sym(s) == [t |-> s]
Atom(col, op, marks) == [t |-> "atom", col |-> col, op |-> op, marks |-> marks]

Not3(x) == CASE x = "true" -> "false" [] x = "false" -> "true" [] OTHER -> x

\* One comparison of a column value x with the values vs.
Compare(op, x, vs) ==
    LET listed == Or3({SqlEq(x, vs[i]) : i \in DOMAIN vs})
    IN  CASE op = "="  -> SqlEq(x, vs[1])
          [] op = "<>" -> Not3(SqlEq(x, vs[1]))
          [] op = ">"  -> SqlGt(x, vs[1])
          [] op = "IN" -> listed
          [] op = "NOT IN" -> Not3(listed)
          [] op = "IS NULL" -> SqlIsNull(x)
          [] op = "IS NOT NULL" -> SqlIsNotNull(x)

Constant(op) == op \in {"1=1", "1=0"}
TakesMarks(op, n) ==
    CASE op \in {"IN", "NOT IN"} -> n > 0
      [] op \in {"=", "<>", ">"} -> n = 1
      [] OTHER -> n = 0
=============================================================================
