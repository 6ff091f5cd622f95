----------------------------- MODULE CondTrees ------------------------------
(***************************************************************************)
(* Condition trees as cond.go, exists.go and fulltext.go build them.       *)
(*                                                                         *)
(* A leaf holds the sequence of the values it binds: one for a comparison, *)
(* the elements for IN and NOT IN, none for IS NULL.  Operators that bind  *)
(* one value are written alike; "=", "<>" and ">" stand for all of them.   *)
(***************************************************************************)
EXTENDS SqlTokens

Leaf(col, op, vals) == [kind |-> "leaf", col |-> col, op |-> op, vals |-> vals]
Raw(text, args)     == [kind |-> "raw", text |-> text, args |-> args]
Exists(negate, inner) == [kind |-> "exists", negate |-> negate, inner |-> inner]
Group(or, conds)    == [kind |-> "group", or |-> or, conds |-> conds]
NoCond              == [kind |-> "nil"]

\* compact: And and Or drop their nil children.
Compact(conds) == SelectSeq(conds, LAMBDA c : c.kind # "nil")
And(conds) == Group(FALSE, Compact(conds))
Or(conds)  == Group(TRUE, Compact(conds))
=============================================================================
