----------------------------- MODULE Rendering ------------------------------
(***************************************************************************)
(* The pass that writes a condition tree out (cond.go, exists.go), one     *)
(* token a step: a builder with the text, its arguments and the number of  *)
(* the last placeholder, the tree whose write is called, and the stack of  *)
(* the groups and subqueries that are being written around it.             *)
(***************************************************************************)
EXTENDS CondTrees

CONSTANTS
    Fields,    \* the columns conditions are on
    Trees,     \* the condition trees, each with the trees in it
    Values     \* what a placeholder can be bound to

Operators == {"=", "<>", ">", "IN", "NOT IN", "IS NULL", "IS NOT NULL"}
Constants == {"1=1", "1=0"}
Symbols   == {"(", ")", "AND", "OR", "EXISTS", "NOT EXISTS"}
MarkSeqs  == Seq([n : Nat, v : Values])
Predicates == [t : {"atom"}, col : Fields \cup {""},
               op : Operators \cup Constants \cup {"rank"}, marks : MarkSeqs]
Token     == [t : Symbols] \cup Predicates

\* What a tree over the trees T can be.
TreesOver(T) ==
    [kind : {"leaf"}, col : Fields, op : Operators, vals : Seq(Values)]
    \cup [kind : {"raw"}, text : Seq(Token), args : Seq(Values)]
    \cup [kind : {"exists"}, negate : BOOLEAN, inner : T \cup {NoCond}]
    \cup [kind : {"group"}, or : BOOLEAN, conds : Seq(T)]

ASSUME RenderingAssumption == Trees \subseteq TreesOver(Trees)

VARIABLES
    builder, \* the builder; marks is a history: the marks of the text, in order
    now,     \* the tree being written, NoCond on return from it
    stack    \* what it is being written in, with the part that it is

rendering == <<builder, now, stack>>

\* Slip: a second clause starts its placeholders again from 1.
BlankAtOne(start) == [text |-> << >>, marks |-> << >>, args |-> << >>, n |-> 0]
Blank(start) == [text |-> << >>, marks |-> << >>, args |-> << >>, n |-> start]

\* buildAt, called: a nil condition writes nothing.
BuildFrom(c, start) == builder' = Blank(start) /\ now' = c /\ stack' = << >>
Rendered == now.kind = "nil" /\ stack = << >>

-----------------------------------------------------------------------------
PutSymbol(s) == builder' = [builder EXCEPT !.text = Append(@, Sym(s))]

\* Slip: bind gives the number before it counts.
MarksOff(vals) == [i \in DOMAIN vals |-> [n |-> builder.n + i - 1, v |-> vals[i]]]
\* bind, for each of vals: the next placeholders.
MarksFor(vals) == [i \in DOMAIN vals |-> [n |-> builder.n + i, v |-> vals[i]]]
PutPredicate(col, op, vals) ==
    builder' = [text  |-> Append(builder.text, Atom(col, op, MarksFor(vals))),
          marks |-> builder.marks \o MarksFor(vals),
          args  |-> builder.args \o vals,
          n     |-> builder.n + Len(vals)]

\* Slip: an empty list is written as it is.
VisitLeafPlain ==
    /\ now.kind = "leaf" /\ PutPredicate(now.col, now.op, now.vals)
    /\ now' = NoCond /\ UNCHANGED stack
\* An empty IN matches nothing and an empty NOT IN everything.
VisitLeaf ==
    /\ now.kind = "leaf"
    /\ IF now.vals = << >> /\ now.op = "IN" THEN PutPredicate("", "1=0", << >>)
       ELSE IF now.vals = << >> /\ now.op = "NOT IN" THEN PutPredicate("", "1=1", << >>)
       ELSE PutPredicate(now.col, now.op, now.vals)
    /\ now' = NoCond /\ UNCHANGED stack

\* A raw fragment, token by token: each "?" takes the next argument, and is
\* dropped when there is none left.
VisitRaw ==
    /\ now.kind = "raw"
    /\ IF now.text = << >> THEN now' = NoCond /\ UNCHANGED builder
       ELSE LET token == Head(now.text)
                holes == IF token.t = "atom" THEN Len(token.marks) ELSE 0
                k     == IF holes < Len(now.args) THEN holes ELSE Len(now.args)
            IN  /\ IF token.t = "atom"
                   THEN PutPredicate(token.col, token.op, SubSeq(now.args, 1, k))
                   ELSE PutSymbol(token.t)
                /\ now' = IF Len(now.text) = 1 THEN NoCond
                          ELSE Raw(Tail(now.text), SubSeq(now.args, k + 1, Len(now.args)))
    /\ UNCHANGED stack

\* A group of one child is its child, with no parentheses.
VisitGroup ==
    /\ now.kind = "group"
    /\ IF Len(now.conds) = 0 THEN now' = NoCond /\ UNCHANGED <<builder, stack>>
       ELSE /\ now' = now.conds[1]
            /\ IF Len(now.conds) = 1 THEN UNCHANGED <<builder, stack>>
               ELSE /\ PutSymbol("(")
                    /\ stack' = Append(stack, [in |-> now, at |-> 1])

\* EXISTS, then its subquery: the correlation, given with the field, and the
\* inner condition if there is one.
Subquery(c) == [kind |-> "subquery", of |-> c]
Correlation == Raw(<<Atom("", "1=1", << >>)>>, << >>)
VisitExists ==
    /\ now.kind = "exists"
    /\ PutSymbol(IF now.negate THEN "NOT EXISTS" ELSE "EXISTS")
    /\ now' = Subquery(now) /\ UNCHANGED stack
VisitSubquery ==
    /\ now.kind = "subquery"
    /\ PutSymbol("(")
    /\ now' = Correlation /\ stack' = Append(stack, [in |-> now.of, at |-> 1])

Parts(c) == IF c.kind = "group" THEN c.conds
            ELSE IF c.inner = NoCond THEN <<Correlation>> ELSE <<Correlation, c.inner>>
\* Slip: AND joins the children of an Or too.
JoinerAnd(c) == "AND"
Joiner(c) == IF c.kind = "group" /\ c.or THEN "OR" ELSE "AND"

Top == stack[Len(stack)]
Join ==
    /\ now.kind = "nil" /\ stack # << >> /\ Top.at < Len(Parts(Top.in))
    /\ PutSymbol(Joiner(Top.in))
    /\ now' = Parts(Top.in)[Top.at + 1]
    /\ stack' = [stack EXCEPT ![Len(stack)].at = @ + 1]
Close ==
    /\ now.kind = "nil" /\ stack # << >> /\ Top.at = Len(Parts(Top.in))
    /\ PutSymbol(")")
    /\ stack' = SubSeq(stack, 1, Len(stack) - 1) /\ UNCHANGED now

WriteNext == \/ VisitLeaf \/ VisitRaw \/ VisitGroup \/ VisitExists
             \/ VisitSubquery \/ Join \/ Close
=============================================================================
