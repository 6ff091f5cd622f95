----------------------------- MODULE Conditions -----------------------------
(***************************************************************************)
(* What a condition tree means, with no text in it.                        *)
(***************************************************************************)
EXTENDS CondTrees, SqlText

\* A tree that says nothing: nil, an empty fragment, or a group in which no child
\* says anything.
RECURSIVE Silent(_)
Silent(c) == \/ c.kind = "nil" \/ (c.kind = "raw" /\ c.text = << >>)
             \/ c.kind = "group" /\ \A i \in DOMAIN c.conds : Silent(c.conds[i])

RECURSIVE Means(_, _)
Means(c, row) ==
    LET said == {i \in DOMAIN c.conds : ~Silent(c.conds[i])}
        values == {Means(c.conds[i], row) : i \in said}
        found == Or3({IF Silent(c.inner) THEN "true" ELSE Means(c.inner, k) :
                      k \in row.kids})
    IN  CASE c.kind = "leaf" -> Compare(c.op, row[c.col], c.vals)
          [] c.kind = "raw" -> Eval(c.text, c.args, row)
          [] c.kind = "exists" -> IF c.negate THEN Not3(found) ELSE found
          [] c.kind = "group" -> IF c.or THEN Or3(values) ELSE And3(values)

\* The trees whose text means what they do.  Not among them are a group of two
\* or more with a child that says nothing, which leaves a connective dangling,
\* and a raw fragment with an OR of its own, which is not put in parentheses.
RECURSIVE Regular(_)
Regular(c) ==
    CASE c.kind = "group" ->
             /\ \A i \in DOMAIN c.conds : Regular(c.conds[i])
             /\ Len(c.conds) > 1 => \A i \in DOMAIN c.conds : ~Silent(c.conds[i])
      [] c.kind = "raw" -> /\ Cuts(c.text, "OR") = {}
                           /\ Bindable(c.text, c.args)
      [] c.kind = "exists" -> Regular(c.inner)
                              /\ (c.inner.kind = "nil" \/ ~Silent(c.inner))
      [] OTHER -> TRUE
=============================================================================
