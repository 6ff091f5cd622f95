--------------------------- MODULE ConditionCases ---------------------------
(***************************************************************************)
(* The text a pass writes for a tree, read as a whole, in every dialect    *)
(* and for every row.                                                      *)
(***************************************************************************)
EXTENDS RenderedText, Conditions

\* The text written for a tree, read back by the database with its precedence
\* and its parameter numbering, is the tree: for every nesting of And and Or,
\* every list length and every dialect (Build).
TextMeansTree ==
    Rendered /\ start = 0 /\ Regular(root) =>
        \A dialect \in Dialects :
            LET text == AsRead(dialect, builder.text)
            IN  IF Silent(root) THEN text = << >>
                ELSE \A r \in Rows : Eval(text, builder.args, r) = Means(root, r)

\* A clause before this one, with the arguments this one is numbered after.
Before == [args |-> [i \in 1..start |-> i],
           text |-> IF start = 0 THEN << >>
                    ELSE <<Atom("a", "IN", [i \in 1..start |-> [n |-> i, v |-> i]])>>]

\* A clause that continues another one's numbering binds each value at the
\* placeholder it was written for, by number or by place, and disturbs none of
\* those before it (buildAt).
ClausesBindInOrder ==
    Rendered => \A dialect \in Dialects :
        BoundAsMeant(dialect, Before.text \o builder.text, Before.args \o builder.args)
=============================================================================
