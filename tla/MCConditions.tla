---------------------------- MODULE MCConditions ----------------------------
EXTENDS ConditionCases

\* The columns of a row, and of the rows of its subqueries, have one name.
MCKids == [a : {1, NULL}, kids : {{}}]
MCRows == [a : {1, 2, NULL}, kids : SUBSET MCKids]

MCSeeds == {
    Leaf("a", "=", <<1>>), Leaf("a", "IS NULL", << >>),
    Leaf("a", "IN", <<1, 2>>), Leaf("a", "IN", << >>),
    Leaf("a", "NOT IN", <<2>>), Leaf("a", "NOT IN", << >>),
    Raw(<<Atom("a", ">", <<[n |-> 1, v |-> 1]>>)>>, <<1>>),
    Raw(<<Sym("("), Atom("a", "=", <<[n |-> 1, v |-> 2]>>), Sym("OR"),
          Atom("a", "IN", <<[n |-> 2, v |-> 1]>>), Sym(")")>>, <<2, 1>>)}

\* The trees of one constructor call more than those of T.
Grown(T) ==
    T \cup {And(<< >>)}
      \cup UNION {{And(<<c, s>>), And(<<s, c>>), Or(<<c, s>>), Or(<<s, c>>)} :
                     c \in T, s \in MCSeeds \cup {NoCond}}
      \cup {Exists(negate, c) : negate \in BOOLEAN, c \in {d \in T : d.kind = "leaf"}}
MCTrees == Grown(Grown(MCSeeds))
MCValues == 1..2
MCStarts == {0, 2}

MCMeaning[c \in MCTrees] ==
    [r \in MCRows |->
        CASE c.kind = "leaf" -> Compare(c.op, r[c.col], c.vals)
          [] c.kind = "raw" -> Eval(c.text, c.args, r)
          [] c.kind = "exists" ->
                LET found == Or3({MCMeaning[c.inner][k] : k \in r.kids})
                IN  IF c.negate THEN Not3(found) ELSE found
          [] c.kind = "group" ->
                LET values == {MCMeaning[c.conds[i]][r] : i \in DOMAIN c.conds}
                IN  IF c.or THEN Or3(values) ELSE And3(values)]
=============================================================================
