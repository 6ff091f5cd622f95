---------------------------- MODULE MCStatements ----------------------------
EXTENDS Statements

\* A condition of no argument, of none that writes nothing, of one, of several,
\* in a subquery, and a fragment short of one.  Each tree has arguments of its own.
MCConds == {
    NoCond, Group(FALSE, << >>), Leaf("a", "=", <<1>>),
    Group(TRUE, <<Leaf("a", "IN", <<2, 3>>),
                  Exists(FALSE, Group(FALSE, <<Leaf("b", ">", <<4>>)>>))>>),
    Raw(<<Atom("a", "=", <<[n |-> 1, v |-> 7]>>), Sym("AND"),
          Atom("b", "=", <<[n |-> 2, v |-> 8]>>)>>, <<7>>)}
MCSeeks == {Group(TRUE, <<Leaf("a", ">", <<9>>), Leaf("a", "IS NULL", << >>)>>)}

RECURSIVE Within(_)
Within(c) == {c} \cup CASE c.kind = "group" -> UNION {Within(c.conds[i]) : i \in DOMAIN c.conds}
                        [] c.kind = "exists" -> Within(c.inner)
                        [] OTHER -> {}
MCTrees == UNION {Within(c) : c \in (MCConds \cup MCSeeks)} \ {NoCond}

MCSearches == {11, 12}
MCValues == 0..20
Key(k, desc) == [key |-> k, desc |-> desc]
MCColumns == [title |-> "a", created |-> "b"]
MCSpecs == {<<Key("title", TRUE), Key("created", FALSE)>>,
            <<Key("created", FALSE), Key("secret", FALSE)>>,
            <<Key("secret", TRUE), Key("title", FALSE)>>}
MCWindows == {[limit |-> 14, offset |-> 0], [limit |-> 14, offset |-> 6],
              [limit |-> 0, offset |-> 6], [limit |-> 0, offset |-> 0]}
=============================================================================
