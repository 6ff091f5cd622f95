---------------------------- MODULE MCMutations -----------------------------
EXTENDS Mutations, Binding

Eq(v) == Leaf("a", "=", <<v>>)

MCDatabases == {"mysql"}
MCIds == {1, 2}
MCCells == {1, NULL}
MCRows == [id : MCIds, a : MCCells, gone : {1, NULL}, kids : {{}}]
MCFields == {"id", "a", "gone"}
MCValues == {1, 2, NULL}
MCSets == {<< >>, [a |-> 1, gone |-> NULL], [gone |-> 1]}

Broken == [Filter(<<Scalar("a", "=", 1)>>) EXCEPT !.legal = FALSE]
MCStructs == {
    Broken,
    [Filter(<<Nested(TRUE, <<Filter(<<Holder("a", Unset, Unset, <<1>>, Unset)>>),
                             Filter(<<Holder("a", Unset, Unset, << >>, TRUE)>>)>>, TRUE)>>)
        EXCEPT !.source = "plain"],
    [Filter(<<Scalar("a", "<>", 1)>>) EXCEPT !.source = "joined"]}
\* A condition with two arguments, one with none, and no condition.
MCConds == {NoCond, And(<< >>), Or(<<Eq(1), Leaf("a", "IN", <<2, 1>>)>>),
            Leaf("a", "IS NULL", << >>)}

\* A handler's filter: of column a, of the ids but some, and a nested one.
MCForm == Filter(<<Holder("a", Unset, Unset, << >>, Unset), Slice("id", "NOT IN", << >>),
                   Nested(TRUE, << >>, TRUE)>>)
MCWires == <<"a", "but", Absent>>
MCAtoi == [r \in {"1", "2"} |-> IF r = "1" THEN 1 ELSE 2]
MCParseBool == [r \in {"t", "1"} |-> TRUE]
MCPieces == [r \in {"1", "2", "t", "2,1", "x", ", "} |->
              CASE r = "2,1" -> <<"2", "1">> [] r = ", " -> << >> [] OTHER -> <<r>>]
MCQueries == {
    Param("other", "") :> <<"1">>,
    Bare("a") :> <<"1">> @@ Bare("but") :> <<", ", "2">>,
    Param("a", "in") :> <<"2,1", "1">> @@ Param("a", "eq") :> <<"2">>,
    Param("a", "null") :> <<"t">>,
    Param("a", "null") :> <<"t">> @@ Param("a", "gt") :> <<"x">>}

MCFilters  == {Compiled(f, MCRows) : f \in MCStructs}
MCRequests == {CompiledRequest(u, MCRows) : u \in MCQueries}

\* A filter with a group whose element type does not compile.
BadGroup == {Compiled(Filter(<<Slice("a", "IN", <<1, 2>>),
                               Nested(FALSE, <<Filter(<<Scalar("a", "<>", 1)>>)>>, FALSE)>>),
                      MCRows)}
NoneOfThem == {}

\* The trees: those of filters, requests and Cond, each also within a scope.
RECURSIVE In(_)
In(c) == {c} \cup CASE c.kind = "group" -> UNION {In(c.conds[i]) : i \in DOMAIN c.conds}
                    [] OTHER -> {}
MCRoots == MCConds \cup {f.cond : f \in MCFilters \cup MCRequests \cup BadGroup}
MCScopes == {Scope(deleted) : deleted \in BOOLEAN}
MCTrees == UNION {In(c) : c \in MCRoots \ {NoCond}} \cup MCScopes
           \cup {Within(c, s) : c \in MCRoots \ {NoCond}, s \in MCScopes}
MCSilences == {c \in MCTrees : Silent(c)}

MCMeaning[c \in MCTrees] ==
    [r \in MCRows |->
        CASE c.kind = "leaf" -> Compare(c.op, r[c.col], c.vals)
          [] c.kind = "group" ->
                LET values == {MCMeaning[c.conds[i]][r] : i \in DOMAIN c.conds}
                IN  IF c.or THEN Or3(values) ELSE And3(values)]
=============================================================================
