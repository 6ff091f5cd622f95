----------------------------- MODULE MCPlanCache -----------------------------
EXTENDS PlanCache

\* An article filter with a group of itself and an Exists, as in examples/; a
\* feed whose Exists is over a type that does not compile; and a type with groups
\* over two such.
MCTypes == {"article", "wide", "feed", "joined", "tableless", "twice", "broken"}
None == "joined"      \* for the fields that are over no type
MCFields ==
    [article   |-> <<Field("exists", "joined"), Field("group", "article")>>,
     wide      |-> <<Field("group", "feed"), Field("group", "broken")>>,
     feed      |-> <<Field("exists", "tableless")>>,
     joined    |-> <<Field("join", None), Field("table", None)>>,
     tableless |-> <<Field("join", None)>>,
     twice     |-> <<Field("table", None), Field("exists", "joined"),
                     Field("table", None)>>,
     broken    |-> <<Field("plain", None), Field("bad", None)>>]
MCRoots == {"article", "wide", "feed", "twice"}
MCCallers == {"g1", "g2"}
=============================================================================
