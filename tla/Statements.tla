----------------------------- MODULE Statements -----------------------------
(***************************************************************************)
(* The statements of a query (query.go, keyset.go): the fluent calls that  *)
(* build it, in any order, and List, Seek and Count writing their SQL from *)
(* it clause by clause, each numbering its placeholders from where the     *)
(* arguments so far end.                                                   *)
(*                                                                         *)
(* Of a statement only what takes an argument is kept; columns and names   *)
(* take none.                                                              *)
(***************************************************************************)
EXTENDS Rendering

CONSTANTS
    Conds,      \* the conditions passed to Cond and Having, NoCond for nil
    Seeks,      \* the predicates a cursor seeks by
    Searches,   \* the strings passed to OrderByRelevance
    Columns,    \* by sort key a request may use, the column it stands for
    Specs,      \* the sort parameters of requests, as lists of keys
    Windows,    \* the limits and offsets Paginate comes to; Seek has the limit
    MaxTerms    \* bound: order terms asked for

ASSUME StatementsAssumption ==
    /\ Conds \subseteq Trees \cup {NoCond} /\ Seeks \subseteq Trees
    /\ Searches \subseteq Values
    /\ Windows \subseteq [limit : Int, offset : Int]
    /\ \A w \in Windows : {w.limit + 1, w.offset} \subseteq Values
    /\ Specs \subseteq Seq([key : STRING, desc : BOOLEAN])

VARIABLES
    cond, groupBy, having, order, dialect, err,    \* the Query
    asked,      \* history: the order terms asked for, also by refused keys
    pc,         \* the clause being written
    call,       \* what the statement is of: list, seek or count, and its window
    sent,       \* the statement so far: its marks and its arguments
    at          \* the order terms written

query == <<cond, groupBy, having, order, dialect, err, asked>>
vars  == <<rendering, query, pc, call, sent, at>>

Nothing == [marks |-> << >>, args |-> << >>]
NoCall  == [of |-> "none", limit |-> 0, offset |-> 0]

Init == /\ cond = NoCond /\ groupBy = FALSE /\ having = NoCond
        /\ order = << >> /\ dialect \in Dialects /\ err = FALSE
        /\ asked = << >>
        /\ pc = "idle" /\ call = NoCall /\ sent = Nothing /\ at = 0
        /\ builder = Blank(0) /\ now = NoCond /\ stack = << >>

-----------------------------------------------------------------------------
(* The calls that build the query.                                         *)

Idle == pc = "idle" /\ UNCHANGED <<rendering, pc, call, sent, at>>

Cond(c)   == cond' = c /\ UNCHANGED <<groupBy, having, order, dialect, err, asked>>
Having(c) == having' = c /\ UNCHANGED <<cond, groupBy, order, dialect, err, asked>>
GroupBy   == groupBy' = TRUE /\ UNCHANGED <<cond, having, order, dialect, err, asked>>

Terms(added, wanted, failed) ==
    /\ Len(asked) + Len(wanted) <= MaxTerms
    /\ order' = order \o added
    /\ err' = (err \/ failed)
    /\ asked' = asked \o wanted
    /\ UNCHANGED <<cond, groupBy, having, dialect>>
ColumnTerm(col, desc) == [rank |-> FALSE, col |-> col, desc |-> desc, search |-> 0]
RankTerm(search) == [rank |-> TRUE, col |-> "a", desc |-> TRUE, search |-> search]

AddTerm(t) == Terms(<<t>>, <<t>>, FALSE)
OrderByColumn == AddTerm(ColumnTerm("a", FALSE))
OrderByRelevance(search) == AddTerm(RankTerm(search))

Allowed(spec) == \A i \in DOMAIN spec : spec[i].key \in DOMAIN Columns
\* The terms of the keys in front of the first that is not allowed.
SortTerms(spec) ==
    LET known(n) == \A i \in 1..n : spec[i].key \in DOMAIN Columns
        n == CHOOSE n \in 0..Len(spec) : known(n) /\ (n = Len(spec) \/ ~known(n + 1))
    IN  [i \in 1..n |-> ColumnTerm(Columns[spec[i].key], spec[i].desc)]
Wanted(spec) ==
    [i \in DOMAIN spec |-> IF spec[i].key \in DOMAIN Columns
                           THEN ColumnTerm(Columns[spec[i].key], spec[i].desc)
                           ELSE [refused |-> spec[i].key]]

\* Slip: a key that is not allowed is passed over.
SortPassingOver(spec) ==
    LET known(k) == k.key \in DOMAIN Columns
    IN  Terms(SortTerms(SelectSeq(spec, known)), Wanted(spec), FALSE)
Sort(spec) == Terms(SortTerms(spec), Wanted(spec), ~Allowed(spec))

-----------------------------------------------------------------------------
(* A statement.  A deferred error, a relevance order the dialect or Seek   *)
(* does not have, and a Seek with no order are refused before any SQL.     *)

Ranked == \E i \in DOMAIN order : order[i].rank

Start(of, w, c) ==
    /\ pc' = "where" /\ call' = [of |-> of, limit |-> w.limit, offset |-> w.offset]
    /\ BuildFrom(c, 0)
    /\ UNCHANGED <<query, sent, at>>

List(w) == ~(Ranked /\ dialect = "sqlite") /\ Start("list", w, cond)
\* The first page has no cursor.
SeekFirst(w) == order # << >> /\ ~Ranked /\ w.limit > 0 /\ Start("seek", w, cond)
SeekPast(w, c) ==
    /\ order # << >> /\ ~Ranked /\ w.limit > 0
    /\ Start("seek", w, Group(FALSE, IF cond = NoCond THEN <<c>> ELSE <<cond, c>>))
Count == Start("count", NoCall, cond)

Added(marks, args) == [marks |-> sent.marks \o marks, args |-> sent.args \o args]
WithBuilt == IF builder.text = << >> THEN sent ELSE Added(builder.marks, builder.args)

\* A step of the pass that writes a condition.
Write == pc \in {"where", "having"} /\ WriteNext /\ UNCHANGED <<query, pc, call, sent, at>>

\* Slip: HAVING does not continue the numbering of WHERE.
EndWhereFresh ==
    /\ pc = "where" /\ Rendered
    /\ sent' = Added(builder.marks, builder.args)
    /\ IF call.of = "count" /\ ~groupBy /\ having = NoCond
       THEN pc' = "sent" /\ UNCHANGED rendering
       ELSE pc' = "having" /\ BuildFrom(having, 0)
    /\ UNCHANGED <<query, call, at>>
\* The WHERE clause is written.  A COUNT of no groups ends there.
EndWhere ==
    /\ pc = "where" /\ Rendered
    /\ sent' = Added(builder.marks, builder.args)
    /\ IF call.of = "count" /\ ~groupBy /\ having = NoCond
       THEN pc' = "sent" /\ UNCHANGED rendering
       ELSE pc' = "having" /\ BuildFrom(having, Len(sent'.args))
    /\ UNCHANGED <<query, call, at>>

\* writeGroupHaving is done: the wrapped COUNT ends, a SELECT is ordered.
EndHaving ==
    /\ pc = "having" /\ Rendered
    /\ sent' = WithBuilt
    /\ pc' = IF call.of = "count" THEN "sent" ELSE "order"
    /\ BuildFrom(NoCond, Len(sent'.args))
    /\ at' = 0 /\ UNCHANGED <<query, call>>

\* writeOrder: a relevance term binds its search, the others nothing.
WriteTerm ==
    /\ pc = "order" /\ at < Len(order)
    /\ LET t == order[at + 1]
       IN  IF t.rank THEN PutPredicate("", "rank", <<t.search>>) ELSE UNCHANGED builder
    /\ at' = at + 1 /\ UNCHANGED <<query, pc, call, sent, now, stack>>
EndOrder ==
    /\ pc = "order" /\ at = Len(order)
    /\ sent' = Added(builder.marks, builder.args)
    /\ pc' = "limit" /\ BuildFrom(NoCond, 0)
    /\ UNCHANGED <<query, call, at>>

\* One row more than the page, with the offset in a List; no limit but an
\* offset; or neither.
LimitArgs ==
    IF call.of = "seek" THEN <<call.limit + 1>>
    ELSE IF call.limit > 0 THEN <<call.limit + 1, call.offset>>
    ELSE IF call.offset > 0 THEN <<call.offset>>
    ELSE << >>
Limit ==
    /\ pc = "limit"
    /\ sent' = Added([i \in DOMAIN LimitArgs |->
                         [n |-> Len(sent.args) + i, v |-> LimitArgs[i]]], LimitArgs)
    /\ pc' = "sent" /\ UNCHANGED <<rendering, query, call, at>>

Answer ==
    /\ pc = "sent"
    /\ pc' = "idle" /\ call' = NoCall /\ sent' = Nothing /\ at' = 0
    /\ BuildFrom(NoCond, 0) /\ UNCHANGED query

\* The caller builds the query when no statement is being written.
Build == /\ Idle
         /\ \/ \E c \in Conds : Cond(c) \/ Having(c)
            \/ GroupBy \/ OrderByColumn
            \/ \E s \in Searches : OrderByRelevance(s)
            \/ \E spec \in Specs : Sort(spec)

\* It runs one.
Run == /\ pc = "idle" /\ ~err
       /\ \/ \E w \in Windows : \/ List(w) \/ SeekFirst(w)
                                \/ \E c \in Seeks : SeekPast(w, c)
          \/ Count

Next == \/ Build \/ Run
        \/ Write \/ EndWhere \/ EndHaving \/ WriteTerm \/ EndOrder \/ Limit \/ Answer

Spec == Init /\ [][Next]_vars

-----------------------------------------------------------------------------
\* The number the server takes a mark for: the n of its $n on PostgreSQL, and
\* elsewhere its position.
NumberOf(i) == IF dialect = "postgres" THEN sent.marks[i].n ELSE i

\* Whatever clauses a query has, in every dialect, each argument of a statement
\* reaches the placeholder it was meant for: the numbers on PostgreSQL, and
\* elsewhere the positions, run through WHERE, HAVING, ORDER BY and LIMIT as the
\* arguments do, none is left over and none is missing (buildSelect,
\* buildKeysetSelect, count).
ArgumentsReachTheirPlaceholders ==
    pc = "sent" =>
      /\ Len(sent.marks) = Len(sent.args)
      /\ \A i \in DOMAIN sent.marks :
            /\ NumberOf(i) \in DOMAIN sent.args
            /\ sent.args[NumberOf(i)] = sent.marks[i].v

\* A query that is not refused is ordered by every term asked for, in the order
\* of the calls: a request's sort key that is not allowed is an error, also when
\* the keys before it are in the order already, and never left out (Sort).
OrderIsAsked == ~err => order = asked
=============================================================================
