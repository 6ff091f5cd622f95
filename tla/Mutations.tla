----------------------------- MODULE Mutations ------------------------------
(***************************************************************************)
(* One Query used as its fluent interface allows, in any order and again:  *)
(* filters set and replaced (query.go), the soft-delete scope switched,    *)
(* and Delete, Update and Count run from it (mutate.go), while other       *)
(* sessions write the table.                                               *)
(*                                                                         *)
(* A statement writes its WHERE clause in a pass of RenderedText, and has  *)
(* the rows the database found by reading that text; the properties        *)
(* compare them with what the caller asked for.                            *)
(***************************************************************************)
EXTENDS RenderedText, FiniteSets

CONSTANTS
    Filters,        \* the filter structs passed to Where, with what each
                    \* compiles to and what it asks for
    Requests,       \* the same of the query strings whose filter is
    Conds,          \* the trees passed to Cond
    Silences,       \* the trees that say nothing
    Sets,           \* the assignments passed to Update
    Databases       \* the dialects passed to On

\* The soft-delete scope's condition; gone is the column, NULL in a live row.
Scope(deleted) == Leaf("gone", IF deleted THEN "IS NOT NULL" ELSE "IS NULL", << >>)
Within(c, s) == Group(FALSE, <<c, s>>)

NoSet == << >>
Become(r, set) == [c \in DOMAIN r |-> IF c \in DOMAIN set THEN set[c] ELSE r[c]]

Asking == [says : [Rows -> Truth], silent : BOOLEAN, legal : BOOLEAN]
Offered == Conds \cup {NoCond} \cup {f.cond : f \in Filters \cup Requests}

ASSUME MutationsAssumption ==
    /\ Filters \cup Requests \subseteq
          [fails : BOOLEAN, bound : BOOLEAN, source : {"none", "plain", "joined"},
           cond : Trees \cup {NoCond}, asks : Asking]
    /\ \A f \in Filters : f.bound
    /\ Conds \subseteq Trees \cup {NoCond}
    /\ \A deleted \in BOOLEAN :
          /\ Scope(deleted) \in Trees
          /\ \A c \in Offered \ {NoCond} : Within(c, Scope(deleted)) \in Trees
    /\ Silences = {c \in Trees :
                      \/ c.kind = "raw" /\ c.text = << >>
                      \/ c.kind = "group" /\ \A i \in DOMAIN c.conds : c.conds[i] \in Silences}
    /\ Databases \subseteq Dialects
    /\ \A s \in Sets : /\ DOMAIN s \subseteq {"a", "gone"}
                       /\ \A c \in DOMAIN s : s[c] \in Values
                       /\ \A r \in Rows : "id" \in DOMAIN r /\ Become(r, s) \in Rows

VARIABLES
    table,    \* the rows
    q,        \* the Query
    asked,    \* history: what the caller asked for last
    pc, call, \* the statement: how far it is, and what it is of
    reply     \* what the last statement returned

vars == <<pass, table, q, asked, pc, call, reply>>

Tables == {T \in SUBSET Rows : IsFiniteSet(T) /\ \A r, s \in T : r.id = s.id => r = s}

NewQuery == [cond |-> NoCond, soft |-> FALSE, scope |-> "active",
             unfiltered |-> FALSE, err |-> FALSE, joined |-> FALSE,
             dialect |-> "postgres"]
AskedNothing == [says |-> [r \in Rows |-> "true"], silent |-> TRUE, legal |-> TRUE]
NoCall == [of |-> "none", set |-> NoSet]
Reply(what, set, n) == [what |-> what, set |-> set, n |-> n]
Silence == Reply("none", NoSet, 0)

-----------------------------------------------------------------------------
(* Building the query.                                                     *)

Built(r, a) == q' = r /\ asked' = a

From == Built(NewQuery, AskedNothing)

\* A filter that does not compile leaves the query with an error, which stays.
Filtered(r, f) ==
    IF f.fails THEN [r EXCEPT !.err = TRUE]
    ELSE [r EXCEPT !.cond = f.cond,
                   !.joined = IF f.source = "none" THEN @ ELSE f.source = "joined"]
Where(f) == Built(Filtered(q, f), f.asks)
\* A query over the source its filter declares, which it must.
For(f) == LET r == Filtered(NewQuery, f)
          IN  Built([r EXCEPT !.err = @ \/ f.source = "none"], f.asks)

\* A handler passes on the filter Bind makes of a request, if it makes one.
WhereRequest(u) == u.bound /\ Where(u)

Cond(c) ==
    Built([q EXCEPT !.cond = c],
          IF c = NoCond THEN AskedNothing
          ELSE [says |-> Meaning[c], silent |-> c \in Silences, legal |-> TRUE])
SoftDelete   == Built([q EXCEPT !.soft = TRUE, !.scope = "active"], asked)
WithDeleted  == Built([q EXCEPT !.scope = "all"], asked)
OnlyDeleted  == Built([q EXCEPT !.scope = "deleted"], asked)
On(d)        == Built([q EXCEPT !.dialect = d], asked)
Unfiltered   == Built([q EXCEPT !.unfiltered = TRUE], asked)

-----------------------------------------------------------------------------
(* Running it.                                                             *)

EffectiveCond ==
    LET scope == Scope(q.scope = "deleted")
    IN  IF ~q.soft \/ q.scope = "all" THEN q.cond
        ELSE IF q.cond = NoCond THEN scope
        ELSE Within(q.cond, scope)

\* Slip: a query whose filter failed to compile runs with the one before.
RefusedUnchecked(of, set) ==
    \/ of # "count" /\ q.joined
    \/ of = "update" /\ DOMAIN set = {}
\* The checks that come before the WHERE clause is written.
Refused(of, set) ==
    \/ q.err
    \/ of # "count" /\ q.joined
    \/ of = "update" /\ DOMAIN set = {}

Call(of, set) ==
    /\ IF Refused(of, set)
       THEN reply' = Reply("refused", NoSet, 0) /\ UNCHANGED <<pass, pc, call>>
       ELSE /\ pc' = "where" /\ call' = [of |-> of, set |-> set] /\ reply' = Silence
            /\ PassFrom(EffectiveCond, 0)
    /\ UNCHANGED <<table, q, asked>>

\* A step of the pass that writes the WHERE clause.
WriteWhere ==
    /\ pc # "idle" /\ PassNext
    /\ reply' = Silence /\ UNCHANGED <<table, q, asked, pc, call>>

Return == /\ pc' = "idle" /\ call' = NoCall /\ PassFrom(NoCond, 0)
          /\ UNCHANGED <<q, asked>>

Unguarded == builder.text = << >> /\ call.of # "count" /\ ~q.unfiltered
\* No WHERE clause was written.
RefuseWhole ==
    /\ pc = "where" /\ Rendered /\ Unguarded
    /\ reply' = Reply("refused", NoSet, 0) /\ UNCHANGED table /\ Return

\* The assignments in the order of their columns.
Columns == (IF "a" \in DOMAIN call.set THEN <<"a">> ELSE << >>)
           \o (IF "gone" \in DOMAIN call.set THEN <<"gone">> ELSE << >>)
SetMarks == [i \in DOMAIN Columns |-> [n |-> i, v |-> call.set[Columns[i]]]]
SetArgs  == [i \in DOMAIN Columns |-> call.set[Columns[i]]]

\* Update writes its WHERE clause again, to number it on from the assignments.
Rewrite ==
    /\ pc = "where" /\ Rendered /\ call.of = "update" /\ builder.text # << >>
    /\ pc' = "rewritten" /\ PassFrom(root, Len(Columns))
    /\ reply' = Silence /\ UNCHANGED <<table, q, asked, call>>

\* Slip: an empty filter is not refused.
SentUnguarded(of) ==
    /\ call.of = of /\ Rendered
    /\ pc = (IF of = "update" /\ builder.text # << >> THEN "rewritten" ELSE "where")
\* The statement is complete, and sent.
Sent(of) ==
    /\ call.of = of /\ Rendered /\ ~Unguarded
    /\ pc = (IF of = "update" /\ builder.text # << >> THEN "rewritten" ELSE "where")

SentMarks == SetMarks \o builder.marks
\* Slip: the WHERE arguments are sent before the assignments'.
SentArgsSwapped == builder.args \o SetArgs
SentArgs == SetArgs \o builder.args

\* What the server makes of a statement: the number it takes a mark for, whether
\* it runs, the rows its WHERE clause finds, which can be any when a mark there
\* has the argument of another one, and what each becomes.
NumberOf(i) == IF q.dialect = "postgres" THEN SentMarks[i].n ELSE i
Accepted == Len(SentMarks) = Len(SentArgs) /\ \A i \in DOMAIN SentMarks : NumberOf(i) \in DOMAIN SentArgs
Runs     == Accepted /\ (builder.text = << >> \/ Parsed(read))
AsMeant  == \A i \in DOMAIN SentMarks : SentArgs[NumberOf(i)] = SentMarks[i].v
Finds ==
    IF ~Runs THEN {}
    ELSE IF ~AsMeant THEN SUBSET table
    ELSE {{r \in table : builder.text = << >> \/ ValueOf(read[1])[r] = "true"}}
Assigned(r) ==
    [c \in DOMAIN r |-> IF \E i \in DOMAIN Columns : Columns[i] = c
                        THEN SentArgs[NumberOf(CHOOSE i \in DOMAIN Columns : Columns[i] = c)]
                        ELSE r[c]]

Fail == reply' = Reply("failed", call.set, 0)
\* exec: the statement's effect, and the number of rows it says it affected,
\* which is 0 from a driver that does not say.  A statement may fail, or its
\* effect stand and only the answer be lost.
Exec(done, F, T) ==
    /\ table' = T
    /\ \/ \E n \in {0, Cardinality(F)} : reply' = Reply(done, call.set, n)
       \/ Fail

Delete == /\ Sent("delete")
          /\ \/ \E F \in Finds : Exec("deleted", F, table \ F)
             \/ Fail /\ UNCHANGED table
          /\ Return
Update == /\ Sent("update")
          /\ \/ \E F \in Finds :
                   Exec("updated", F, (table \ F) \cup {Assigned(r) : r \in F})
             \/ Fail /\ UNCHANGED table
          /\ Return
\* Count, over the filter alone.
Count == /\ Sent("count")
         /\ \/ \E F \in Finds : reply' = Reply("counted", NoSet, Cardinality(F))
            \/ Fail
         /\ UNCHANGED table /\ Return

Others == /\ reply = Silence
          /\ \E r \in Rows :
                \/ r \in table /\ table' = table \ {r}
                \/ r.id \notin {s.id : s \in table} /\ table' = table \cup {r}
          /\ UNCHANGED <<pass, q, asked, pc, call, reply>>

\* The caller has the reply.
Answered == reply # Silence /\ reply' = Silence
            /\ UNCHANGED <<pass, table, q, asked, pc, call>>

Init == /\ table \in Tables /\ q = NewQuery /\ asked = AskedNothing
        /\ pc = "idle" /\ call = NoCall /\ reply = Silence
        /\ root = NoCond /\ start = 0 /\ builder = Blank(0) /\ now = NoCond
        /\ stack = << >> /\ read = <<Fresh>> /\ plain = TRUE

Idle == pc = "idle" /\ reply = Silence

\* The caller builds the query when no statement is being run.
Fluent == /\ Idle /\ UNCHANGED <<pass, table, pc, call, reply>>
          /\ \/ From \/ SoftDelete \/ WithDeleted \/ OnlyDeleted \/ Unfiltered
             \/ \E f \in Filters : Where(f) \/ For(f)
             \/ \E u \in Requests : WhereRequest(u)
             \/ \E c \in Conds : Cond(c)
             \/ \E d \in Databases : On(d)
\* It gets a request it cannot bind, or runs a statement.
Reject == /\ Idle /\ \E u \in Requests : ~u.bound
          /\ reply' = Reply("refused", NoSet, 0)
          /\ UNCHANGED <<pass, table, q, asked, pc, call>>
Run == /\ Idle
       /\ \/ Call("delete", NoSet) \/ Call("count", NoSet)
          \/ \E s \in Sets : Call("update", s)

Next == \/ Fluent \/ Reject \/ Run
        \/ WriteWhere \/ RefuseWhole \/ Rewrite \/ Delete \/ Update \/ Count
        \/ Answered \/ Others

Spec == Init /\ [][Next]_vars

-----------------------------------------------------------------------------
(* Properties.                                                             *)

\* Types; the table keeps its key and the query one of the conditions given.
TypeOK ==
    /\ table \in Tables
    /\ asked \in Asking
    /\ q \in [cond : Offered, soft : BOOLEAN, scope : {"active", "all", "deleted"},
              unfiltered : BOOLEAN, err : BOOLEAN, joined : BOOLEAN,
              dialect : Databases \cup {"postgres"}]
    /\ pc \in {"idle", "where", "rewritten"}
    /\ call \in [of : {"none", "delete", "update", "count"}, set : Sets \cup {NoSet}]
    /\ reply \in [what : {"none", "refused", "failed", "deleted", "updated", "counted"},
                  set : Sets \cup {NoSet}, n : Nat]

\* Condition c says what a asks for.
Fits(c, a) == /\ a.legal
              /\ a.silent <=> c \in Silences \cup {NoCond}
              /\ ~a.silent => Meaning[c] = a.says

\* Each filter struct and request that compiles, compiles to what it asks for.
CompiledAsAsked ==
    \A f \in Filters \cup Requests : f.bound /\ ~f.fails => Fits(f.cond, f.asks)

\* A query that is not refused holds the condition its caller asked for last,
\* and no part of one asked for before (Where, For, Cond; Bind for a request).
QuerySaysWhatIsAsked == ~q.err => Fits(q.cond, asked)

\* The rows the caller asked for: those of the last filter, request or tree, if
\* all of it compiles, within the soft-delete scope.
InScope(r) == \/ ~q.soft \/ q.scope = "all"
              \/ (q.scope = "deleted") = (r.gone # NULL)
AskedFor(r) == asked.legal /\ (asked.silent \/ asked.says[r] = "true")
Meant == {r \in table : AskedFor(r) /\ InScope(r)}
Updated(set) == (table \ Meant) \cup {Become(r, set) : r \in Meant}

\* Delete, Update and Count touch exactly the rows asked for, whatever calls
\* built the query and in which order; a filter that failed to compile, even
\* over one that did, means no row is touched.  A statement that fails did all
\* of it or nothing.  Not said of a tree that is no silent one and not plain.
StatementsTouchWhatIsMeant ==
    [][plain \/ asked.silent =>
       /\ reply'.what = "deleted" => table' = table \ Meant
       /\ reply'.what = "updated" => table' = Updated(reply'.set)
       /\ reply'.what = "failed" => \/ UNCHANGED table \/ table' = table \ Meant
                                    \/ table' = Updated(reply'.set)
       /\ reply'.what = "counted" => reply'.n = Cardinality(Meant)]_vars

\* A query that asks for no condition and has no scope changes nothing unless
\* Unfiltered was called on it (Delete, Update).
WholeTableNeedsConsent ==
    [][reply'.what \in {"deleted", "updated", "failed"} /\ asked.silent
       => \/ UNCHANGED table \/ q.unfiltered
          \/ q.soft /\ q.scope # "all"]_vars

\* A filter struct that could not be compiled is an error, not a filter.
BadFilterIsRefused ==
    [][reply'.what = "deleted" /\ ~asked.legal => UNCHANGED table]_vars
=============================================================================
