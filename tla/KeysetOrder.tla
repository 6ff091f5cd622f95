---------------------------- MODULE KeysetOrder -----------------------------
(***************************************************************************)
(* The two orders of a keyset page (keyset.go, dialect.go): the one the    *)
(* ORDER BY clause makes the database sort by, and the one the seek        *)
(* predicate makes it cut by.  A walk over pages is correct only if they   *)
(* are the same order in every dialect, direction and NULL placement.      *)
(*                                                                         *)
(* An ordering is a sequence of terms; a key is the tuple of a row's       *)
(* values for them, so the column of a term is its position.               *)
(***************************************************************************)
EXTENDS SqlLogic, Sequences

NullsPos == {"default", "first", "last"}
OrderTerm == [desc : BOOLEAN, nulls : NullsPos]

\* Slip: the placement is not mirrored.
FlipNullsForgotten(p) == p

FlipNulls(p) ==
    IF p = "first" THEN "last" ELSE IF p = "last" THEN "first" ELSE p

\* A backward page is fetched in the reversed order.
ReverseOrder(order) ==
    [i \in DOMAIN order |-> [desc |-> ~order[i].desc,
                             nulls |-> FlipNulls(order[i].nulls)]]

-----------------------------------------------------------------------------
(* What an OrderBy list declares, with no SQL in it: a lexicographic order *)
(* where each column ascends or descends and NULLs sit where they are put. *)

ColumnBefore(t, a, b) ==
    \/ a # NULL /\ b # NULL /\ IF t.desc THEN a > b ELSE a < b
    \/ a = NULL /\ b # NULL /\ t.nulls = "first"
    \/ a # NULL /\ b = NULL /\ t.nulls = "last"

Precedes(o, a, b) ==
    \E i \in DOMAIN o : /\ \A j \in 1..(i - 1) : a[j] = b[j]
                        /\ ColumnBefore(o[i], a[i], b[i])

-----------------------------------------------------------------------------
(* The ORDER BY side.                                                      *)

\* Slip: MySQL's ISNULL() key sorts the wrong way round.
OrderClauseSwapped(dialect, t) ==
    LET column(nulls) == [on |-> "column", desc |-> t.desc, nulls |-> nulls]
        bare == column(DefaultNulls(dialect, t.desc))
    IN  IF t.nulls = "default" THEN <<bare>>
        ELSE IF dialect # "mysql" THEN <<column(t.nulls)>>
        ELSE <<[on |-> "isnull", desc |-> t.nulls = "last", nulls |-> "last"],
               bare>>

\* orderClause: the physical sort keys one term renders to.  MySQL has no
\* NULLS FIRST/LAST, so a placement there is a leading ISNULL() key.
OrderClause(dialect, t) ==
    LET column(nulls) == [on |-> "column", desc |-> t.desc, nulls |-> nulls]
        bare == column(DefaultNulls(dialect, t.desc))
    IN  IF t.nulls = "default" THEN <<bare>>
        ELSE IF dialect # "mysql" THEN <<column(t.nulls)>>
        ELSE <<[on |-> "isnull", desc |-> t.nulls = "first", nulls |-> "last"],
               bare>>

\* a sorts strictly before b under the keys of one term.
TermLT(dialect, t, a, b) ==
    LET keys == OrderClause(dialect, t)
        tied(k) == ~SortKeyLT(k, a, b) /\ ~SortKeyLT(k, b, a)
    IN  \E i \in DOMAIN keys : /\ \A j \in 1..(i - 1) : tied(keys[j])
                               /\ SortKeyLT(keys[i], a, b)

\* Key a sorts strictly before key b under the whole ORDER BY.
KeyLT(dialect, order, a, b) ==
    \E i \in DOMAIN order : /\ \A j \in 1..(i - 1) : a[j] = b[j]
                            /\ TermLT(dialect, order[i], a[i], b[i])

-----------------------------------------------------------------------------
(* The WHERE side.                                                         *)

\* Slip: a NULL boundary compared with a plain =.
NullEqPlain(x, v) == SqlEq(x, v)

\* nullEq: the equality prefix, IS NULL for a nil boundary.
NullEq(x, v) == IF v = NULL THEN SqlIsNull(x) ELSE SqlEq(x, v)

\* Slip: it is not mirrored for a backward page.
PlacementForward(t, before) == t.nulls
\* NULL placement as seen in the paging direction.
Placement(t, before) == IF before THEN FlipNulls(t.nulls) ELSE t.nulls

\* afterCompare returned nil: nothing sorts after a NULL boundary unless
\* NULLs sort first.
NoBranch(t, v, before) == v = NULL /\ Placement(t, before) # "first"

\* Slips: NULLs that sort last are not admitted after a value; the comparison
\* includes the boundary.
AfterCompareNoNulls(t, v, before, x) ==
    IF v = NULL THEN SqlIsNotNull(x)
    ELSE IF t.desc = before THEN SqlGt(x, v) ELSE SqlLt(x, v)
AfterCompareInclusive(t, v, before, x) ==
    LET base == Or3({SqlEq(x, v),
                     IF t.desc = before THEN SqlGt(x, v) ELSE SqlLt(x, v)})
    IN  IF v = NULL THEN SqlIsNotNull(x)
        ELSE IF Placement(t, before) = "last" THEN Or3({base, SqlIsNull(x)})
        ELSE base

\* afterCompare: does column value x sort strictly after boundary v?
AfterCompare(t, v, before, x) ==
    LET ascending == t.desc = before
        base == IF ascending THEN SqlGt(x, v) ELSE SqlLt(x, v)
    IN  IF v = NULL THEN SqlIsNotNull(x)
        ELSE IF Placement(t, before) = "last" THEN Or3({base, SqlIsNull(x)})
        ELSE base

\* keysetCond: the OR over the terms of "equal so far, then past the
\* boundary".  With no branch left the code emits 1=0, as Or3({}) does.
KeysetCond(order, vals, before, key) ==
    Or3({ And3({ NullEq(key[j], vals[j]) : j \in 1..(i - 1) }
               \cup {AfterCompare(order[i], vals[i], before, key[i])}) :
          i \in { i \in DOMAIN order : ~NoBranch(order[i], vals[i], before) } })

=============================================================================
