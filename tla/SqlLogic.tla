------------------------------ MODULE SqlLogic ------------------------------
(***************************************************************************)
(* The part of SQL's semantics that the statements filtrx emits rely on:   *)
(* three-valued comparison, AND and OR, and the place each database gives  *)
(* NULL in an ORDER BY.  The databases are not part of the repository;     *)
(* this module is the contract its generated SQL is read against.          *)
(***************************************************************************)
EXTENDS Integers

CONSTANT NULL     \* the SQL NULL, and Go's nil where a boundary value is NULL

ASSUME NullIsNoValue == NULL \notin Int

Truth == {"true", "false", "unknown"}

\* AND and OR over a set of operands: an AND of none is true, an OR of none
\* is false, and unknown survives unless another operand decides.
And3(S) == IF "false" \in S THEN "false"
           ELSE IF "unknown" \in S THEN "unknown" ELSE "true"
Or3(S)  == IF "true" \in S THEN "true"
           ELSE IF "unknown" \in S THEN "unknown" ELSE "false"

Decided(p) == IF p THEN "true" ELSE "false"

SqlEq(a, b) == IF NULL \in {a, b} THEN "unknown" ELSE Decided(a = b)
SqlGt(a, b) == IF NULL \in {a, b} THEN "unknown" ELSE Decided(a > b)
SqlLt(a, b) == IF NULL \in {a, b} THEN "unknown" ELSE Decided(a < b)
SqlIsNull(a)    == Decided(a = NULL)
SqlIsNotNull(a) == Decided(a # NULL)

Dialects == {"postgres", "mysql", "sqlite"}

\* Where NULLs go when an ORDER BY term does not say: PostgreSQL treats NULL
\* as larger than every value, MySQL and SQLite as smaller.
DefaultNulls(dialect, desc) ==
    IF (dialect = "postgres") = desc THEN "first" ELSE "last"

\* The order one physical sort key imposes on two column values.  A key is a
\* column with a direction and a NULL placement, or an ISNULL(column) flag.
SortKeyLT(k, a, b) ==
    LET flag(x) == IF x = NULL THEN 1 ELSE 0
        less(x, y) == IF k.desc THEN x > y ELSE x < y
    IN  IF k.on = "isnull" THEN less(flag(a), flag(b))
        ELSE \/ a # NULL /\ b # NULL /\ less(a, b)
             \/ a = NULL /\ b # NULL /\ k.nulls = "first"
             \/ a # NULL /\ b = NULL /\ k.nulls = "last"

=============================================================================
