------------------------------ MODULE Paginate ------------------------------
(***************************************************************************)
(* Offset paging arithmetic (paginate.go): from Relay-style arguments to a *)
(* LIMIT and an OFFSET.  Go's int wraps around; MaxInt is its largest      *)
(* value.                                                                  *)
(***************************************************************************)
EXTENDS Integers

CONSTANTS MaxInt,   \* the largest int
          Nil       \* an argument that is not given

ASSUME PaginateAssumption == MaxInt \in Nat \ {0} /\ Nil \notin Int

Wrap(x) == ((x + MaxInt + 1) % (2 * (MaxInt + 1))) - (MaxInt + 1)

\* PagingParams.
Params(N) == [before : N \cup {Nil}, after : N \cup {Nil}, first : N \cup {Nil},
              last : N \cup {Nil}, total : BOOLEAN]

\* Slip: no argument is refused.
NeverContradictory(p) == FALSE
\* The arguments Paginate panics on.
Contradictory(p) ==
    \/ p.first # Nil /\ p.last # Nil
    \/ p.first # Nil /\ p.first < 0
    \/ p.last # Nil /\ p.last < 0

\* Slip: the record After names is not stepped over.
FirstOffsetAt(p) == IF p.after # Nil /\ p.after >= 0 THEN p.after ELSE 0
FirstOffset(p) == IF p.after # Nil /\ p.after >= 0 THEN Wrap(p.after + 1) ELSE 0

\* Paginate returns no paginator: there is nothing to fetch.
FetchesNothing(p) ==
    \/ 0 \in {p.first, p.last}
    \/ p.before # Nil /\ p.before <= FirstOffset(p)

\* The limit and offset the paginator is built with; a negative limit is
\* measured from the end of the records.
Window(p) ==
    LET size == IF p.first # Nil THEN p.first
                ELSE IF p.last # Nil THEN p.last ELSE 0
        offset == IF p.last # Nil /\ FirstOffset(p) = 0 /\ p.before > size
                  THEN p.before - size ELSE FirstOffset(p)
        room == Wrap(p.before - offset)
    IN  IF p.before # Nil
        THEN [limit |-> IF size = 0 \/ room < size THEN room ELSE size,
              offset |-> offset]
        ELSE [limit |-> IF p.last # Nil THEN -size ELSE size,
              offset |-> FirstOffset(p)]

NeedsTotal(p) == IF FetchesNothing(p) THEN p.total ELSE Window(p).limit < 0

\* The returned function: an end-relative window needs the total.
Resolve(w, total) ==
    LET fromEnd == Wrap(total + w.limit)
    IN  IF w.limit >= 0 THEN w
        ELSE [limit |-> -w.limit,
              offset |-> IF fromEnd > w.offset THEN fromEnd ELSE w.offset]
=============================================================================
