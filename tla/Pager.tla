------------------------------- MODULE Pager --------------------------------
(***************************************************************************)
(* What keyset paging promises its client, with no SQL, cursors, reversed  *)
(* fetch or extra row in it: one looks at the table, at one instant, and   *)
(* shows the rows next to the row asked from, in the declared order.       *)
(* Module Keyset implements it.                                            *)
(***************************************************************************)
EXTENDS KeysetOrder

VARIABLES
    order,   \* the declared order
    table,   \* the set of the rows' keys
    asked,   \* the page being asked for, or Nothing
    got,     \* the page found for it, or Nothing
    seen     \* where the last page shown starts and ends, and if more follows

vars == <<order, table, asked, got, seen>>

NoRow   == << >>
Nothing == [nothing |-> TRUE]

\* Page g is the window of table T that a asks for: rows in order, next to the
\* row asked from on the side asked for, no more than asked, and "more" when
\* that side holds others.
IsWindow(T, a, g) ==
    LET side == {k \in T : a.from # NoRow =>
                    IF a.back THEN Precedes(order, k, a.from)
                              ELSE Precedes(order, a.from, k)}
        rows == {g.rows[i] : i \in DOMAIN g.rows}
    IN  /\ \A i, j \in DOMAIN g.rows :
              i < j => Precedes(order, g.rows[i], g.rows[j])
        /\ rows \subseteq side
        /\ \A r \in rows, k \in side \ rows :
              IF a.back THEN Precedes(order, k, r) ELSE Precedes(order, r, k)
        /\ Len(g.rows) <= a.size
        /\ g.more <=> rows # side
        /\ g.more => Len(g.rows) = a.size

\* The client asks from the start, past the last row shown, or before the first.
Ask ==
    /\ asked = Nothing
    /\ asked' \in [from : {NoRow, seen.first, seen.last}, back : BOOLEAN,
                  size : Nat \ {0}]
    /\ asked'.back => asked'.from # NoRow
    /\ UNCHANGED <<order, table, got, seen>>

Look ==
    /\ asked # Nothing /\ got = Nothing
    /\ got' # Nothing
    /\ IsWindow(table, asked, got')
    /\ UNCHANGED <<order, table, asked, seen>>

Show ==
    /\ got # Nothing
    /\ seen' = [first |-> IF got.rows = << >> THEN NoRow ELSE got.rows[1],
                last  |-> IF got.rows = << >> THEN NoRow
                                              ELSE got.rows[Len(got.rows)],
                more  |-> got.more]
    /\ asked' = Nothing /\ got' = Nothing
    /\ UNCHANGED <<order, table>>

GiveUp ==
    /\ asked # Nothing
    /\ asked' = Nothing /\ got' = Nothing
    /\ UNCHANGED <<order, table, seen>>

Change == UNCHANGED <<order, asked, got, seen>>

Init ==
    /\ asked = Nothing /\ got = Nothing
    /\ seen = [first |-> NoRow, last |-> NoRow, more |-> FALSE]

Next == Ask \/ Look \/ Show \/ GiveUp \/ Change

Spec == Init /\ [][Next]_vars
=============================================================================
