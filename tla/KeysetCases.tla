----------------------------- MODULE KeysetCases ----------------------------
(***************************************************************************)
(* The order of a keyset page and the cursor of its last row as data:      *)
(* every ordering of up to MaxTerms terms, in every dialect, over columns  *)
(* of every type, on every pair of keys.  A step moves one column of one   *)
(* of the two keys.                                                        *)
(***************************************************************************)
EXTENDS KeysetOrder, Cursors

CONSTANTS
    Leading,    \* the types of the first column; the others are plain integers
    MaxTerms    \* bound: order terms

ASSUME KeysetCasesAssumption ==
    /\ Leading \subseteq [form : Forms, kind : Kinds]
    /\ MaxTerms \in Nat
    /\ \A n \in 0..MaxTerms : Failed \notin [1..n -> Elems] \cup [1..n -> Bindings]

VARIABLES dialect, order, types, left, right

vars == <<dialect, order, types, left, right>>

PlainInt == [form |-> "plain", kind |-> "int"]

\* Only a term with a declared placement may hold NULL, and only a field that
\* can take one.
Cells(t, type) ==
    Column[type.kind]
      \cup {x \in {NULL} : t.nulls # "default" /\ Scans(Held(type, x))}

Init ==
    /\ dialect \in Dialects
    /\ order \in UNION {[1..n -> OrderTerm] : n \in 1..MaxTerms}
    /\ \E type \in Leading :
          types = [i \in DOMAIN order |-> IF i = 1 THEN type ELSE PlainInt]
    /\ left = [i \in DOMAIN order |-> CHOOSE x \in Column[types[i].kind] : TRUE]
    /\ right = left

Next ==
    /\ \E i \in DOMAIN order : \E x \in Cells(order[i], types[i]) :
          \/ left' = [left EXCEPT ![i] = x] /\ UNCHANGED right
          \/ right' = [right EXCEPT ![i] = x] /\ UNCHANGED left
    /\ UNCHANGED <<dialect, order, types>>

Spec == Init /\ [][Next]_vars

-----------------------------------------------------------------------------
\* The seek predicate cuts exactly where ORDER BY sorts: going forward it
\* admits the rows the database sorts after the boundary, and going back the
\* rows it sorts before (keysetCond against orderClause).
CutAgreesWithSort ==
    /\ KeysetCond(order, left, FALSE, right) = "true"
          <=> KeyLT(dialect, order, left, right)
    /\ KeysetCond(order, left, TRUE, right) = "true"
          <=> KeyLT(dialect, order, right, left)

\* A backward page's ORDER BY is the exact reverse, NULLs included, in every
\* dialect: MySQL's ISNULL() key must flip with the column.
ReverseIsReverse ==
    KeyLT(dialect, ReverseOrder(order), left, right)
        <=> KeyLT(dialect, order, right, left)

\* The physical sort is the order the OrderBy list declares, whatever the
\* dialect's own NULL placement.
SortIsDeclared ==
    KeyLT(dialect, order, left, right) <=> Precedes(order, left, right)

Key == [i \in DOMAIN left |-> Held(types[i], left[i])]
Cursor == EncodeCursor(Key)

\* The keys a cursor can carry: JSON has a text for the value that reads as the
\* value, and a NULL does not hide in a nil []byte.
Portable(g) ==
    /\ g.kind \in DOMAIN Tag
    /\ IF g.cell = NULL THEN g.form # "plain" ELSE Carried[g.kind][g.cell] = g.cell

\* A page resumes at the row it ended with: its cursor binds the row's own
\* values, each of its own type, however the caller's struct holds them
\* (cursorElem).  Of a key that is not portable some are refused, with the page
\* that makes the cursor or the one that uses it, and some come back changed: a
\* string that is not UTF-8, a time with seconds in its zone, a nil []byte.
CursorBindsItsRow ==
    (\A i \in DOMAIN Key : Portable(Key[i])) =>
        /\ Cursor # Failed
        /\ DecodeCursor(Cursor, Len(order)) =
              [i \in DOMAIN Key |-> IF left[i] = NULL THEN Nil
                                    ELSE Typed(types[i].kind, left[i])]

\* The next page starts where this one ended: from a row's cursor, read back and
\* put into the seek predicate, a page takes exactly the rows that the order
\* declares past the row, or before it going back (runKeyset).  So it does when
\* the client has turned the order of a column or its NULLs round meanwhile, as
\* the cursor has the row's values and nothing of the order they came in.
CursorSeeksPastItsRow ==
    LET bound == DecodeCursor(Cursor, Len(order))
        at    == [i \in DOMAIN bound |-> bound[i].cell]
        fits(now) == \A i \in DOMAIN now :
                        NULL \in {left[i], right[i]} => now[i].nulls # "default"
    IN  (\A i \in DOMAIN Key : Portable(Key[i])) =>
          /\ bound # Failed
          /\ \A now \in [DOMAIN order -> OrderTerm] : fits(now) =>
                /\ KeysetCond(now, at, FALSE, right) = "true" <=> Precedes(now, left, right)
                /\ KeysetCond(now, at, TRUE, right) = "true" <=> Precedes(now, right, left)
=============================================================================
