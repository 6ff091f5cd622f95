------------------------------- MODULE Cursors ------------------------------
(***************************************************************************)
(* A page cursor: the ordering values of a row as the caller's struct      *)
(* holds them, written as tagged JSON and read back to bind in the seek    *)
(* predicate (encodeCursor and decodeCursor in keyset.go).                 *)
(*                                                                         *)
(* A value is a number, its place in the column's order.                   *)
(***************************************************************************)
EXTENDS SqlLogic, Sequences

CONSTANTS
    Column,            \* by kind, the values a column may hold
    Carried,           \* by kind, what JSON text makes of each of them
    MinInt, MaxInt,    \* the bounds of an int64
    Failed,            \* an error; in Carried, from json.Marshal: a NaN
    Unreadable         \* in Carried, a text time.Parse fails on: a five-digit year

\* int stands for all signed widths, and so on; other is any type that a cursor
\* has no tag for.
Kinds == {"int", "uint", "float", "string", "bool", "time", "bytes", "other"}
\* How a struct field holds a column: in a *T, in a driver.Valuer, or as it is.
Forms == {"plain", "pointer", "valuer"}

EmptyBytes == 0

ASSUME CursorsAssumption ==
    /\ DOMAIN Column = Kinds /\ DOMAIN Carried = Kinds
    /\ \A k \in Kinds : /\ Column[k] \subseteq Int /\ Column[k] # {}
                        /\ Carried[k] \in [Column[k] -> Column[k] \cup {Failed, Unreadable}]
    /\ \A k \in {"int", "uint", "bool", "bytes"} : \A n \in Column[k] : Carried[k][n] = n
    /\ MinInt \in Int /\ MaxInt \in Nat
    /\ Column["int"] \subseteq MinInt..MaxInt
    /\ Column["uint"] \subseteq 0..(2 * MaxInt + 1)

Held(type, x) == [form |-> type.form, kind |-> type.kind, cell |-> x]
\* Rows.Scan leaves a []byte nil at a NULL, and fails at one on the way into
\* any other plain field.
Scans(g) == g.cell # NULL \/ g.form # "plain" \/ g.kind = "bytes"

Tag == [int |-> "i", uint |-> "u", float |-> "f", string |-> "s",
        bool |-> "b", time |-> "t", bytes |-> "x"]
\* The JSON type the value under a tag must have.
Shape == [i |-> "number", u |-> "number", f |-> "number", s |-> "string",
          b |-> "bool", t |-> "string", x |-> "string"]
Tags == DOMAIN Shape \cup {"0"}
KindOf(t) == CHOOSE k \in DOMAIN Tag : Tag[k] = t

NilElem == [t |-> "0", json |-> "null", v |-> NULL]
Elem(kind, v) == [t |-> Tag[kind], json |-> Shape[Tag[kind]], v |-> v]

\* A nil []byte is met before anything is unwrapped, as the empty one it
\* encodes to; every other absent value is a nil pointer or a Valuer's nil.
ToCursorElem(g) ==
    IF g.form = "plain" /\ g.kind = "bytes"
    THEN Elem("bytes", IF g.cell = NULL THEN EmptyBytes ELSE g.cell)
    ELSE IF g.cell = NULL THEN NilElem
    ELSE IF g.kind \notin DOMAIN Tag THEN Failed
    ELSE Elem(g.kind, Carried[g.kind][g.cell])

EncodeCursor(key) ==
    LET elems == [i \in DOMAIN key |-> ToCursorElem(key[i])]
    IN  IF \E i \in DOMAIN elems : elems[i] = Failed \/ elems[i].v = Failed
        THEN Failed ELSE elems

Nil == [kind |-> "null", cell |-> NULL]
Typed(kind, n) == [kind |-> kind, cell |-> n]

\* What the elements of a cursor and the values it binds may be.
Elems == [t : Tags, json : {"null", "number", "string", "bool"},
          v : Int \cup {NULL, Failed, Unreadable}]
Bindings == [kind : Kinds \cup {"null"}, cell : Int \cup {NULL}]

\* An error is not a value.
ASSUME ErrorsAreNoValues ==
    /\ Failed \notin Int /\ Unreadable \notin Int
    /\ Failed \notin Elems \cup Bindings
    /\ Failed # NULL /\ Unreadable # NULL /\ Failed # Unreadable

\* Slip: without UseNumber an integer goes through a float64, which has no room
\* for the largest ones.
NumberRounded(n) == IF n \in {MaxInt, 2 * MaxInt + 1} THEN n + 1 ELSE n
\* UseNumber keeps an integer as its digits.
Number(n) == n

\* Slip: an unsigned value is read as a signed one.
FromCursorElemSigned(e) ==
    LET n == IF e.t \in {"i", "u"} THEN Number(e.v) ELSE e.v
    IN  IF e.t = "0" THEN Nil
        ELSE IF Shape[e.t] # e.json \/ e.v = Unreadable THEN Failed
        ELSE IF e.t \in {"i", "u"} /\ n \notin MinInt..MaxInt THEN Failed
        ELSE Typed(KindOf(e.t), n)
FromCursorElem(e) ==
    LET n == IF e.t \in {"i", "u"} THEN Number(e.v) ELSE e.v
    IN  IF e.t = "0" THEN Nil
        ELSE IF Shape[e.t] # e.json \/ e.v = Unreadable THEN Failed
        ELSE IF e.t = "i" /\ n \notin MinInt..MaxInt THEN Failed
        ELSE IF e.t = "u" /\ n \notin 0..(2 * MaxInt + 1) THEN Failed
        ELSE Typed(KindOf(e.t), n)

\* What a cursor binds in a query of n order terms, which refuses it at any
\* element that does not decode and at any other number of them.
DecodeCursor(c, n) ==
    LET vals == [i \in DOMAIN c |-> FromCursorElem(c[i])]
    IN  IF Len(c) # n \/ \E i \in DOMAIN vals : vals[i] = Failed THEN Failed ELSE vals
=============================================================================
