------------------------------ MODULE Binding ------------------------------
(***************************************************************************)
(* The filter of an HTTP request (Bind in bind.go): a handler's filter     *)
(* struct, with the fields set that the query string has values for.       *)
(*                                                                         *)
(* A field of an int column reads as integers the raw values ParseInt      *)
(* takes at the field's width, which here are those of Atoi.               *)
(***************************************************************************)
EXTENDS Filters, PageRequests

CONSTANTS
    Form,     \* the handler's filter struct, with what the handler itself sets
    Wires,    \* the wire name of each of its fields; Absent for a hidden one
    Pieces     \* the values in a raw value: its comma-separated, non-blank parts

ASSUME BindingAssumption == DOMAIN Wires = DOMAIN Form.fields

\* The parameter wire_op, and wire itself.
Param(wire, op) == <<wire, op>>
Bare(wire) == <<wire, "">>

ListValues(u, key) ==
    IF key \in DOMAIN u THEN FlattenSeq([i \in DOMAIN u[key] |-> Pieces[u[key][i]]])
    ELSE << >>

\* Slip: only a bare name is read.
EqualityBare(u, wire) == First(u, Bare(wire))
\* Equality: wire_eq, or else the bare name.
Equality(u, wire) ==
    IF First(u, Param(wire, "eq")) # Absent THEN First(u, Param(wire, "eq"))
    ELSE First(u, Bare(wire))

\* setScalar and bindSlice: what is not there leaves the field as it is.
Given1(old, raw, parse) == IF raw = Absent THEN old ELSE parse[raw]
GivenList(old, raws) ==
    IF raws = << >> THEN old ELSE [i \in DOMAIN raws |-> Atoi[raws[i]]]

BindHolder(u, wire, h) ==
    [h EXCEPT !.eq = Given1(@, Equality(u, wire), Atoi),
              !.gt = Given1(@, First(u, Param(wire, "gt")), Atoi),
              !.in = GivenList(@, ListValues(u, Param(wire, "in"))),
              !.null = Given1(@, First(u, Param(wire, "null")), ParseBool)]
BindField(u, wire, g) ==
    CASE g.role = "predicate" -> BindHolder(u, wire, g)
      [] g.role = "scalar" -> [g EXCEPT !.val = Given1(@, First(u, Bare(wire)), Atoi)]
      [] g.role = "slice" -> [g EXCEPT !.elems = GivenList(@, ListValues(u, Bare(wire)))]
      [] OTHER -> g

Bound(i) == Wires[i] # Absent /\ Form.fields[i].role \in {"predicate", "scalar", "slice"}
Bind(u) ==
    [Form EXCEPT !.fields = [i \in DOMAIN @ |-> IF Bound(i) THEN BindField(u, Wires[i], @[i])
                                                ELSE @[i]]]

\* The raw values a field reads as numbers, and as booleans.
Numerals(u, wire, g) ==
    CASE g.role = "predicate" ->
            {Equality(u, wire), First(u, Param(wire, "gt"))}
               \cup ToSet(ListValues(u, Param(wire, "in")))
      [] g.role = "scalar" -> {First(u, Bare(wire))}
      [] g.role = "slice" -> ToSet(ListValues(u, Bare(wire)))
Booleans(u, wire, g) ==
    IF g.role = "predicate" THEN {First(u, Param(wire, "null"))} ELSE {}

\* A value that does not parse ends Bind with an error.
BindFails(u) ==
    \E i \in DOMAIN Wires :
       /\ Bound(i)
       /\ \/ ~(Numerals(u, Wires[i], Form.fields[i]) \subseteq DOMAIN Atoi \cup {Absent})
          \/ ~(Booleans(u, Wires[i], Form.fields[i]) \subseteq DOMAIN ParseBool \cup {Absent})

-----------------------------------------------------------------------------
(* What a request means (Bind's comment), when it gives a single value     *)
(* once and the handler sets no operator of a holder: all its conditions,  *)
(* and those of the fields it leaves as the handler set them.              *)

Asked(u, wire, op) == ToSet(ListValues(u, Param(wire, op)))

RequestMeans(u, row) ==
    LET x(i) == row[Form.fields[i].col]
        numbers(i, op) == {Atoi[r] : r \in Asked(u, Wires[i], op)}
        oneOf(i, values) == IF values = {} THEN {} ELSE {Or3({SqlEq(x(i), v) : v \in values})}
        given(i) ==
            LET g == Form.fields[i]
            IN  IF g.role = "predicate"
                THEN {SqlEq(x(i), v) : v \in numbers(i, "") \cup numbers(i, "eq")}
                     \cup {SqlGt(x(i), v) : v \in numbers(i, "gt")}
                     \cup oneOf(i, numbers(i, "in"))
                     \cup {Decided((x(i) = NULL) = Truthy(r)) : r \in Asked(u, Wires[i], "null")}
                ELSE IF numbers(i, "") = {} THEN {}
                ELSE {Compare(g.op, x(i), SetToSeq(numbers(i, "")))}
    IN  And3(UNION {IF Bound(i) /\ given(i) # {} THEN given(i)
                    ELSE {FilterMeans(Filter(<<Form.fields[i]>>), row)} : i \in DOMAIN Wires})

AsksRequest(u) ==
    \E i \in DOMAIN Wires :
       \/ AsksField(Form.fields[i])
       \/ /\ Bound(i)
          /\ \E op \in IF Form.fields[i].role = "predicate"
                       THEN {"", "eq", "gt", "in", "null"} ELSE {""} :
                Asked(u, Wires[i], op) # {}

\* The filter of a request; none is bound when Bind fails.
CompiledRequest(u, rows) ==
    IF BindFails(u) THEN [Compiled(Form, rows) EXCEPT !.bound = FALSE]
    ELSE [Compiled(Bind(u), rows) EXCEPT
             !.asks = [says |-> [r \in rows |-> RequestMeans(u, r)],
                       silent |-> ~AsksRequest(u), legal |-> AllLegal(Form)]]
=============================================================================
