------------------------------ MODULE Filters -------------------------------
(***************************************************************************)
(* Filter structs (plan.go, holders.go, exists.go): what Where compiles a  *)
(* tagged struct to, given which of its fields are set.                    *)
(*                                                                         *)
(* A filter is the fields of its type in order, each with its role, its    *)
(* tags and its value, whether the tags of the type itself are legal, and  *)
(* the source its marker fields declare.  A holder field is one of Range,  *)
(* Match, Text: the three differ only in which operators they have.        *)
(***************************************************************************)
EXTENDS Conditions

CONSTANT Unset     \* an Opt that is not set

ASSUME FiltersAssumption == Unset \notin Int \cup BOOLEAN \cup {NULL}

Holder(col, eq, gt, in, null) ==
    [role |-> "predicate", col |-> col, eq |-> eq, gt |-> gt, in |-> in, null |-> null]
Scalar(col, op, val)   == [role |-> "scalar", col |-> col, op |-> op, val |-> val]
Slice(col, op, elems)  == [role |-> "slice", col |-> col, op |-> op, elems |-> elems]
Nested(or, elems, legal) == [role |-> "group", or |-> or, elems |-> elems,
                             legal |-> legal]
HasAny(when, sub)      == [role |-> "exists", when |-> when, sub |-> sub]
Filter(fields)         == [fields |-> fields, legal |-> TRUE, source |-> "none"]

-----------------------------------------------------------------------------
(* Compiling.                                                              *)

\* A child element type of a group is compiled only when the group is built;
\* that of an Exists already with its parent (existsStep).
RECURSIVE PlanFails(_)
PlanFails(f) == \/ ~f.legal
                \/ \E i \in DOMAIN f.fields : /\ f.fields[i].role = "exists"
                                              /\ PlanFails(f.fields[i].sub)

\* A holder's Predicates: one leaf for each operator that is set.
IfSet(opt, col, op) == IF opt = Unset THEN << >> ELSE <<Leaf(col, op, <<opt>>)>>
HolderPredicates(h) ==
    IfSet(h.eq, h.col, "=") \o IfSet(h.gt, h.col, ">")
    \o (IF h.in = << >> THEN << >> ELSE <<Leaf(h.col, "IN", h.in)>>)
    \o (IF h.null = Unset THEN << >>
        ELSE <<Leaf(h.col, IF h.null THEN "IS NULL" ELSE "IS NOT NULL", << >>)>>)

NonNil(c) == c.kind # "nil"

\* plan.build: the conditions of the set fields, joined by AND; no condition
\* when none is set, and the condition itself when there is one.
RECURSIVE PlanBuild(_)
PlanBuild(f) ==
    LET children(g) == SelectSeq([j \in DOMAIN g.elems |-> PlanBuild(g.elems[j])], NonNil)
        contributed(g) ==
            CASE g.role = "predicate" -> HolderPredicates(g)
              [] g.role = "scalar" -> IfSet(g.val, g.col, g.op)
              [] g.role = "slice" ->
                    IF g.elems = << >> THEN << >> ELSE <<Leaf(g.col, g.op, g.elems)>>
              [] g.role = "group" ->
                    IF ~g.legal \/ children(g) = << >> THEN << >>
                    ELSE <<Group(g.or, children(g))>>
              [] g.role = "exists" ->
                    IF g.when = Unset THEN << >>
                    ELSE <<Exists(~g.when, PlanBuild(g.sub))>>
        conds == FlattenSeq([i \in DOMAIN f.fields |-> contributed(f.fields[i])])
    IN  CASE Len(conds) = 0 -> NoCond
          [] Len(conds) = 1 -> conds[1]
          [] OTHER -> Group(FALSE, conds)

-----------------------------------------------------------------------------
(* What a filter means: its set fields AND-joined, a group's elements      *)
(* joined by its own connective, an unset field nothing.                   *)

RECURSIVE Asks(_)
AsksField(g) ==
    CASE g.role = "predicate" -> <<g.eq, g.gt, g.in, g.null>> # <<Unset, Unset, << >>, Unset>>
      [] g.role = "scalar" -> g.val # Unset
      [] g.role = "slice" -> g.elems # << >>
      [] g.role = "group" -> \E j \in DOMAIN g.elems : Asks(g.elems[j])
      [] g.role = "exists" -> g.when # Unset
Asks(f) == \E i \in DOMAIN f.fields : AsksField(f.fields[i])

RECURSIVE FilterMeans(_, _)
FilterMeans(f, row) ==
    LET x(g) == row[g.col]
        only(set, v) == IF set THEN {v} ELSE {}
        holder(g) ==
            And3(only(g.eq # Unset, SqlEq(x(g), g.eq))
                 \cup only(g.gt # Unset, SqlGt(x(g), g.gt))
                 \cup only(g.in # << >>, Compare("IN", x(g), g.in))
                 \cup only(g.null # Unset, Decided((x(g) = NULL) = g.null)))
        elements(g) == {FilterMeans(g.elems[j], row) :
                           j \in {j \in DOMAIN g.elems : Asks(g.elems[j])}}
        found(g) == Or3({FilterMeans(g.sub, k) : k \in row.kids})
        means(g) ==
            CASE g.role = "predicate" -> holder(g)
              [] g.role = "scalar" -> Compare(g.op, x(g), <<g.val>>)
              [] g.role = "slice" -> Compare(g.op, x(g), g.elems)
              [] g.role = "group" -> IF g.or THEN Or3(elements(g)) ELSE And3(elements(g))
              [] g.role = "exists" -> IF g.when THEN found(g) ELSE Not3(found(g))
    IN  And3({means(f.fields[i]) : i \in {i \in DOMAIN f.fields : AsksField(f.fields[i])}})

\* A filter every type of which compiles.
RECURSIVE AllLegal(_)
AllLegal(f) ==
    /\ f.legal
    /\ \A i \in DOMAIN f.fields :
          LET g == f.fields[i]
          IN  CASE g.role = "exists" -> AllLegal(g.sub)
                [] g.role = "group" -> g.legal /\ \A j \in DOMAIN g.elems : AllLegal(g.elems[j])
                [] OTHER -> TRUE

\* All a Query sees of a filter struct, and what its caller asked for with it,
\* which holds of those of the rows whose value is "true".
Compiled(f, rows) ==
    [fails |-> PlanFails(f), cond |-> IF PlanFails(f) THEN NoCond ELSE PlanBuild(f),
     source |-> f.source, bound |-> TRUE,
     asks |-> [says |-> [r \in rows |-> FilterMeans(f, r)], silent |-> ~Asks(f),
               legal |-> AllLegal(f)]]
=============================================================================
