------------------------------ MODULE SqlText -------------------------------
(***************************************************************************)
(* How a database reads a SQL condition as a whole: parsed with AND        *)
(* binding tighter than OR, its parameters looked up among the arguments   *)
(* sent with it.  No part of the repository.                               *)
(***************************************************************************)
EXTENDS SqlTokens, SequencesExt

MarksOf(token) == IF token.t = "atom" THEN token.marks ELSE << >>
Marks(text) == FlattenSeq([i \in DOMAIN text |-> MarksOf(text[i])])

\* The text with its marks numbered as the server numbers them: PostgreSQL by
\* the $n written, the others by position.
AsRead(dialect, text) ==
    LET before(i) == Len(Marks(SubSeq(text, 1, i - 1)))
        renumbered(i) == [j \in DOMAIN text[i].marks |->
                             [text[i].marks[j] EXCEPT !.n = before(i) + j]]
    IN  IF dialect = "postgres" THEN text
        ELSE [i \in DOMAIN text |->
                 IF text[i].t = "atom" THEN [text[i] EXCEPT !.marks = renumbered(i)]
                 ELSE text[i]]

\* Every mark gets an argument, and every argument has a mark.
Bindable(text, args) ==
    /\ Len(Marks(text)) = Len(args)
    /\ \A i \in DOMAIN Marks(text) : Marks(text)[i].n \in DOMAIN args

\* What is bound to each mark is the value the mark was written for.
BoundAsMeant(dialect, text, args) ==
    LET marks == Marks(AsRead(dialect, text))
    IN  /\ Bindable(AsRead(dialect, text), args)
        /\ \A i \in DOMAIN marks : args[marks[i].n] = marks[i].v

-----------------------------------------------------------------------------
EvalAtom(a, args, row) ==
    IF ~TakesMarks(a.op, Len(a.marks)) THEN "malformed"
    ELSE IF Constant(a.op) THEN Decided(a.op = "1=1")
    ELSE Compare(a.op, row[a.col], [i \in DOMAIN a.marks |-> args[a.marks[i].n]])

\* The connectives s of t that are inside no parentheses, and the texts between.
Cuts(t, s) ==
    LET count(i, b) == Cardinality({j \in 1..(i - 1) : t[j].t = b})
    IN  {i \in DOMAIN t : t[i].t = s /\ count(i, "(") = count(i, ")")}
Between(t, cuts) ==
    LET ends == cuts \cup {0, Len(t) + 1}
    IN  {SubSeq(t, i + 1, Min({j \in ends : j > i}) - 1) : i \in ends \ {Len(t) + 1}}

\* The value of condition t on a row: true, false, unknown, or malformed when
\* it does not parse.  A subquery ranges over the row's kids.
RECURSIVE Eval(_, _, _)
Eval(t, args, row) ==
    LET join(cuts, Op(_)) ==
            LET values == {Eval(p, args, row) : p \in Between(t, cuts)}
            IN  IF "malformed" \in values THEN "malformed" ELSE Op(values)
        enclosed(from) == /\ Len(t) > from
                          /\ t[from].t = "(" /\ t[Len(t)].t = ")"
        inside(from, r) == Eval(SubSeq(t, from + 1, Len(t) - 1), args, r)
        found == Or3({inside(2, k) : k \in row.kids})
    IN  IF t = << >> THEN "malformed"
        ELSE IF Cuts(t, "OR") # {} THEN join(Cuts(t, "OR"), Or3)
        ELSE IF Cuts(t, "AND") # {} THEN join(Cuts(t, "AND"), And3)
        ELSE IF enclosed(1) THEN inside(1, row)
        ELSE IF t[1].t = "EXISTS" /\ enclosed(2) THEN found
        ELSE IF t[1].t = "NOT EXISTS" /\ enclosed(2) THEN Not3(found)
        ELSE IF Len(t) = 1 /\ t[1].t = "atom" THEN EvalAtom(t[1], args, row)
        ELSE "malformed"
=============================================================================
