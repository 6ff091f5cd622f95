---------------------------- MODULE RenderedText ----------------------------
(***************************************************************************)
(* One render pass, with the database reading each token as it is written: *)
(* a parser that keeps, for every parenthesis open, the operands of AND    *)
(* and OR so far.  An operand is its truth value on each row.              *)
(***************************************************************************)
EXTENDS Rendering

CONSTANTS
    Starts,    \* the numbers a pass may start after
    Rows,      \* the rows conditions are read on, those of subqueries with them
    Meaning    \* what each tree says of each row

ASSUME ReadingAssumption ==
    /\ Starts \subseteq Nat
    /\ \A r \in Rows : r.kids \subseteq Rows

VARIABLES
    root, start,   \* what is written, and after which number
    read,          \* history: what the database has made of the text so far
    plain        \* history: no irregular tree was met

pass == <<rendering, root, start, read, plain>>

-----------------------------------------------------------------------------
(* The parser: at each level the operands so far, and whether an operand   *)
(* or a connective is due.  No level is left when the text is malformed.   *)

Fresh == [ors |-> {}, ands |-> {}, due |-> "operand", sub |-> "none"]
Malformed == << >>

Conj(S) == [r \in Rows |-> And3({v[r] : v \in S})]
Disj(S) == [r \in Rows |-> Or3({v[r] : v \in S})]
ValueOf(level) == Disj(level.ors \cup {Conj(level.ands)})

\* Some row of the subquery, which ranges over the row's kids.
Some(v) == [r \in Rows |-> Or3({v[k] : k \in r.kids})]
None(v) == [r \in Rows |-> Not3(Some(v)[r])]
Operand(level, v) == CASE level.sub = "none" -> v
                       [] level.sub = "EXISTS" -> Some(v)
                       [] level.sub = "NOT EXISTS" -> None(v)
With(level, v) == [ors |-> level.ors, ands |-> level.ands \cup {Operand(level, v)},
                   due |-> "connective", sub |-> "none"]

Predicate(col, op, vals) ==
    [r \in Rows |-> IF Constant(op) THEN Decided(op = "1=1")
                    ELSE Compare(op, r[col], vals)]
Given(marks) == [i \in DOMAIN marks |-> marks[i].v]

ReadToken(levels, token) ==
    LET n == Len(levels)
        top == levels[n]
        below == SubSeq(levels, 1, n - 1)
    IN  IF levels = Malformed THEN Malformed
        ELSE CASE token.t = "atom" /\ top.due = "operand" /\ top.sub = "none"
                         /\ TakesMarks(token.op, Len(token.marks)) ->
                    Append(below, With(top, Predicate(token.col, token.op,
                                                      Given(token.marks))))
               [] token.t = "AND" /\ top.due = "connective" ->
                    Append(below, [top EXCEPT !.due = "operand"])
               [] token.t = "OR" /\ top.due = "connective" ->
                    Append(below, [ors |-> top.ors \cup {Conj(top.ands)}, ands |-> {},
                                   due |-> "operand", sub |-> "none"])
               [] token.t \in {"EXISTS", "NOT EXISTS"} /\ top.due = "operand" /\ top.sub = "none" ->
                    Append(below, [top EXCEPT !.sub = token.t])
               [] token.t = "(" /\ top.due = "operand" -> Append(levels, Fresh)
               [] token.t = ")" /\ top.due = "connective" /\ n > 1 ->
                    Append(SubSeq(levels, 1, n - 2), With(levels[n - 1], ValueOf(top)))
               [] OTHER -> Malformed

Parsed(levels) == Len(levels) = 1 /\ levels[1].due = "connective"

-----------------------------------------------------------------------------
\* A tree whose text is read as it is meant, if those in it are.  Not so are a
\* group that writes nothing, which leaves a connective dangling, and a raw
\* fragment that is more than one predicate.
Plain(c) ==
    CASE c.kind = "leaf" -> c.op \in {"IN", "NOT IN"} \/ TakesMarks(c.op, Len(c.vals))
      [] c.kind = "raw" -> /\ Len(c.text) = 1 /\ c.text[1].t = "atom"
                           /\ c.text[1].op \in Operators \cup Constants
                           /\ Len(c.text[1].marks) = Len(c.args)
                           /\ TakesMarks(c.text[1].op, Len(c.args))
      [] c.kind = "group" -> c.conds # << >>
      [] OTHER -> TRUE

ASSUME MeaningAssumption ==
    /\ Meaning \in [Trees -> [Rows -> Truth]]
    /\ \A c \in Trees : Plain(c) =>
       Meaning[c] =
         CASE c.kind = "leaf" -> Predicate(c.col, c.op, c.vals)
           [] c.kind = "raw" -> Predicate(c.text[1].col, c.text[1].op, c.args)
           [] c.kind = "exists" -> LET v == IF c.inner = NoCond THEN Conj({}) ELSE Meaning[c.inner]
                                   IN  IF c.negate THEN None(v) ELSE Some(v)
           [] c.kind = "group" -> LET S == {Meaning[c.conds[i]] : i \in DOMAIN c.conds}
                                  IN  IF c.or THEN Disj(S) ELSE Conj(S)

PassInit ==
    /\ root \in Trees \cup {NoCond} /\ start \in Starts
    /\ builder = Blank(start) /\ now = root /\ stack = << >>
    /\ read = <<Fresh>> /\ plain = TRUE

\* buildAt, called by a module that renders more than one condition.
PassFrom(c, k) == BuildFrom(c, k) /\ root' = c /\ start' = k
                  /\ read' = <<Fresh>> /\ plain' = TRUE

\* The database reads what a step writes.
Follow == read' = IF builder'.text = builder.text THEN read
                  ELSE ReadToken(read, builder'.text[Len(builder'.text)])
PassNext ==
    /\ WriteNext /\ Follow
    /\ plain' = (plain /\ Plain(now))
    /\ UNCHANGED <<root, start>>

PassSpec == PassInit /\ [][PassNext]_pass

-----------------------------------------------------------------------------
\* The placeholders are numbered on from start in the order of the text, and
\* the argument at each is the value it was written for, at every moment of the
\* pass: whatever the tree, and however many arguments a fragment lacks.
PlaceholdersFollowArguments ==
    /\ Len(builder.marks) = Len(builder.args) /\ builder.n = start + Len(builder.args)
    /\ \A i \in DOMAIN builder.marks : builder.marks[i] = [n |-> start + i, v |-> builder.args[i]]

\* The text of a tree, read with AND before OR, is the tree: a connective joins
\* what it joined there, in every nesting of And, Or and Exists.
TextReadsAsTree ==
    Rendered /\ plain /\ root # NoCond =>
        Parsed(read) /\ ValueOf(read[1]) = Meaning[root]
=============================================================================
