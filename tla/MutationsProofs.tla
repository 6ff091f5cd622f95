------------------------- MODULE MutationsProofs ----------------------------
(***************************************************************************)
(* For any trees, rows and starts: the placeholders of a rendered tree     *)
(* follow its arguments, and its text reads as the tree.                   *)
(*                                                                         *)
(* From that, for any filters, assignments and tables: the statements of a *)
(* query that is built and run in any order touch the rows asked for, and  *)
(* never all of them without consent.                                      *)
(***************************************************************************)
EXTENDS Mutations, RenderingProofs, FiniteSetTheorems

\* What a tree, or the correlation of a subquery, says of each row.
Says(c) == IF c = Correlation THEN [r \in Rows |-> "true"] ELSE Meaning[c]
Readable == Trees \cup {Correlation}

\* The frame whose part is read at level j.  The lowest level reads the root, as
\* if that were the one child of a group.
FrameAt(j) == IF j = 1 THEN [in |-> Group(FALSE, <<root>>), at |-> 1] ELSE stack[j - 1]
PartIn(f)  == Parts(f.in)[f.at]

Ored(c) == c.kind = "group" /\ c.or
DoneIn(f) == {Says(Parts(f.in)[i]) : i \in 1..(f.at - 1)}
SubOf(c) == IF c.kind # "exists" THEN "none"
            ELSE IF c.negate THEN "NOT EXISTS" ELSE "EXISTS"

\* What the parser holds before the part of a frame is read, and after it.
OrsOf(f)  == IF Ored(f.in) THEN DoneIn(f) ELSE {}
AndsOf(f) == IF Ored(f.in) THEN {} ELSE DoneIn(f)
Waiting(f, sub) == [ors |-> OrsOf(f), ands |-> AndsOf(f), due |-> "operand", sub |-> sub]
Over(f) == [ors |-> OrsOf(f), ands |-> AndsOf(f) \cup {Says(PartIn(f))},
            due |-> "connective", sub |-> "none"]

\* A frame's group or subquery stands for the part it was met in, level by level.
StackOK ==
    \A j \in 1..Len(stack) :
        /\ stack[j].in \in Trees /\ Plain(stack[j].in)
        /\ Says(stack[j].in) = Says(PartIn(FrameAt(j)))
        /\ read[j] = Waiting(FrameAt(j), SubOf(stack[j].in))

\* So does what is being written, at the innermost level.
TopOK ==
    LET n == Len(stack) + 1
        f == FrameAt(n)
    IN  CASE now.kind = "nil" -> read[n] = Over(f)
          [] now.kind = "subquery" ->
                /\ now.of \in Trees /\ Plain(now.of) /\ Says(now.of) = Says(PartIn(f))
                /\ read[n] = Waiting(f, SubOf(now.of))
          [] OTHER -> /\ now \in Readable /\ Says(now) = Says(PartIn(f))
                      /\ read[n] = Waiting(f, "none")

Levels == [ors : SUBSET [Rows -> Truth], ands : SUBSET [Rows -> Truth],
           due : {"operand", "connective"}, sub : {"none", "EXISTS", "NOT EXISTS"}]

Reading == /\ read \in Seq(Levels) /\ Len(read) = Len(stack) + 1
           /\ StackOK /\ TopOK

\* The inductive invariant: the placeholders are numbered, and while every tree met
\* is plain the parser holds, level by level, the operands of the parts written.
PassOK ==
    /\ root \in Trees \cup {NoCond} /\ start \in Nat
    /\ RenderingTypeOK /\ Numbered(start)
    /\ plain /\ root # NoCond => Reading

-----------------------------------------------------------------------------
(* Truth values, row by row.                                               *)

RowValues == [Rows -> Truth]

LEMMA OperandTypes ==
    ASSUME NEW S
    PROVE  Conj(S) \in RowValues /\ Disj(S) \in RowValues
BY DEF Conj, Disj, And3, Or3, Truth, RowValues

LEMMA SubqueryTypes ==
    ASSUME NEW v
    PROVE  Some(v) \in RowValues /\ None(v) \in RowValues
<1>1. Some(v) \in RowValues
  BY DEF Some, Or3, Truth, RowValues
<1>2. \A x \in Truth : Not3(x) \in Truth
  BY DEF Not3, Truth
<1> QED
  BY <1>1, <1>2 DEF None, RowValues

LEMMA OneOperand ==
    ASSUME NEW v \in RowValues
    PROVE  Conj({v}) = v /\ Disj({v}) = v
<1>1. \A r \in Rows : {u[r] : u \in {v}} = {v[r]} /\ v[r] \in Truth
  BY DEF RowValues
<1>2. \A x \in Truth : And3({x}) = x /\ Or3({x}) = x
  BY DEF And3, Or3, Truth
<1>3. \A r \in Rows : Conj({v})[r] = v[r] /\ Disj({v})[r] = v[r]
  BY <1>1, <1>2 DEF Conj, Disj
<1>4. Conj({v}) \in RowValues /\ Disj({v}) \in RowValues
  BY OperandTypes
<1> QED
  BY <1>3, <1>4 DEF RowValues

LEMMA NoOperand == Conj({}) = [r \in Rows |-> "true"]
BY DEF Conj, And3

LEMMA TrueOperand ==
    ASSUME NEW v \in RowValues
    PROVE  Conj({[r \in Rows |-> "true"], v}) = v
<1> DEFINE u == [r \in Rows |-> "true"]
<1>1. \A r \in Rows : {w[r] : w \in {u, v}} = {"true", v[r]} /\ v[r] \in Truth
  BY DEF RowValues
<1>2. \A x \in Truth : And3({"true", x}) = x
  BY DEF And3, Truth
<1>3. \A r \in Rows : Conj({u, v})[r] = v[r]
  BY <1>1, <1>2 DEF Conj
<1>4. Conj({u, v}) \in RowValues
  BY OperandTypes
<1> QED
  BY <1>3, <1>4 DEF RowValues

-----------------------------------------------------------------------------
(* What the trees say.                                                     *)

LEMMA CorrelationSays ==
    /\ Says(Correlation) = [r \in Rows |-> "true"]
    /\ Predicate("", "1=1", << >>) = [r \in Rows |-> "true"]
    /\ Correlation.kind = "raw" /\ Len(Correlation.text) = 1 /\ Correlation.args = << >>
    /\ Correlation.text[1].t = "atom" /\ Correlation.text[1].marks = << >>
    /\ Correlation.text[1].col = "" /\ Correlation.text[1].op = "1=1"
<1> DEFINE a == Atom("", "1=1", << >>)
<1>1. a.t = "atom" /\ a.col = "" /\ a.op = "1=1" /\ a.marks = << >>
  BY DEF Atom
<1> HIDE DEF a
<1>2. Len(<<a>>) = 1 /\ <<a>>[1] = a
  OBVIOUS
<1>3. Correlation = Raw(<<a>>, << >>)
  BY DEF a, Correlation
<1>4. Correlation.kind = "raw" /\ Correlation.text = <<a>> /\ Correlation.args = << >>
  BY <1>3 DEF Raw
<1> QED
  BY <1>1, <1>2, <1>4 DEF Says, Predicate, Constant, Decided

LEMMA CorrelationPlain == Plain(Correlation)
<1>2. Len(<< >>) = 0 /\ TakesMarks("1=1", 0)
  BY DEF TakesMarks
<1> QED
  BY <1>2, CorrelationSays DEF Plain, Constants

LEMMA SaysOfTree ==
    ASSUME NEW c \in Trees
    PROVE  Says(c) = Meaning[c] /\ Says(c) \in RowValues
<1>1. Meaning[c] \in RowValues
  BY MeaningAssumption DEF RowValues
<1>2. CASE c = Correlation
  <2>1. Meaning[c] = Predicate(c.text[1].col, c.text[1].op, c.args)
    BY <1>2, CorrelationPlain, CorrelationSays, MeaningAssumption
  <2>2. c.text[1].col = "" /\ c.text[1].op = "1=1" /\ c.args = << >>
    BY <1>2, CorrelationSays
  <2> QED
    BY <1>1, <1>2, <2>1, <2>2, CorrelationSays
<1>3. CASE c # Correlation
  BY <1>1, <1>3 DEF Says
<1> QED
  BY <1>2, <1>3

LEMMA SaysTypes ==
    ASSUME NEW c \in Readable
    PROVE  Says(c) \in RowValues
<1>1. Says(Correlation) \in RowValues
  BY CorrelationSays DEF RowValues, Truth
<1> QED
  BY <1>1, SaysOfTree DEF Readable

LEMMA LeafSays ==
    ASSUME NEW c \in Trees, Plain(c), c.kind = "leaf"
    PROVE  Says(c) = Predicate(c.col, c.op, c.vals)
BY SaysOfTree, MeaningAssumption

LEMMA RawSays ==
    ASSUME NEW c \in Readable, Plain(c), c.kind = "raw"
    PROVE  Says(c) = Predicate(c.text[1].col, c.text[1].op, c.args)
<1>1. CASE c = Correlation
  BY <1>1, CorrelationSays
<1>2. CASE c \in Trees
  BY <1>2, SaysOfTree, MeaningAssumption
<1> QED
  BY <1>1, <1>2 DEF Readable

LEMMA ExistsSays ==
    ASSUME NEW c \in Trees, c.kind = "exists"
    PROVE  LET v == IF c.inner = NoCond THEN [r \in Rows |-> "true"] ELSE Says(c.inner)
           IN  Says(c) = IF c.negate THEN None(v) ELSE Some(v)
<1>1. Plain(c)
  BY DEF Plain
<1>2. c.inner \in Trees \cup {NoCond}
  BY RenderingAssumption, TreeTypes
<1>3. c.inner # NoCond => Says(c.inner) = Meaning[c.inner]
  BY <1>2, SaysOfTree
<1> QED
  BY <1>1, <1>3, SaysOfTree, NoOperand, MeaningAssumption

LEMMA GroupSays ==
    ASSUME NEW c \in Trees, Plain(c), c.kind = "group"
    PROVE  LET S == {Says(c.conds[i]) : i \in DOMAIN c.conds}
           IN  Says(c) = IF c.or THEN Disj(S) ELSE Conj(S)
<1>1. c.conds \in Seq(Trees)
  BY RenderingAssumption, TreeTypes
<1>2. \A i \in DOMAIN c.conds : c.conds[i] \in Trees
  BY <1>1
<1>3. \A i \in DOMAIN c.conds : Says(c.conds[i]) = Meaning[c.conds[i]]
  BY <1>2, SaysOfTree
<1>4. {Says(c.conds[i]) : i \in DOMAIN c.conds} = {Meaning[c.conds[i]] : i \in DOMAIN c.conds}
  BY <1>3
<1> QED
  BY <1>4, SaysOfTree, MeaningAssumption

-----------------------------------------------------------------------------
(* Frames, and what the parser holds at one.                               *)

LEMMA PartReadable ==
    ASSUME NEW c \in Composite, NEW i \in 1..Len(Parts(c))
    PROVE  Parts(c)[i] \in Readable
<1>1. CASE c.kind = "group"
  <2>1. c.conds \in Seq(Trees) /\ Parts(c) = c.conds
    BY <1>1, TreeTypes DEF Composite, Parts
  <2> QED
    BY <2>1 DEF Readable
<1>2. CASE c.kind = "exists"
  <2>1. c.inner \in Trees \cup {NoCond}
    BY <1>2, TreeTypes DEF Composite
  <2>2. CASE c.inner = NoCond
    <3>1. Parts(c) = <<Correlation>> /\ Len(Parts(c)) = 1
      BY <1>2, <2>2 DEF Parts
    <3> QED
      BY <3>1 DEF Readable
  <2>3. CASE c.inner # NoCond
    <3>1. Parts(c) = <<Correlation, c.inner>> /\ Len(Parts(c)) = 2
      BY <1>2, <2>3 DEF Parts
    <3> QED
      BY <2>1, <2>3, <3>1 DEF Readable
  <2> QED
    BY <2>2, <2>3
<1> QED
  BY <1>1, <1>2 DEF Composite

LEMMA FrameSays ==
    ASSUME NEW f \in Frames
    PROVE  /\ PartIn(f) \in Readable /\ Says(PartIn(f)) \in RowValues
           /\ DoneIn(f) \in SUBSET RowValues
<1>1. /\ f.in \in Composite /\ f.at \in Nat /\ f.at >= 1
      /\ f.at <= Len(Parts(f.in)) /\ Len(Parts(f.in)) \in Nat
  BY FrameTypes
<1>2. \A i \in 1..f.at : Parts(f.in)[i] \in Readable
  BY <1>1, PartReadable
<1>3. \A i \in 1..f.at : Says(Parts(f.in)[i]) \in RowValues
  BY <1>2, SaysTypes
<1> QED
  BY <1>1, <1>2, <1>3 DEF PartIn, DoneIn

LEMMA HeldTypes ==
    ASSUME NEW f \in Frames
    PROVE  /\ \A c : Waiting(f, SubOf(c)) \in Levels
           /\ Waiting(f, "none") \in Levels /\ Over(f) \in Levels
           /\ Over(f) = With(Waiting(f, "none"), Says(PartIn(f)))
<1>1. OrsOf(f) \in SUBSET RowValues /\ AndsOf(f) \in SUBSET RowValues /\ Says(PartIn(f)) \in RowValues
  BY FrameSays DEF OrsOf, AndsOf
<1>2. \A c : SubOf(c) \in {"none", "EXISTS", "NOT EXISTS"}
  BY DEF SubOf
<1>3. \A sub \in {"none", "EXISTS", "NOT EXISTS"} : Waiting(f, sub) \in Levels
  BY <1>1 DEF Waiting, Levels, RowValues
<1>4. Over(f) \in Levels
  BY <1>1 DEF Over, Levels, RowValues
<1>5. With(Waiting(f, "none"), Says(PartIn(f))) = Over(f)
  BY DEF With, Operand, Waiting, Over
<1> QED
  BY <1>2, <1>3, <1>4, <1>5

\* A parenthesis opens a level that waits for the first part.
LEMMA FrameFresh ==
    ASSUME NEW c
    PROVE  Waiting([in |-> c, at |-> 1], "none") = Fresh
<1> DEFINE f == [in |-> c, at |-> 1]
<1>1. f.at = 1 /\ f.in = c
  OBVIOUS
<1> HIDE DEF f
<1>2. 1..(f.at - 1) = {}
  BY <1>1
<1>3. DoneIn(f) = {}
  BY <1>2 DEF DoneIn
<1>4. Waiting(f, "none") = Fresh
  BY <1>3 DEF Waiting, Fresh, OrsOf, AndsOf
<1> QED
  BY <1>4 DEF f

\* A connective makes the part that is over one of those done.
LEMMA FrameJoined ==
    ASSUME NEW f \in Frames, NEW g \in Frames, g.in = f.in, g.at = f.at + 1
    PROVE  /\ Ored(f.in) => Waiting(g, "none") =
                  [ors |-> Over(f).ors \cup {Conj(Over(f).ands)}, ands |-> {},
                   due |-> "operand", sub |-> "none"]
           /\ ~Ored(f.in) => Waiting(g, "none") = [Over(f) EXCEPT !.due = "operand"]
<1>1. f.at \in Nat /\ f.at >= 1
  BY FrameTypes
<1>2. 1..(g.at - 1) = (1..(f.at - 1)) \cup {f.at}
  BY <1>1
<1>3. DoneIn(g) = DoneIn(f) \cup {Says(PartIn(f))}
  BY <1>2 DEF DoneIn, PartIn
<1>4. Ored(f.in) => Conj(Over(f).ands) = Says(PartIn(f))
  <2>1. Ored(f.in) => Over(f).ands = {Says(PartIn(f))}
    BY DEF Over, AndsOf
  <2> QED
    BY <2>1, FrameSays, OneOperand
<1>5. Ored(f.in) => /\ OrsOf(g) = OrsOf(f) \cup {Says(PartIn(f))}
                    /\ AndsOf(g) = {}
  BY <1>3 DEF OrsOf, AndsOf
<1>6. ~Ored(f.in) => /\ OrsOf(g) = OrsOf(f)
                     /\ AndsOf(g) = AndsOf(f) \cup {Says(PartIn(f))}
  BY <1>3 DEF OrsOf, AndsOf
<1> QED
  BY <1>4, <1>5, <1>6 DEF Waiting, Over

\* When the last part is over, the level is what the whole says: a group by its
\* connective, a subquery by the rows found.
LEMMA FrameClosed ==
    ASSUME NEW f \in Frames, f.in \in Trees, Plain(f.in), f.at = Len(Parts(f.in)),
           NEW level, level.sub = SubOf(f.in)
    PROVE  Operand(level, ValueOf(Over(f))) = Says(f.in)
<1>1. /\ f.in \in Composite /\ f.at \in Nat /\ f.at >= 1
      /\ Parts(f.in) \in Seq(TreesOver(Trees))
  BY FrameTypes
<1>2. /\ Over(f).ors = IF Ored(f.in) THEN DoneIn(f) ELSE {}
      /\ Over(f).ands = (IF Ored(f.in) THEN {} ELSE DoneIn(f)) \cup {Says(PartIn(f))}
  BY DEF Over, OrsOf, AndsOf
<1> DEFINE all == {Says(Parts(f.in)[i]) : i \in 1..Len(Parts(f.in))}
<1>3. DoneIn(f) \cup {Says(PartIn(f))} = all
  <2>1. 1..Len(Parts(f.in)) = (1..(f.at - 1)) \cup {f.at}
    BY <1>1
  <2> QED
    BY <2>1 DEF DoneIn, PartIn
<1> HIDE DEF all
<1>4. Ored(f.in) => ValueOf(Over(f)) = Disj(all)
  <2>1. Conj({Says(PartIn(f))}) = Says(PartIn(f))
    BY FrameSays, OneOperand
  <2>2. Ored(f.in) => Over(f).ors \cup {Conj(Over(f).ands)} = DoneIn(f) \cup {Says(PartIn(f))}
    BY <1>2, <2>1
  <2> QED
    BY <1>3, <2>2 DEF ValueOf
<1>5. ~Ored(f.in) => ValueOf(Over(f)) = Conj(all)
  <2>1. Disj({Conj(all)}) = Conj(all)
    BY OperandTypes, OneOperand
  <2>2. ~Ored(f.in) => Over(f).ors \cup {Conj(Over(f).ands)} = {Conj(all)}
    BY <1>2, <1>3
  <2> QED
    BY <2>1, <2>2 DEF ValueOf
<1>6. CASE f.in.kind = "group"
  <2>1. all = {Says(f.in.conds[i]) : i \in DOMAIN f.in.conds}
    BY <1>1, <1>6 DEF all, Parts
  <2>2. Operand(level, ValueOf(Over(f))) = ValueOf(Over(f))
    BY <1>6 DEF SubOf, Operand
  <2> QED
    BY <1>4, <1>5, <1>6, <2>1, <2>2, GroupSays DEF Ored
<1>7. CASE f.in.kind = "exists"
  <2> DEFINE v == IF f.in.inner = NoCond THEN [r \in Rows |-> "true"] ELSE Says(f.in.inner)
  <2>1. Conj(all) = v
    <3>1. CASE f.in.inner = NoCond
      <4>1. Parts(f.in) = <<Correlation>>
        BY <1>7, <3>1 DEF Parts
      <4>2. all = {Says(Correlation)}
        BY <4>1 DEF all
      <4>3. Says(Correlation) \in RowValues
        BY SaysTypes DEF Readable
      <4> QED
        BY <3>1, <4>2, <4>3, OneOperand, CorrelationSays
    <3>2. CASE f.in.inner # NoCond
      <4>1. Parts(f.in) = <<Correlation, f.in.inner>>
        BY <1>7, <3>2 DEF Parts
      <4>2. all = {Says(Correlation), Says(f.in.inner)}
        <5>1. \A x, y : DOMAIN <<x, y>> = 1..2 /\ Len(<<x, y>>) = 2 /\ 1..2 = {1, 2}
          OBVIOUS
        <5> QED
          BY <4>1, <5>1 DEF all
      <4>3. f.in.inner \in Trees
        BY <1>1, <1>7, <3>2, TreeTypes DEF Composite
      <4> QED
        BY <3>2, <4>2, <4>3, SaysOfTree, CorrelationSays, TrueOperand
    <3> QED
      BY <3>1, <3>2
  <2>2. Says(f.in) = IF f.in.negate THEN None(v) ELSE Some(v)
    BY <1>7, ExistsSays
  <2>3. ValueOf(Over(f)) = v
    BY <1>5, <1>7, <2>1 DEF Ored
  <2> HIDE DEF v
  <2> QED
    BY <1>7, <2>2, <2>3 DEF SubOf, Operand
<1> QED
  BY <1>1, <1>6, <1>7 DEF Composite

-----------------------------------------------------------------------------
(* Reading a token.                                                        *)

\* The first m of s, and x.
LEMMA CutTo ==
    ASSUME NEW S, NEW s \in Seq(S), NEW m \in Nat, m <= Len(s), NEW x \in S
    PROVE  LET t == Append(SubSeq(s, 1, m), x)
           IN  /\ t \in Seq(S) /\ Len(t) = m + 1 /\ t[m + 1] = x
               /\ \A j \in 1..m : t[j] = s[j]
<1> DEFINE u == SubSeq(s, 1, m)
<1>1. u \in Seq(S) /\ Len(u) = m /\ \A i \in 1..m : u[i] = s[i]
  <2>1. /\ u \in Seq(S) /\ Len(u) = m + 1 - 1
        /\ \A i \in 1..(m + 1 - 1) : u[i] = s[1 + i - 1]
    BY PartOf
  <2> HIDE DEF u
  <2>2. m + 1 - 1 = m /\ \A i \in 1..m : 1 + i - 1 = i
    OBVIOUS
  <2> QED
    BY <2>1, <2>2
<1> HIDE DEF u
<1>2. /\ Append(u, x) \in Seq(S) /\ Len(Append(u, x)) = m + 1
      /\ Append(u, x)[m + 1] = x /\ \A j \in 1..m : Append(u, x)[j] = u[j]
  BY <1>1
<1> QED
  BY <1>1, <1>2 DEF u

LEMMA LevelsThere ==
    ASSUME NEW levels \in Seq(Levels), Len(levels) >= 1
    PROVE  levels # Malformed /\ levels[Len(levels)] \in Levels /\ Len(levels) \in Nat
BY DEF Malformed

\* The innermost level changes to x.
TopSet(levels, new, x) ==
    /\ new \in Seq(Levels) /\ Len(new) = Len(levels) /\ new[Len(levels)] = x
    /\ \A j \in 1..(Len(levels) - 1) : new[j] = levels[j]

LEMMA TopCut ==
    ASSUME NEW levels \in Seq(Levels), Len(levels) >= 1, NEW x \in Levels
    PROVE  TopSet(levels, Append(SubSeq(levels, 1, Len(levels) - 1), x), x)
<1>1. PICK m \in Nat : m = Len(levels) - 1
  OBVIOUS
<1>2. m <= Len(levels) /\ m + 1 = Len(levels)
  BY <1>1
<1> DEFINE new == Append(SubSeq(levels, 1, m), x)
<1>3. /\ new \in Seq(Levels) /\ Len(new) = m + 1 /\ new[m + 1] = x
      /\ \A j \in 1..m : new[j] = levels[j]
  BY <1>2, CutTo
<1> HIDE DEF new
<1>4. TopSet(levels, new, x)
  BY <1>1, <1>2, <1>3 DEF TopSet
<1> QED
  BY <1>1, <1>4 DEF new

LEMMA ReadPredicate ==
    ASSUME NEW levels \in Seq(Levels), Len(levels) >= 1,
           NEW f \in Frames, levels[Len(levels)] = Waiting(f, "none"),
           NEW col, NEW op, NEW marks, TakesMarks(op, Len(marks)),
           Predicate(col, op, Given(marks)) = Says(PartIn(f))
    PROVE  TopSet(levels, ReadToken(levels, Atom(col, op, marks)), Over(f))
<1> DEFINE a == Atom(col, op, marks)
<1>1. a.t = "atom" /\ a.col = col /\ a.op = op /\ a.marks = marks
  BY DEF Atom
<1> HIDE DEF a
<1>2. levels[Len(levels)].due = "operand" /\ levels[Len(levels)].sub = "none"
  BY DEF Waiting
<1>3. With(levels[Len(levels)], Predicate(col, op, Given(marks))) = Over(f)
  BY HeldTypes
<1>4. ReadToken(levels, a) = Append(SubSeq(levels, 1, Len(levels) - 1), Over(f))
  BY <1>1, <1>2, <1>3, LevelsThere DEF ReadToken
<1> QED
  BY <1>4, HeldTypes, TopCut DEF a

LEMMA ReadExists ==
    ASSUME NEW levels \in Seq(Levels), Len(levels) >= 1,
           NEW f \in Frames, levels[Len(levels)] = Waiting(f, "none"),
           NEW c, c.kind = "exists"
    PROVE  TopSet(levels, ReadToken(levels, Sym(IF c.negate THEN "NOT EXISTS" ELSE "EXISTS")),
                  Waiting(f, SubOf(c)))
<1>1. SubOf(c) = IF c.negate THEN "NOT EXISTS" ELSE "EXISTS"
  BY DEF SubOf
<1>2. Sym(SubOf(c)).t = SubOf(c) /\ SubOf(c) \in {"EXISTS", "NOT EXISTS"}
  BY <1>1 DEF Sym
<1>3. levels[Len(levels)].due = "operand" /\ levels[Len(levels)].sub = "none"
  BY DEF Waiting
<1>4. [levels[Len(levels)] EXCEPT !.sub = SubOf(c)] = Waiting(f, SubOf(c))
  BY DEF Waiting
<1>5. ReadToken(levels, Sym(SubOf(c))) = Append(SubSeq(levels, 1, Len(levels) - 1), Waiting(f, SubOf(c)))
  BY <1>2, <1>3, <1>4, LevelsThere DEF ReadToken
<1> QED
  BY <1>1, <1>5, HeldTypes, TopCut

LEMMA ReadJoiner ==
    ASSUME NEW levels \in Seq(Levels), Len(levels) >= 1,
           NEW f \in Frames, levels[Len(levels)] = Over(f),
           NEW g \in Frames, g.in = f.in, g.at = f.at + 1
    PROVE  TopSet(levels, ReadToken(levels, Sym(Joiner(f.in))), Waiting(g, "none"))
<1> DEFINE top == levels[Len(levels)]
<1>1. top.due = "connective"
  BY DEF Over
<1>2. CASE Ored(f.in)
  <2>1. Sym(Joiner(f.in)).t = "OR"
    BY <1>2 DEF Sym, Joiner, Ored
  <2>2. Waiting(g, "none") = [ors |-> top.ors \cup {Conj(top.ands)}, ands |-> {},
                              due |-> "operand", sub |-> "none"]
    BY <1>2, FrameJoined
  <2>3. ReadToken(levels, Sym(Joiner(f.in))) =
          Append(SubSeq(levels, 1, Len(levels) - 1), Waiting(g, "none"))
    BY <1>1, <2>1, <2>2, LevelsThere DEF ReadToken
  <2> QED
    BY <2>3, HeldTypes, TopCut
<1>3. CASE ~Ored(f.in)
  <2>1. Sym(Joiner(f.in)).t = "AND"
    BY <1>3 DEF Sym, Joiner, Ored
  <2>2. Waiting(g, "none") = [top EXCEPT !.due = "operand"]
    BY <1>3, FrameJoined
  <2>3. ReadToken(levels, Sym(Joiner(f.in))) =
          Append(SubSeq(levels, 1, Len(levels) - 1), Waiting(g, "none"))
    BY <1>1, <2>1, <2>2, LevelsThere DEF ReadToken
  <2> QED
    BY <2>3, HeldTypes, TopCut
<1> QED
  BY <1>2, <1>3

LEMMA ReadOpen ==
    ASSUME NEW levels \in Seq(Levels), Len(levels) >= 1, levels[Len(levels)].due = "operand"
    PROVE  LET new == ReadToken(levels, Sym("("))
           IN  /\ new \in Seq(Levels) /\ Len(new) = Len(levels) + 1
               /\ new[Len(levels) + 1] = Fresh
               /\ \A j \in 1..Len(levels) : new[j] = levels[j]
<1>1. Fresh \in Levels
  BY DEF Fresh, Levels
<1>2. ReadToken(levels, Sym("(")) = Append(levels, Fresh)
  BY LevelsThere DEF ReadToken, Sym
<1> QED
  BY <1>1, <1>2

LEMMA ReadClose ==
    ASSUME NEW levels \in Seq(Levels), Len(levels) >= 2,
           NEW f \in Frames, levels[Len(levels)] = Over(f),
           NEW g \in Frames, levels[Len(levels) - 1] = Waiting(g, SubOf(f.in)),
           f.in \in Trees, Plain(f.in), f.at = Len(Parts(f.in)),
           Says(f.in) = Says(PartIn(g))
    PROVE  LET new == ReadToken(levels, Sym(")"))
           IN  /\ new \in Seq(Levels) /\ Len(new) = Len(levels) - 1
               /\ new[Len(levels) - 1] = Over(g)
               /\ \A j \in 1..(Len(levels) - 2) : new[j] = levels[j]
<1> DEFINE n == Len(levels)
           below == levels[n - 1]
<1>1. levels[n].due = "connective" /\ n > 1 /\ n \in Nat
  BY DEF Over
<1>2. Operand(below, ValueOf(Over(f))) = Says(PartIn(g))
  <2>1. below.sub = SubOf(f.in)
    BY DEF Waiting
  <2> HIDE DEF below
  <2> QED
    BY <2>1, FrameClosed
<1>3. With(below, ValueOf(levels[n])) = Over(g)
  <2> DEFINE v == ValueOf(Over(f))
  <2>1. below = Waiting(g, SubOf(f.in)) /\ levels[n] = Over(f)
    OBVIOUS
  <2>2. below.ors = OrsOf(g) /\ below.ands = AndsOf(g)
    BY <2>1 DEF Waiting
  <2> HIDE DEF below, v
  <2>3. With(below, v) = Over(g)
    BY <1>2, <2>2 DEF With, Over, v
  <2> QED
    BY <2>1, <2>3 DEF v
<1>4. ReadToken(levels, Sym(")")) = Append(SubSeq(levels, 1, n - 2), Over(g))
  BY <1>1, <1>3, LevelsThere DEF ReadToken, Sym
<1>5. PICK m \in Nat : m = n - 2
  BY <1>1
<1>6. m <= Len(levels) /\ m + 1 = n - 1
  BY <1>1, <1>5
<1> DEFINE new == Append(SubSeq(levels, 1, m), Over(g))
<1>7. /\ new \in Seq(Levels) /\ Len(new) = m + 1 /\ new[m + 1] = Over(g)
      /\ \A j \in 1..m : new[j] = levels[j]
  BY <1>6, HeldTypes, CutTo
<1>8. ReadToken(levels, Sym(")")) = new
  BY <1>4, <1>5
<1> HIDE DEF new
<1> QED
  BY <1>5, <1>6, <1>7, <1>8

-----------------------------------------------------------------------------
(* The steps of the pass, with the parser following.                       *)

LEMMA FollowToken ==
    ASSUME builder \in Builders, NEW t \in Token,
           builder'.text = Append(builder.text, t), Follow
    PROVE  read' = ReadToken(read, t)
<1>1. builder.text \in Seq(Token)
  BY DEF Builders
<1>2. /\ Len(Append(builder.text, t)) = Len(builder.text) + 1
      /\ Append(builder.text, t)[Len(builder.text) + 1] = t
      /\ Len(builder.text) \in Nat
  BY <1>1
<1>3. builder'.text # builder.text
  BY <1>2
<1> QED
  BY <1>2, <1>3 DEF Follow

LEMMA FollowNothing ==
    ASSUME UNCHANGED builder, Follow
    PROVE  read' = read
BY DEF Follow

LEMMA FollowSymbol ==
    ASSUME builder \in Builders, NEW s \in Symbols, PutSymbol(s), Follow
    PROVE  read' = ReadToken(read, Sym(s))
<1>1. Sym(s) \in Token
  BY DEF Sym, Token
<1> QED
  BY <1>1, SymbolPut, FollowToken

\* A step in a pass that has met plain trees only.
Stepping == /\ RenderingTypeOK /\ root \in Trees /\ Reading
            /\ Plain(now) /\ Follow /\ UNCHANGED root

Depth == Len(stack) + 1

LEMMA FrameAtTypes ==
    ASSUME root \in Trees, stack \in Seq(Frames), NEW j \in 1..Depth
    PROVE  FrameAt(j) \in Frames
<1>1. CASE j = 1
  <2> DEFINE c == Group(FALSE, <<root>>)
  <2>1. <<root>> \in Seq(Trees) /\ Len(<<root>>) = 1
    OBVIOUS
  <2>2. c \in TreesOver(Trees) /\ c.kind = "group"
    BY <2>1 DEF Group, TreesOver
  <2>3. c \in Composite /\ Parts(c) = <<root>>
    BY <2>2 DEF Composite, Parts, Group
  <2> HIDE DEF c
  <2>4. [in |-> c, at |-> 1] \in Frames
    BY <2>1, <2>3, FrameBegins
  <2> QED
    BY <1>1, <2>4 DEF FrameAt, c
<1>2. CASE j # 1
  <2>1. j - 1 \in 1..Len(stack)
    BY <1>2 DEF Depth
  <2> QED
    BY <1>2, <2>1 DEF FrameAt
<1> QED
  BY <1>1, <1>2

LEMMA Innermost ==
    ASSUME Stepping
    PROVE  /\ builder \in Builders /\ stack \in Seq(Frames) /\ Len(stack) \in Nat
           /\ read \in Seq(Levels) /\ Len(read) = Depth /\ Depth \in Nat /\ Depth >= 1
           /\ FrameAt(Depth) \in Frames
<1>1. /\ builder \in Builders /\ stack \in Seq(Frames) /\ root \in Trees
      /\ read \in Seq(Levels) /\ Len(read) = Depth
  BY DEF Stepping, RenderingTypeOK, Reading, Depth
<1>2. Len(stack) \in Nat /\ Depth \in Nat /\ Depth >= 1
  BY <1>1 DEF Depth
<1>3. Depth \in 1..Depth
  BY <1>2
<1> QED
  BY <1>1, <1>2, <1>3, FrameAtTypes

\* What is held when a tree is to be written.
LEMMA TreeMet ==
    ASSUME Stepping, now.kind # "nil", now.kind # "subquery"
    PROVE  /\ now \in Readable /\ Says(now) = Says(PartIn(FrameAt(Depth)))
           /\ read[Depth] = Waiting(FrameAt(Depth), "none")
BY DEF Stepping, Reading, TopOK, Depth

\* The levels below the innermost are as they were.
LEMMA InnermostChanged ==
    ASSUME Stepping, UNCHANGED stack, NEW x, TopSet(read, read', x)
    PROVE  /\ read' \in Seq(Levels) /\ Len(read') = Depth /\ Depth' = Depth
           /\ StackOK' /\ read'[Depth] = x /\ \A j : FrameAt(j)' = FrameAt(j)
<1>1. Len(read) = Depth /\ Len(stack) \in Nat /\ Depth - 1 = Len(stack)
  BY Innermost DEF Depth
<1>2. \A j : FrameAt(j)' = FrameAt(j)
  BY DEF Stepping, FrameAt
<1>3. \A j \in 1..Len(stack) : read'[j] = read[j]
  BY <1>1 DEF TopSet
<1>4. StackOK'
  BY <1>2, <1>3 DEF Stepping, Reading, StackOK
<1> QED
  BY <1>1, <1>2, <1>4 DEF TopSet, Depth

\* A predicate that says what the part does: the part is over.
LEMMA PredicateStep ==
    ASSUME Stepping, now.kind # "nil", now.kind # "subquery",
           NEW col \in AtomColumns, NEW op \in AtomOps, NEW vals \in Seq(Values),
           PutPredicate(col, op, vals), now' = NoCond, UNCHANGED stack,
           TakesMarks(op, Len(vals)), Predicate(col, op, vals) = Says(now)
    PROVE  Reading'
<1> DEFINE f == FrameAt(Depth)
           marks == MarksFor(vals)
<1>1. /\ builder \in Builders /\ read \in Seq(Levels) /\ Len(read) = Depth
      /\ Len(read) >= 1 /\ f \in Frames
  BY Innermost
<1>2. read[Len(read)] = Waiting(f, "none") /\ Predicate(col, op, vals) = Says(PartIn(f))
  BY <1>1, TreeMet
<1>3. /\ marks \in MarkSeqs /\ Len(marks) = Len(vals) /\ DOMAIN marks = DOMAIN vals
      /\ \A i \in DOMAIN vals : marks[i] = [n |-> builder.n + i, v |-> vals[i]]
  BY <1>1, MarkTypes
<1> HIDE DEF marks
<1>4. Given(marks) = vals
  <2>1. \A i \in DOMAIN vals : marks[i].v = vals[i]
    BY <1>3
  <2>2. vals = [i \in DOMAIN vals |-> vals[i]]
    OBVIOUS
  <2> QED
    BY <1>3, <2>1, <2>2 DEF Given
<1>5. Atom(col, op, marks) \in Token /\ builder'.text = Append(builder.text, Atom(col, op, marks))
  BY <1>1, <1>3, AtomToken, PredicatePut DEF marks
<1>6. read' = ReadToken(read, Atom(col, op, marks))
  BY <1>1, <1>5, FollowToken DEF Stepping
<1>7. TopSet(read, read', Over(f))
  BY <1>1, <1>2, <1>3, <1>4, <1>6, ReadPredicate
<1>8. /\ read' \in Seq(Levels) /\ Len(read') = Depth /\ Depth' = Depth
      /\ StackOK' /\ read'[Depth] = Over(f) /\ \A j : FrameAt(j)' = FrameAt(j)
  BY <1>7, InnermostChanged
<1>9. TopOK'
  BY <1>8 DEF TopOK, NoCond, Depth
<1> QED
  BY <1>8, <1>9 DEF Reading, Depth

LEMMA LeafRead ==
    ASSUME Stepping, VisitLeaf
    PROVE  Reading'
<1>1. now.kind = "leaf" /\ now' = NoCond /\ UNCHANGED stack
  BY DEF VisitLeaf
<1>2. now \in Readable /\ Plain(now) /\ now \in TreesOver(Trees)
  BY <1>1, TreeMet, NowIsTree DEF Stepping
<1>3. now \in Trees
  BY <1>1, <1>2, CorrelationSays DEF Readable
<1>4. Says(now) = Predicate(now.col, now.op, now.vals)
  BY <1>1, <1>2, <1>3, LeafSays
<1>5. /\ now.col \in AtomColumns /\ now.op \in Operators /\ now.op \in AtomOps
      /\ now.vals \in Seq(Values)
  BY <1>1, <1>2, TreeTypes DEF AtomColumns, AtomOps
<1>6. "" \in AtomColumns /\ "1=0" \in AtomOps /\ "1=1" \in AtomOps /\ << >> \in Seq(Values)
  BY DEF AtomColumns, AtomOps, Constants
<1>7. /\ Len(<< >>) = 0 /\ TakesMarks("1=0", 0) /\ TakesMarks("1=1", 0)
  BY DEF TakesMarks
<1>8. /\ \A x : Compare("IN", x, << >>) = "false" /\ Compare("NOT IN", x, << >>) = "true"
      /\ DOMAIN << >> = {}
  BY DEF Compare, Or3, Not3
<1>9. CASE now.vals = << >> /\ now.op = "IN"
  <2>1. Predicate(now.col, now.op, now.vals) = [r \in Rows |-> "false"]
    BY <1>8, <1>9 DEF Predicate, Constant
  <2>2. Predicate("", "1=0", << >>) = [r \in Rows |-> "false"]
    BY DEF Predicate, Constant, Decided
  <2>3. PutPredicate("", "1=0", << >>)
    BY <1>9 DEF VisitLeaf
  <2> QED
    BY <1>1, <1>4, <1>6, <1>7, <2>1, <2>2, <2>3, PredicateStep
<1>10. CASE now.vals = << >> /\ now.op = "NOT IN"
  <2>1. Predicate(now.col, now.op, now.vals) = [r \in Rows |-> "true"]
    BY <1>8, <1>10 DEF Predicate, Constant
  <2>2. Predicate("", "1=1", << >>) = [r \in Rows |-> "true"]
    BY DEF Predicate, Constant, Decided
  <2>3. PutPredicate("", "1=1", << >>)
    BY <1>10 DEF VisitLeaf
  <2> QED
    BY <1>1, <1>4, <1>6, <1>7, <2>1, <2>2, <2>3, PredicateStep
<1>11. CASE ~(now.vals = << >> /\ now.op \in {"IN", "NOT IN"})
  <2>1. PutPredicate(now.col, now.op, now.vals)
    BY <1>11 DEF VisitLeaf
  <2>2. now.op \in {"IN", "NOT IN"} => TakesMarks(now.op, Len(now.vals))
    <3>1. now.vals # << >> => Len(now.vals) \in Nat \ {0}
      BY <1>5, EmptySeq
    <3>2. \A n \in Nat \ {0} : TakesMarks("IN", n) /\ TakesMarks("NOT IN", n)
      BY DEF TakesMarks
    <3> QED
      BY <1>11, <3>1, <3>2
  <2>3. TakesMarks(now.op, Len(now.vals))
    BY <1>1, <1>2, <2>2 DEF Plain
  <2> QED
    BY <1>1, <1>4, <1>5, <2>1, <2>3, PredicateStep
<1> QED
  BY <1>9, <1>10, <1>11

LEMMA RawRead ==
    ASSUME Stepping, VisitRaw
    PROVE  Reading'
<1>1. now.kind = "raw" /\ UNCHANGED stack
  BY DEF VisitRaw
<1>2. now \in Readable /\ Plain(now) /\ now \in TreesOver(Trees)
  BY <1>1, TreeMet, NowIsTree DEF Stepping
<1>3. /\ Len(now.text) = 1 /\ now.text[1].t = "atom"
      /\ now.text[1].op \in Operators \cup Constants
      /\ Len(now.text[1].marks) = Len(now.args) /\ TakesMarks(now.text[1].op, Len(now.args))
  BY <1>1, <1>2 DEF Plain
<1>4. now.text \in Seq(Token) /\ now.args \in Seq(Values) /\ now.text # << >>
  BY <1>1, <1>2, <1>3, TreeTypes
<1>5. Head(now.text) = now.text[1] /\ now.text[1] \in Token
  BY <1>3, <1>4
<1>6. SubSeq(now.args, 1, Len(now.args)) = now.args
  BY <1>4, SubSeqFull
<1>7. PutPredicate(now.text[1].col, now.text[1].op, now.args) /\ now' = NoCond
  BY <1>3, <1>4, <1>5, <1>6 DEF VisitRaw
<1>8. now.text[1].col \in AtomColumns /\ now.text[1].op \in AtomOps
  BY <1>3, <1>5, TokenTypes DEF Predicates, AtomColumns, AtomOps
<1>9. Says(now) = Predicate(now.text[1].col, now.text[1].op, now.args)
  BY <1>1, <1>2, RawSays
<1> QED
  BY <1>1, <1>3, <1>4, <1>7, <1>8, <1>9, PredicateStep

\* A parenthesis opened for c, which says what the part there does.
LEMMA Pushed ==
    ASSUME Stepping, NEW c \in Trees, c \in Composite, Plain(c), Len(Parts(c)) >= 1,
           Says(c) = Says(PartIn(FrameAt(Depth))),
           read[Depth] = Waiting(FrameAt(Depth), SubOf(c)),
           PutSymbol("("), stack' = Append(stack, [in |-> c, at |-> 1]),
           now' = Parts(c)[1], now'.kind # "nil", now'.kind # "subquery"
    PROVE  Reading'
<1> DEFINE f == [in |-> c, at |-> 1]
<1>0. PICK n \in Nat : n = Len(stack)
  BY Innermost
<1>1. /\ builder \in Builders /\ stack \in Seq(Frames) /\ Len(stack) = n
      /\ read \in Seq(Levels) /\ Len(read) = n + 1 /\ Depth = n + 1
  BY <1>0, Innermost DEF Depth
<1>2. f \in Frames /\ f.in = c /\ f.at = 1
  BY FrameBegins
<1>3. /\ Len(stack') = n + 1 /\ stack'[n + 1] = f
      /\ \A j \in 1..n : stack'[j] = stack[j]
  BY <1>1
<1>4. \A j \in 1..(n + 1) : FrameAt(j)' = FrameAt(j)
  <2> TAKE j \in 1..(n + 1)
  <2>1. CASE j = 1
    BY <2>1 DEF FrameAt, Stepping
  <2>2. CASE j # 1
    <3>1. j - 1 \in 1..n
      BY <1>1, <2>2
    <3> QED
      BY <1>3, <2>2, <3>1 DEF FrameAt
  <2> QED
    BY <2>1, <2>2
<1>5. FrameAt(n + 2)' = f
  <2>1. n + 2 # 1 /\ (n + 2) - 1 = n + 1
    BY <1>1
  <2> QED
    BY <1>3, <2>1 DEF FrameAt
<1>6. read[n + 1].due = "operand"
  BY <1>1 DEF Waiting
<1>7. read' = ReadToken(read, Sym("("))
  BY <1>1, FollowSymbol DEF Symbols, Stepping
<1>8. /\ read' \in Seq(Levels) /\ Len(read') = n + 2 /\ read'[n + 2] = Fresh
      /\ \A j \in 1..(n + 1) : read'[j] = read[j]
  <2>1. Len(read) >= 1 /\ Len(read) + 1 = n + 2
    BY <1>1
  <2> QED
    BY <1>1, <1>6, <1>7, <2>1, ReadOpen
<1>9. read'[n + 2] = Waiting(f, "none")
  BY <1>8, FrameFresh
<1>10. Says(now') = Says(PartIn(f)) /\ now' \in Readable
  BY <1>2, PartReadable, PartTypes DEF PartIn
<1>11. StackOK'
  <2>1. ASSUME NEW j \in 1..(n + 1)
        PROVE  /\ stack'[j].in \in Trees /\ Plain(stack'[j].in)
               /\ Says(stack'[j].in) = Says(PartIn(FrameAt(j)'))
               /\ read'[j] = Waiting(FrameAt(j)', SubOf(stack'[j].in))
    <3>1. read'[j] = read[j] /\ FrameAt(j)' = FrameAt(j)
      BY <1>4, <1>8
    <3>2. CASE j = n + 1
      BY <1>1, <1>2, <1>3, <3>1, <3>2
    <3>3. CASE j # n + 1
      <4>1. j \in 1..n
        BY <1>1, <3>3
      <4> QED
        BY <1>3, <3>1, <4>1 DEF Stepping, Reading, StackOK
    <3> QED
      BY <3>2, <3>3
  <2> QED
    BY <1>3, <2>1 DEF StackOK
<1>12. TopOK'
  <2>1. Len(stack') + 1 = n + 2
    BY <1>1, <1>3
  <2> HIDE DEF f
  <2>2. FrameAt(Len(stack) + 1)' = f
    BY <1>5, <2>1 DEF FrameAt
  <2>3. /\ now' \in Readable /\ Says(now') = Says(PartIn(f))
        /\ read'[Len(stack') + 1] = Waiting(f, "none")
    BY <1>9, <1>10, <2>1
  <2> QED
    BY <2>2, <2>3 DEF TopOK
<1> QED
  BY <1>1, <1>3, <1>8, <1>11, <1>12 DEF Reading

LEMMA ReadableKind ==
    ASSUME NEW c \in Readable
    PROVE  c.kind # "nil" /\ c.kind # "subquery"
BY CorrelationSays, RenderingAssumption, TreeTypes DEF Readable

\* A group of one child says what the child says.
LEMMA GroupRead ==
    ASSUME Stepping, VisitGroup
    PROVE  Reading'
<1>1. now.kind = "group"
  BY DEF VisitGroup
<1>2. /\ now \in Readable /\ Plain(now) /\ now \in TreesOver(Trees)
      /\ Says(now) = Says(PartIn(FrameAt(Depth)))
      /\ read[Depth] = Waiting(FrameAt(Depth), "none")
  BY <1>1, TreeMet, NowIsTree DEF Stepping
<1>3. now \in Trees /\ now \in Composite /\ Parts(now) = now.conds
  BY <1>1, <1>2, CorrelationSays DEF Readable, Composite, Parts
<1>4. now.conds \in Seq(Trees) /\ now.conds # << >>
  BY <1>1, <1>2, TreeTypes DEF Plain
<1>5. Len(now.conds) \in Nat /\ Len(now.conds) >= 1 /\ now.conds[1] \in Trees
  BY <1>4
<1>6. now' = now.conds[1] /\ now' \in Readable
  BY <1>1, <1>5 DEF VisitGroup, Readable
<1>7. CASE Len(now.conds) = 1
  <2>1. UNCHANGED <<builder, stack>> /\ read' = read
    BY <1>5, <1>7, FollowNothing DEF VisitGroup, Stepping
  <2>2. DOMAIN now.conds = {1}
    BY <1>4, <1>7
  <2>3. Says(now) = Says(now')
    <3>1. {Says(now.conds[i]) : i \in DOMAIN now.conds} = {Says(now.conds[1])}
      BY <2>2
    <3>2. Says(now) \in {Disj({Says(now.conds[1])}), Conj({Says(now.conds[1])})}
      BY <1>1, <1>2, <1>3, <3>1, GroupSays
    <3> QED
      BY <1>5, <1>6, <3>2, SaysOfTree, OneOperand
  <2>4. \A j : FrameAt(j)' = FrameAt(j)
    BY <2>1 DEF FrameAt, Stepping
  <2>5. StackOK'
    BY <2>1, <2>4 DEF Stepping, Reading, StackOK
  <2>6. TopOK'
    BY <1>2, <1>6, <2>1, <2>3, <2>4, ReadableKind DEF TopOK, Depth
  <2> QED
    BY <2>1, <2>5, <2>6 DEF Stepping, Reading
<1>8. CASE Len(now.conds) # 1
  <2>1. PutSymbol("(") /\ stack' = Append(stack, [in |-> now, at |-> 1])
    BY <1>5, <1>8 DEF VisitGroup
  <2>2. SubOf(now) = "none"
    BY <1>1 DEF SubOf
  <2> QED
    BY <1>2, <1>3, <1>5, <1>6, <2>1, <2>2, ReadableKind, Pushed
<1> QED
  BY <1>7, <1>8

LEMMA ExistsRead ==
    ASSUME Stepping, VisitExists
    PROVE  Reading'
<1> DEFINE f == FrameAt(Depth)
<1>1. now.kind = "exists" /\ now' = Subquery(now) /\ UNCHANGED stack
  BY DEF VisitExists
<1>2. /\ now \in Readable /\ Plain(now) /\ Says(now) = Says(PartIn(f))
      /\ read[Depth] = Waiting(f, "none")
  BY <1>1, TreeMet DEF Stepping
<1>3. now \in Trees
  BY <1>1, <1>2, CorrelationSays DEF Readable
<1>4. read' = ReadToken(read, Sym(IF now.negate THEN "NOT EXISTS" ELSE "EXISTS"))
  <2>1. PutSymbol(IF now.negate THEN "NOT EXISTS" ELSE "EXISTS")
    BY DEF VisitExists
  <2> QED
    BY <2>1, Innermost, FollowSymbol DEF Symbols, Stepping
<1>5. TopSet(read, read', Waiting(f, SubOf(now)))
  BY <1>1, <1>2, <1>4, Innermost, ReadExists
<1>6. PICK x : x = Waiting(f, SubOf(now))
  OBVIOUS
<1>7. /\ read' \in Seq(Levels) /\ Len(read') = Depth /\ Depth' = Depth
      /\ StackOK' /\ read'[Depth] = x /\ \A j : FrameAt(j)' = FrameAt(j)
  BY <1>1, <1>5, <1>6, InnermostChanged
<1>8. now'.kind = "subquery" /\ now'.of = now
  BY <1>1 DEF Subquery
<1>9. TopOK'
  BY <1>2, <1>3, <1>6, <1>7, <1>8 DEF TopOK, Depth
<1> QED
  BY <1>7, <1>9 DEF Reading, Depth

LEMMA SubqueryRead ==
    ASSUME Stepping, VisitSubquery
    PROVE  Reading'
<1>1. now.kind = "subquery"
  BY DEF VisitSubquery
<1>2. /\ now.of \in Trees /\ Plain(now.of) /\ Says(now.of) = Says(PartIn(FrameAt(Depth)))
      /\ read[Depth] = Waiting(FrameAt(Depth), SubOf(now.of))
  BY <1>1 DEF Stepping, Reading, TopOK, Depth
<1>3. now.of \in Composite /\ now.of.kind = "exists"
  <2>1. now \notin TreesOver(Trees) \cup {NoCond}
    BY <1>1, TreeTypes DEF NoCond
  <2>2. PICK c \in Composite : c.kind = "exists" /\ now = Subquery(c)
    BY <2>1 DEF Stepping, RenderingTypeOK
  <2> QED
    BY <2>2 DEF Subquery
<1>4. Len(Parts(now.of)) >= 1 /\ Parts(now.of)[1] = Correlation
  BY <1>3, SubqueryParts
<1>5. now' = Correlation /\ Correlation \in Readable
  BY DEF VisitSubquery, Readable
<1>6. PutSymbol("(") /\ stack' = Append(stack, [in |-> now.of, at |-> 1])
  BY DEF VisitSubquery
<1>7. now'.kind # "nil" /\ now'.kind # "subquery"
  BY <1>5, ReadableKind
<1> QED
  BY <1>2, <1>3, <1>4, <1>5, <1>6, <1>7, Pushed

\* What is held on return from a part.
LEMMA PartOver ==
    ASSUME Stepping, now.kind = "nil", stack # << >>
    PROVE  /\ Len(stack) >= 1 /\ Top \in Frames /\ FrameAt(Depth) = Top
           /\ read[Depth] = Over(Top)
           /\ Top.in \in Trees /\ Plain(Top.in)
           /\ FrameAt(Len(stack)) \in Frames
           /\ Says(Top.in) = Says(PartIn(FrameAt(Len(stack))))
           /\ read[Len(stack)] = Waiting(FrameAt(Len(stack)), SubOf(Top.in))
<1>1. Len(stack) \in Nat /\ Len(stack) >= 1 /\ Top \in Frames
  BY Innermost, TopTypes
<1>2. FrameAt(Depth) = Top
  BY <1>1 DEF FrameAt, Depth, Top
<1>3. Len(stack) \in 1..Len(stack) /\ Len(stack) \in 1..Depth
  BY <1>1 DEF Depth
<1>4. FrameAt(Len(stack)) \in Frames
  BY <1>3, Innermost, FrameAtTypes DEF Stepping
<1> QED
  BY <1>1, <1>2, <1>3, <1>4 DEF Stepping, Reading, StackOK, TopOK, Depth, Top

LEMMA JoinRead ==
    ASSUME Stepping, Join
    PROVE  Reading'
<1>0. now.kind = "nil" /\ stack # << >> /\ Top.at < Len(Parts(Top.in))
  BY DEF Join
<1> DEFINE next == [Top EXCEPT !.at = @ + 1]
<1>1. PICK n \in Nat : n = Len(stack)
  BY Innermost
<1>2. /\ n >= 1 /\ Top \in Frames /\ read[n + 1] = Over(Top) /\ Depth = n + 1
      /\ read \in Seq(Levels) /\ Len(read) = n + 1 /\ stack \in Seq(Frames)
      /\ builder \in Builders
  BY <1>0, <1>1, PartOver, Innermost DEF Depth
<1>3. next.in = Top.in /\ next.at = Top.at + 1 /\ next \in Frames
  <2>1. next.in = Top.in /\ next.at = Top.at + 1 /\ next \in [in : Composite, at : Nat]
    BY <1>2 DEF Frames
  <2> HIDE DEF next
  <2>2. next.at \in 1..Len(Parts(next.in))
    BY <1>0, <1>2, <2>1, FrameTypes
  <2> QED
    BY <2>1, <2>2 DEF Frames
<1>4. stack' = [stack EXCEPT ![n] = next]
  BY <1>1, <1>2 DEF Join, Top
<1> HIDE DEF next
<1>5. /\ Len(stack') = n /\ stack'[n] = next /\ stack' \in Seq(Frames)
      /\ \A j \in 1..n : j # n => stack'[j] = stack[j]
  BY <1>1, <1>2, <1>3, <1>4, ExceptSeq
<1>6. \A j \in 1..n : FrameAt(j)' = FrameAt(j)
  <2> TAKE j \in 1..n
  <2>1. CASE j = 1
    BY <2>1 DEF FrameAt, Stepping
  <2>2. CASE j # 1
    <3>1. j - 1 \in 1..n /\ j - 1 # n
      BY <2>2
    <3> QED
      BY <1>5, <2>2, <3>1 DEF FrameAt
  <2> QED
    BY <2>1, <2>2
<1>7. FrameAt(n + 1)' = next
  <2>1. n + 1 # 1 /\ (n + 1) - 1 = n
    BY <1>2
  <2> QED
    BY <1>5, <2>1 DEF FrameAt
<1>8. read' = ReadToken(read, Sym(Joiner(Top.in)))
  <2>1. PutSymbol(Joiner(Top.in)) /\ Joiner(Top.in) \in Symbols
    BY DEF Join, Joiner, Symbols
  <2> QED
    BY <1>2, <2>1, FollowSymbol DEF Stepping
<1>9. TopSet(read, read', Waiting(next, "none"))
  BY <1>2, <1>3, <1>8, ReadJoiner
<1>10. /\ read' \in Seq(Levels) /\ Len(read') = n + 1 /\ read'[n + 1] = Waiting(next, "none")
       /\ \A j \in 1..n : read'[j] = read[j]
  BY <1>2, <1>9 DEF TopSet
<1>11. StackOK'
  <2>1. \A j \in 1..n : stack'[j].in = stack[j].in
    BY <1>1, <1>3, <1>5 DEF Top
  <2> QED
    BY <1>1, <1>5, <1>6, <1>10, <2>1 DEF Stepping, Reading, StackOK
<1>12. now' = PartIn(next) /\ now' \in Readable
  <2>1. next.at \in 1..Len(Parts(next.in)) /\ next.in \in Composite
    BY <1>3, FrameTypes
  <2> QED
    BY <1>3, <2>1, PartReadable DEF Join, PartIn
<1>13. TopOK'
  <2>1. FrameAt(Len(stack) + 1)' = next
    BY <1>5, <1>7 DEF FrameAt
  <2> QED
    BY <1>5, <1>10, <1>12, <2>1, ReadableKind DEF TopOK
<1> QED
  BY <1>5, <1>10, <1>11, <1>13 DEF Reading

LEMMA CloseRead ==
    ASSUME Stepping, Close
    PROVE  Reading'
<1>0. now.kind = "nil" /\ stack # << >> /\ Top.at = Len(Parts(Top.in)) /\ now' = now
  BY DEF Close
<1>1. PICK n \in Nat : n = Len(stack)
  BY Innermost
<1> DEFINE g == FrameAt(n)
<1>2. /\ n >= 1 /\ Top \in Frames /\ read[n + 1] = Over(Top) /\ g \in Frames
      /\ Top.in \in Trees /\ Plain(Top.in) /\ Says(Top.in) = Says(PartIn(g))
      /\ read[n] = Waiting(g, SubOf(Top.in))
      /\ read \in Seq(Levels) /\ Len(read) = n + 1 /\ stack \in Seq(Frames)
      /\ builder \in Builders
  BY <1>0, <1>1, PartOver, Innermost DEF Depth
<1>3. PICK m \in Nat : m = n - 1
  BY <1>2
<1>4. /\ stack' = SubSeq(stack, 1, m) /\ m <= Len(stack)
  BY <1>1, <1>3 DEF Close
<1>5. Len(stack') = m /\ \A j \in 1..m : stack'[j] = stack[j]
  BY <1>2, <1>4
<1>6. \A j \in 1..n : FrameAt(j)' = FrameAt(j)
  <2> TAKE j \in 1..n
  <2>1. CASE j = 1
    BY <2>1 DEF FrameAt, Stepping
  <2>2. CASE j # 1
    <3>1. j - 1 \in 1..m
      BY <1>3, <2>2
    <3> QED
      BY <1>5, <2>2, <3>1 DEF FrameAt
  <2> QED
    BY <2>1, <2>2
<1>7. read' = ReadToken(read, Sym(")"))
  <2>1. PutSymbol(")") /\ ")" \in Symbols
    BY DEF Close, Symbols
  <2> QED
    BY <1>2, <2>1, FollowSymbol DEF Stepping
<1>8. /\ read' \in Seq(Levels) /\ Len(read') = n /\ read'[n] = Over(g)
      /\ \A j \in 1..m : read'[j] = read[j]
  <2>1. /\ Len(read) >= 2 /\ Len(read) - 1 = n /\ Len(read) - 2 = m
    BY <1>2, <1>3
  <2> HIDE DEF g
  <2> QED
    BY <1>0, <1>2, <1>7, <2>1, ReadClose
<1>9. StackOK'
  <2>1. \A j \in 1..m : j \in 1..n
    BY <1>3
  <2> QED
    BY <1>1, <1>5, <1>6, <1>8, <2>1 DEF Stepping, Reading, StackOK
<1>10. TopOK'
  <2>1. Len(stack') + 1 = n /\ n \in 1..n
    BY <1>2, <1>3, <1>5
  <2>2. FrameAt(Len(stack) + 1)' = g
    BY <1>6, <2>1 DEF FrameAt
  <2> QED
    BY <1>0, <1>8, <2>1, <2>2 DEF TopOK
<1> QED
  BY <1>3, <1>5, <1>8, <1>9, <1>10 DEF Reading

LEMMA ReadStep ==
    ASSUME Stepping, WriteNext
    PROVE  Reading'
BY LeafRead, RawRead, GroupRead, ExistsRead, SubqueryRead, JoinRead, CloseRead DEF WriteNext

-----------------------------------------------------------------------------
\* The first state of a pass.
Beginning ==
    /\ root \in Trees \cup {NoCond} /\ start \in Nat
    /\ builder = Blank(start) /\ now = root /\ stack = << >>
    /\ read = <<Fresh>> /\ plain = TRUE

LEMMA PassBeginning == Beginning => PassOK
<1> SUFFICES ASSUME Beginning PROVE PassOK
  OBVIOUS
<1>1. builder \in Builders /\ stack \in Seq(Frames) /\ start \in Nat
  BY DEF Beginning, Blank, Builders, MarkSeqs
<1>2. RenderingTypeOK
  BY <1>1, RenderingAssumption DEF Beginning, RenderingTypeOK
<1>3. Numbered(start)
  BY <1>1 DEF Beginning, Numbered, Blank
<1>4. ASSUME root # NoCond
      PROVE  Reading
  <2>1. root \in Trees /\ now = root /\ stack = << >> /\ Len(stack) = 0 /\ read = <<Fresh>>
    BY <1>4 DEF Beginning
  <2>2. FrameAt(1) = [in |-> Group(FALSE, <<root>>), at |-> 1]
    BY DEF FrameAt
  <2>3. PartIn(FrameAt(1)) = root
    BY <2>2 DEF PartIn, Parts, Group
  <2>4. Fresh = Waiting(FrameAt(1), "none")
    BY <2>2, FrameFresh
  <2>5. Fresh \in Levels
    BY DEF Fresh, Levels
  <2>6. <<Fresh>> \in Seq(Levels) /\ Len(<<Fresh>>) = 1 /\ <<Fresh>>[1] = Fresh
    BY <2>5, OneElement
  <2>7. root \in Readable
    BY <2>1 DEF Readable
  <2>8. TopOK
    BY <2>1, <2>3, <2>4, <2>6, <2>7, ReadableKind DEF TopOK
  <2>9. StackOK
    BY <2>1 DEF StackOK
  <2> QED
    BY <2>1, <2>6, <2>8, <2>9 DEF Reading
<1> QED
  BY <1>1, <1>2, <1>3, <1>4 DEF PassOK, Beginning

LEMMA InitPass == PassInit => PassOK
BY PassBeginning, ReadingAssumption DEF PassInit, Beginning

\* Every step of a pass keeps the invariant.
LEMMA NextPass == PassOK /\ [PassNext]_pass => PassOK'
<1> SUFFICES ASSUME PassOK, [PassNext]_pass PROVE PassOK'
  OBVIOUS
<1>1. CASE UNCHANGED pass
  <2>1. \A j : FrameAt(j)' = FrameAt(j)
    BY <1>1 DEF pass, rendering, FrameAt
  <2>2. RenderingTypeOK' /\ Numbered(start)'
    BY <1>1 DEF pass, rendering, PassOK, RenderingTypeOK, Numbered
  <2>3. Reading => Reading'
    BY <1>1, <2>1 DEF pass, rendering, Reading, StackOK, TopOK
  <2> QED
    BY <1>1, <2>2, <2>3 DEF pass, PassOK
<1>2. CASE PassNext
  <2>1. /\ WriteNext /\ Follow /\ plain' = (plain /\ Plain(now))
        /\ root' = root /\ start' = start
    BY <1>2 DEF PassNext
  <2>2. RenderingTypeOK' /\ Continued
    BY <2>1, WriteStep DEF PassOK
  <2>3. Numbered(start)'
    <3>1. \A k \in Nat : Numbered(k) => Numbered(k)'
      BY <2>2 DEF Continued
    <3>2. PICK k \in Nat : k = start
      BY DEF PassOK
    <3>3. Numbered(k)'
      BY <3>1, <3>2 DEF PassOK
    <3> QED
      BY <2>1, <3>2, <3>3 DEF Numbered
  <2>4. ASSUME plain', root' # NoCond
        PROVE  Reading'
    <3>1. plain /\ Plain(now) /\ root \in Trees /\ root # NoCond
      BY <2>1, <2>4 DEF PassOK
    <3>2. Stepping
      BY <2>1, <3>1 DEF PassOK, Stepping
    <3> QED
      BY <2>1, <3>2, ReadStep
  <2> QED
    BY <2>1, <2>2, <2>3, <2>4 DEF PassOK
<1> QED
  BY <1>1, <1>2

\* Whatever the tree, its lists and its fragments, and wherever the numbering
\* starts, the placeholders follow the arguments after every token of a pass.
THEOREM PassPlaceholders == PassSpec => []PlaceholdersFollowArguments
<1>1. PassOK => PlaceholdersFollowArguments
  BY DEF PassOK, Numbered, PlaceholdersFollowArguments
<1> QED
  BY <1>1, InitPass, NextPass, PTL DEF PassSpec

LEMMA ReadsAsTree == PassOK => TextReadsAsTree
<1> SUFFICES ASSUME PassOK, Rendered, plain, root # NoCond
             PROVE  Parsed(read) /\ ValueOf(read[1]) = Meaning[root]
  BY DEF TextReadsAsTree
<1>1. Reading /\ root \in Trees /\ stack \in Seq(Frames) /\ Len(stack) = 0 /\ now.kind = "nil"
  BY DEF PassOK, Rendered, RenderingTypeOK
<1>2. Len(read) = 1 /\ read[1] = Over(FrameAt(1))
  BY <1>1 DEF Reading, TopOK
<1>3. FrameAt(1) = [in |-> Group(FALSE, <<root>>), at |-> 1]
  BY DEF FrameAt
<1>4. PartIn(FrameAt(1)) = root
  BY <1>3 DEF PartIn, Parts, Group
<1>5. Waiting(FrameAt(1), "none") = Fresh
  BY <1>3, FrameFresh
<1>6. OrsOf(FrameAt(1)) = {} /\ AndsOf(FrameAt(1)) = {}
  BY <1>5 DEF Waiting, Fresh
<1>7. read[1].due = "connective" /\ read[1].ors = {} /\ read[1].ands = {Says(root)}
  BY <1>2, <1>4, <1>6 DEF Over
<1>8. ValueOf(read[1]) = Says(root)
  <2>1. Says(root) \in RowValues
    BY <1>1, SaysOfTree
  <2>2. {} \cup {Conj({Says(root)})} = {Says(root)}
    BY <2>1, OneOperand
  <2> QED
    BY <1>7, <2>1, <2>2, OneOperand DEF ValueOf
<1> QED
  BY <1>1, <1>2, <1>7, <1>8, SaysOfTree DEF Parsed

\* The text of any tree of plain trees, however deep, reads as the tree does on
\* every row: AND and OR join what they join in the tree, a subquery is closed
\* where it ends, and an empty list matches nothing or everything.
THEOREM PassReadsAsTree == PassSpec => []TextReadsAsTree
BY ReadsAsTree, InitPass, NextPass, PTL DEF PassSpec

-----------------------------------------------------------------------------
(* What else holds in a pass: what has been written when nothing has, and  *)
(* when the tree is one that cannot be read.                               *)

\* A tree whose first part says nothing: its text is no condition.
Hopeless == \/ root \in Silences
            \/ root.kind = "group" /\ Len(root.conds) >= 2 /\ root.conds[1] \in Silences

\* No operand has been read, and none comes before a connective does.
DeadEnd ==
    \/ read = Malformed
    \/ /\ read \in Seq(Levels) /\ Len(read) >= 1
       /\ \A j \in 1..Len(read) : read[j].due = "operand"
       /\ now \in Silences \cup {NoCond} \/ (now = root /\ stack = << >>)

ShapeOK ==
    /\ builder.text = << >> =>
          builder.marks = << >> /\ builder.args = << >> /\ read = <<Fresh>>
    /\ root = NoCond => builder.text = << >> /\ now = NoCond /\ stack = << >>
    /\ root.kind = "leaf" /\ Plain(root) =>
          plain /\ stack = << >> /\ now \in {root, NoCond}
    /\ root.kind = "group" /\ Len(root.conds) >= 2 => builder.text # << >> \/ now = root
    /\ Hopeless => DeadEnd

LEMMA ShapeBeginning == Beginning => ShapeOK
<1> SUFFICES ASSUME Beginning PROVE ShapeOK
  OBVIOUS
<1>1. Fresh \in Levels /\ Fresh.due = "operand"
  BY DEF Fresh, Levels
<1>2. <<Fresh>> \in Seq(Levels) /\ Len(<<Fresh>>) = 1 /\ <<Fresh>>[1] = Fresh
  BY <1>1, OneElement
<1>3. DeadEnd
  BY <1>1, <1>2 DEF Beginning, DeadEnd
<1>4. builder.text = << >> /\ builder.marks = << >> /\ builder.args = << >>
  BY DEF Beginning, Blank
<1> QED
  BY <1>3, <1>4 DEF Beginning, ShapeOK

LEMMA Begins == Beginning => PassOK /\ ShapeOK
BY PassBeginning, ShapeBeginning

LEMMA FromBegins ==
    ASSUME NEW c \in Trees \cup {NoCond}, NEW k \in Nat, PassFrom(c, k)
    PROVE  PassOK' /\ ShapeOK'
<1>1. Beginning'
  BY DEF PassFrom, BuildFrom, Beginning
<1>2. (Beginning => PassOK /\ ShapeOK)'
  BY Begins, PTL
<1> QED
  BY <1>1, <1>2

\* The parser takes a step of the pass as nothing or as a token.
LEMMA StepRead ==
    ASSUME RenderingTypeOK, WriteNext, Follow
    PROVE  \/ builder' = builder /\ read' = read
           \/ builder'.text # << >> /\ \E t \in Token : read' = ReadToken(read, t)
<1>1. builder \in Builders /\ builder.text \in Seq(Token)
  BY DEF RenderingTypeOK, Builders
<1>2. CASE builder' = builder
  BY <1>2, FollowNothing
<1>3. CASE \E t \in Token : builder'.text = Append(builder.text, t)
  <2>1. PICK t \in Token : builder'.text = Append(builder.text, t)
    BY <1>3
  <2>2. Append(builder.text, t) # << >>
    BY <1>1
  <2> QED
    BY <1>1, <2>1, <2>2, FollowToken
<1> QED
  BY <1>2, <1>3, WriteStep DEF Continued

\* Where an operand is due only a parenthesis can be read of what is not one.
LEMMA ReadTooSoon ==
    ASSUME NEW levels \in Seq(Levels), Len(levels) >= 1,
           levels[Len(levels)].due = "operand", NEW s \in {"AND", "OR", ")"}
    PROVE  ReadToken(levels, Sym(s)) = Malformed
<1>1. Sym(s).t = s
  BY DEF Sym
<1> QED
  BY <1>1 DEF ReadToken

LEMMA ReadOpened ==
    ASSUME NEW levels \in Seq(Levels), Len(levels) >= 1,
           levels[Len(levels)].due = "operand"
    PROVE  ReadToken(levels, Sym("(")) = Append(levels, Fresh)
<1>1. Sym("(").t = "("
  BY DEF Sym
<1> QED
  BY <1>1, LevelsThere DEF ReadToken

LEMMA SilenceKinds ==
    ASSUME NEW c \in Silences
    PROVE  \/ c.kind = "raw" /\ c.text = << >>
           \/ /\ c.kind = "group" /\ c.conds \in Seq(Trees)
              /\ \A i \in DOMAIN c.conds : c.conds[i] \in Silences
<1>1. c \in Trees
  BY MutationsAssumption
<1>2. c.kind = "group" => c.conds \in Seq(Trees)
  BY <1>1, RenderingAssumption, TreeTypes
<1> QED
  BY <1>2, MutationsAssumption

\* A group whose first part says nothing, written where an operand is due.
LEMMA DeadGroup ==
    ASSUME RenderingTypeOK, VisitGroup, Follow,
           read \in Seq(Levels), Len(read) >= 1,
           \A j \in 1..Len(read) : read[j].due = "operand",
           now.conds \in Seq(Trees), Len(now.conds) > 0 => now.conds[1] \in Silences
    PROVE  DeadEnd'
<1>1. builder \in Builders
  BY DEF RenderingTypeOK
<1>2. now' \in Silences \cup {NoCond}
  BY DEF VisitGroup
<1>3. CASE builder' = builder
  <2>1. read' = read
    BY <1>3, FollowNothing
  <2> QED
    BY <1>2, <2>1 DEF DeadEnd
<1>4. CASE PutSymbol("(")
  <2>1. read' = ReadToken(read, Sym("("))
    BY <1>1, <1>4, FollowSymbol DEF Symbols
  <2>2. read' = Append(read, Fresh)
    BY <2>1, ReadOpened
  <2>3. Fresh \in Levels /\ Fresh.due = "operand"
    BY DEF Fresh, Levels
  <2>4. /\ read' \in Seq(Levels) /\ Len(read') = Len(read) + 1
        /\ read'[Len(read) + 1] = Fresh /\ \A j \in 1..Len(read) : read'[j] = read[j]
    BY <2>2, <2>3
  <2>5. \A j \in 1..Len(read') : read'[j].due = "operand"
    BY <2>3, <2>4
  <2> QED
    BY <1>2, <2>4, <2>5 DEF DeadEnd
<1> QED
  BY <1>3, <1>4 DEF VisitGroup

\* There is no way out of a dead end.
LEMMA DeadStep ==
    ASSUME RenderingTypeOK, Hopeless, DeadEnd, root \in Trees, WriteNext, Follow
    PROVE  DeadEnd'
<1>1. CASE read = Malformed
  BY <1>1, StepRead DEF ReadToken, DeadEnd
<1>2. CASE read # Malformed
  <2>1. /\ read \in Seq(Levels) /\ Len(read) >= 1
        /\ \A j \in 1..Len(read) : read[j].due = "operand"
        /\ now \in Silences \cup {NoCond} \/ (now = root /\ stack = << >>)
    BY <1>2 DEF DeadEnd
  <2>2. read[Len(read)].due = "operand"
    BY <2>1
  <2>3. CASE now \in Silences
    <3>1. CASE now.kind = "raw" /\ now.text = << >>
      <4>1. now' = NoCond /\ UNCHANGED builder
        BY <3>1 DEF WriteNext, VisitLeaf, VisitRaw, VisitGroup, VisitExists,
                    VisitSubquery, Join, Close
      <4> QED
        BY <2>1, <4>1, FollowNothing DEF DeadEnd
    <3>2. CASE now.kind = "group" /\ now.conds \in Seq(Trees)
               /\ \A i \in DOMAIN now.conds : now.conds[i] \in Silences
      <4>1. VisitGroup
        BY <3>2 DEF WriteNext, VisitLeaf, VisitRaw, VisitExists, VisitSubquery, Join, Close
      <4> QED
        BY <2>1, <3>2, <4>1, DeadGroup
    <3> QED
      BY <2>3, <3>1, <3>2, SilenceKinds
  <2>4. CASE now = root /\ root \notin Silences
    <3>1. now.kind = "group" /\ Len(now.conds) >= 2 /\ now.conds[1] \in Silences
      BY <2>4 DEF Hopeless
    <3>2. now.conds \in Seq(Trees)
      BY <2>4, <3>1, RenderingAssumption, TreeTypes
    <3>3. VisitGroup
      BY <3>1 DEF WriteNext, VisitLeaf, VisitRaw, VisitExists, VisitSubquery, Join, Close
    <3> QED
      BY <2>1, <3>1, <3>2, <3>3, DeadGroup
  <2>5. CASE now = NoCond
    <3>1. \E s \in {"AND", "OR", ")"} : PutSymbol(s)
      BY <2>5 DEF WriteNext, VisitLeaf, VisitRaw, VisitGroup, VisitExists,
                  VisitSubquery, Join, Close, Joiner, NoCond
    <3>2. PICK s \in {"AND", "OR", ")"} : PutSymbol(s)
      BY <3>1
    <3>3. read' = ReadToken(read, Sym(s))
      BY <3>2, FollowSymbol DEF RenderingTypeOK, Symbols
    <3>4. read' = Malformed
      BY <2>1, <2>2, <3>3, ReadTooSoon
    <3> QED
      BY <3>4 DEF DeadEnd
  <2> QED
    BY <2>1, <2>3, <2>4, <2>5
<1> QED
  BY <1>1, <1>2

LEMMA NothingLeft ==
    ASSUME now = NoCond, stack = << >>
    PROVE  ~WriteNext
<1>1. now.kind = "nil"
  BY DEF NoCond
<1> QED
  BY <1>1 DEF WriteNext, VisitLeaf, VisitRaw, VisitGroup, VisitExists, VisitSubquery,
              Join, Close

LEMMA ShapeStep == PassOK /\ ShapeOK /\ PassNext => ShapeOK'
<1> SUFFICES ASSUME PassOK, ShapeOK, PassNext PROVE ShapeOK'
  OBVIOUS
<1>1. /\ RenderingTypeOK /\ WriteNext /\ Follow /\ plain' = (plain /\ Plain(now))
      /\ root' = root /\ root \in Trees \cup {NoCond}
  BY DEF PassOK, PassNext
<1>2. builder'.text = << >> =>
         builder'.marks = << >> /\ builder'.args = << >> /\ read' = <<Fresh>>
  BY <1>1, StepRead DEF ShapeOK
<1>3. root = NoCond => FALSE
  BY <1>1, NothingLeft DEF ShapeOK
<1>4. ASSUME root.kind = "leaf", Plain(root)
      PROVE  plain' /\ stack' = << >> /\ now' \in {root, NoCond}
  <2>1. plain /\ stack = << >> /\ now \in {root, NoCond}
    BY <1>4 DEF ShapeOK
  <2>2. now = root
    BY <1>1, <2>1, NothingLeft
  <2>3. VisitLeaf
    BY <1>1, <1>4, <2>2 DEF WriteNext, VisitRaw, VisitGroup, VisitExists,
                            VisitSubquery, Join, Close
  <2> QED
    BY <1>1, <1>4, <2>1, <2>2, <2>3 DEF VisitLeaf
<1>5. ASSUME root.kind = "group", Len(root.conds) >= 2, now' # root
      PROVE  builder'.text # << >>
  <2>1. CASE builder.text # << >>
    BY <1>1, <2>1, StepRead
  <2>2. CASE now = root
    <3>1. VisitGroup
      BY <1>1, <1>5, <2>2 DEF WriteNext, VisitLeaf, VisitRaw, VisitExists,
                              VisitSubquery, Join, Close
    <3>2. PutSymbol("(")
      <4>1. root \in Trees
        BY <1>1, <1>5 DEF NoCond
      <4>2. root.conds \in Seq(Trees)
        BY <1>5, <4>1, RenderingAssumption, TreeTypes
      <4>3. Len(root.conds) # 0 /\ Len(root.conds) # 1
        <5>1. Len(root.conds) >= 2 /\ Len(root.conds) \in Nat
          BY <1>5, <4>2
        <5>2. \A n \in Nat : n >= 2 => n # 0 /\ n # 1
          OBVIOUS
        <5> QED
          BY <5>1, <5>2
      <4>4. Len(now.conds) # 0 /\ Len(now.conds) # 1
        BY <2>2, <4>3
      <4> QED
        BY <3>1, <4>4 DEF VisitGroup
    <3>3. builder'.text = Append(builder.text, Sym("(")) /\ builder.text \in Seq(Token)
      BY <1>1, <3>2, SymbolPut DEF RenderingTypeOK, Symbols, Builders
    <3> QED
      BY <3>3
  <2> QED
    BY <1>5, <2>1, <2>2 DEF ShapeOK
<1>6. Hopeless => DeadEnd'
  BY <1>1, <1>3, DeadStep DEF ShapeOK
<1>7. Hopeless' => Hopeless
  BY <1>1 DEF Hopeless
<1> QED
  BY <1>1, <1>2, <1>3, <1>4, <1>5, <1>6, <1>7 DEF ShapeOK

-----------------------------------------------------------------------------
(* The statement that is being run.                                        *)

Scoped == q.soft /\ q.scope # "all"

\* The pass writes the condition of the query, which does not change meanwhile,
\* numbered on from the assignments when it is written the second time.
StatementOK ==
    /\ pc = "idle" => call = NoCall
    /\ pc # "idle" => root = EffectiveCond /\ ~q.err /\ call.of # "none"
    /\ IF call.of = "update" THEN call.set \in Sets ELSE call.set = NoSet
    /\ pc = "rewritten" => call.of = "update"
    /\ start = IF pc = "rewritten" THEN Len(Columns) ELSE 0

\* The inductive invariant.
MutationOK == TypeOK /\ PassOK /\ ShapeOK /\ StatementOK

LEMMA EffectiveTypes ==
    ASSUME TypeOK
    PROVE  EffectiveCond \in Trees \cup {NoCond}
<1>1. q.cond \in Offered
  BY DEF TypeOK
<1>2. \A f \in Filters \cup Requests : f.cond \in Trees \cup {NoCond}
  BY MutationsAssumption
<1>3. q.cond \in Trees \cup {NoCond}
  BY <1>1, <1>2, MutationsAssumption DEF Offered
<1>4. (q.scope = "deleted") \in BOOLEAN
  OBVIOUS
<1>5. Scope(q.scope = "deleted") \in Trees
  BY MutationsAssumption
<1>6. q.cond # NoCond => Within(q.cond, Scope(q.scope = "deleted")) \in Trees
  BY <1>1, MutationsAssumption
<1> QED
  BY <1>3, <1>5, <1>6 DEF EffectiveCond

\* The columns are those of the assignments.
LEMMA ColumnsAre ==
    ASSUME DOMAIN call.set \subseteq {"a", "gone"}
    PROVE  /\ Columns \in Seq({"a", "gone"}) /\ Len(Columns) \in Nat
           /\ DOMAIN Columns = 1..Len(Columns)
           /\ \A i \in DOMAIN Columns : Columns[i] \in DOMAIN call.set
           /\ \A c \in DOMAIN call.set : \E i \in DOMAIN Columns : Columns[i] = c
<1>1. CASE "a" \in DOMAIN call.set /\ "gone" \in DOMAIN call.set
  <2>1. PICK x, y : x = <<"a">> /\ y = <<"gone">>
    OBVIOUS
  <2>2. x \in Seq({"a", "gone"}) /\ y \in Seq({"a", "gone"}) /\ Len(x) = 1 /\ Len(y) = 1
    BY <2>1
  <2>3. /\ x \o y \in Seq({"a", "gone"}) /\ Len(x \o y) = 2
        /\ \A i \in 1..2 : (x \o y)[i] = IF i <= 1 THEN x[i] ELSE y[i - 1]
    BY <2>2, ConcatProperties
  <2>4. Columns = x \o y
    BY <1>1, <2>1 DEF Columns
  <2>5. Columns[1] = "a" /\ Columns[2] = "gone" /\ DOMAIN Columns = 1..2 /\ 1..2 = {1, 2}
    BY <2>1, <2>3, <2>4
  <2> QED
    BY <1>1, <2>3, <2>4, <2>5
<1>2. CASE "a" \in DOMAIN call.set /\ "gone" \notin DOMAIN call.set
  <2>1. Columns = <<"a">>
    BY <1>2 DEF Columns
  <2>2. /\ <<"a">> \in Seq({"a", "gone"}) /\ Len(<<"a">>) = 1
        /\ DOMAIN <<"a">> = 1..1 /\ 1..1 = {1} /\ <<"a">>[1] = "a"
    OBVIOUS
  <2> QED
    BY <1>2, <2>1, <2>2
<1>3. CASE "a" \notin DOMAIN call.set /\ "gone" \in DOMAIN call.set
  <2>1. Columns = <<"gone">>
    BY <1>3 DEF Columns
  <2>2. /\ <<"gone">> \in Seq({"a", "gone"}) /\ Len(<<"gone">>) = 1
        /\ DOMAIN <<"gone">> = 1..1 /\ 1..1 = {1} /\ <<"gone">>[1] = "gone"
    OBVIOUS
  <2> QED
    BY <1>3, <2>1, <2>2
<1>4. CASE "a" \notin DOMAIN call.set /\ "gone" \notin DOMAIN call.set
  <2>1. Columns = << >>
    BY <1>4 DEF Columns
  <2>2. /\ << >> \in Seq({"a", "gone"}) /\ Len(<< >>) = 0
        /\ DOMAIN << >> = 1..0 /\ 1..0 = {}
    OBVIOUS
  <2> QED
    BY <1>4, <2>1, <2>2
<1> QED
  BY <1>1, <1>2, <1>3, <1>4

LEMMA SetTypes ==
    ASSUME TypeOK
    PROVE  DOMAIN call.set \subseteq {"a", "gone"} /\ \A c \in DOMAIN call.set : call.set[c] \in Values
<1>1. call.set \in Sets \cup {NoSet}
  BY DEF TypeOK
<1>2. DOMAIN NoSet = {}
  BY DEF NoSet
<1> QED
  BY <1>1, <1>2, MutationsAssumption

LEMMA SetInPlace ==
    ASSUME TypeOK
    PROVE  InPlace(SetMarks, SetArgs) /\ Len(SetArgs) = Len(Columns)
<1>1. /\ Len(Columns) \in Nat /\ DOMAIN Columns = 1..Len(Columns)
      /\ \A i \in DOMAIN Columns : call.set[Columns[i]] \in Values
  BY SetTypes, ColumnsAre
<1>2. PICK n \in Nat : n = Len(Columns)
  BY <1>1
<1>3. /\ SetMarks = [i \in 1..n |-> [n |-> i, v |-> call.set[Columns[i]]]]
      /\ SetArgs = [i \in 1..n |-> call.set[Columns[i]]]
  BY <1>1, <1>2 DEF SetMarks, SetArgs
<1>4. SetArgs \in Seq(Values) /\ Len(SetArgs) = n
  BY <1>1, <1>2, <1>3
<1>5. \A i \in 1..n : [n |-> i, v |-> call.set[Columns[i]]] \in [n : Nat, v : Values]
  BY <1>1, <1>2
<1>6. SetMarks \in MarkSeqs /\ Len(SetMarks) = n /\ DOMAIN SetMarks = 1..n
  BY <1>3, <1>5 DEF MarkSeqs
<1>7. \A i \in 1..n : SetMarks[i] = [n |-> i, v |-> SetArgs[i]]
  BY <1>3
<1> QED
  BY <1>2, <1>4, <1>6, <1>7 DEF InPlace

\* A statement that is complete has each argument where its placeholder is.
LEMMA SentInPlace ==
    ASSUME MutationOK, NEW of, Sent(of)
    PROVE  InPlace(SentMarks, SentArgs)
<1>1. /\ builder.marks \in MarkSeqs /\ builder.args \in Seq(Values)
      /\ Len(builder.marks) = Len(builder.args)
      /\ \A i \in DOMAIN builder.marks : builder.marks[i] = [n |-> start + i, v |-> builder.args[i]]
  BY DEF MutationOK, PassOK, RenderingTypeOK, Builders, Numbered
<1>2. InPlace(SetMarks, SetArgs) /\ Len(SetArgs) = Len(Columns)
  BY SetInPlace DEF MutationOK
<1>3. start = Len(Columns) \/ builder.marks = << >>
  <2>1. CASE pc = "rewritten"
    BY <2>1 DEF MutationOK, StatementOK
  <2>2. CASE pc # "rewritten" /\ of = "update"
    BY <2>2 DEF Sent, MutationOK, ShapeOK
  <2>3. CASE pc # "rewritten" /\ of # "update"
    <3>1. call.set = NoSet /\ start = 0
      BY <2>3 DEF Sent, MutationOK, StatementOK
    <3>2. DOMAIN NoSet = {}
      BY DEF NoSet
    <3>3. Columns = << >>
      BY <3>1, <3>2 DEF Columns
    <3> QED
      BY <3>1, <3>3
  <2> QED
    BY <2>1, <2>2, <2>3
<1>4. \A i \in DOMAIN builder.marks :
         builder.marks[i] = [n |-> Len(SetArgs) + i, v |-> builder.args[i]]
  BY <1>1, <1>2, <1>3
<1> QED
  BY <1>1, <1>2, <1>4, MarksJoined DEF SentMarks, SentArgs

\* The server takes each mark for the argument it was written for.
LEMMA SentAsMeant ==
    ASSUME MutationOK, NEW of, Sent(of)
    PROVE  /\ Accepted /\ AsMeant
           /\ \A r : Assigned(r) = Become(r, call.set)
<1>1. /\ Len(SentMarks) = Len(SentArgs) /\ DOMAIN SentMarks = DOMAIN SentArgs
      /\ \A i \in DOMAIN SentMarks : SentMarks[i] = [n |-> i, v |-> SentArgs[i]]
  <2>1. InPlace(SentMarks, SentArgs)
    BY SentInPlace
  <2> QED
    BY <2>1 DEF InPlace, MarkSeqs
<1>2. \A i \in DOMAIN SentMarks : NumberOf(i) = i
  BY <1>1 DEF NumberOf
<1>3. Accepted
  BY <1>1, <1>2 DEF Accepted
<1>4. AsMeant
  BY <1>1, <1>2 DEF AsMeant
<1>5. ASSUME NEW i \in DOMAIN Columns
      PROVE  SentArgs[NumberOf(i)] = call.set[Columns[i]]
  <2>1. /\ InPlace(SetMarks, SetArgs) /\ DOMAIN Columns = 1..Len(SetArgs)
        /\ builder.args \in Seq(Values)
    BY SetInPlace, SetTypes, ColumnsAre DEF MutationOK, PassOK, RenderingTypeOK, Builders
  <2>2. SetArgs \in Seq(Values) /\ SetArgs[i] = call.set[Columns[i]]
    BY <2>1 DEF InPlace, SetArgs
  <2>3. /\ i \in 1..(Len(SetArgs) + Len(builder.args)) /\ i <= Len(SetArgs)
        /\ Len(SetArgs) \in Nat /\ Len(builder.args) \in Nat
    BY <2>1, <2>2, LenProperties
  <2>4. /\ SentArgs[i] = SetArgs[i] /\ SentArgs \in Seq(Values)
        /\ Len(SentArgs) = Len(SetArgs) + Len(builder.args)
    BY <2>1, <2>2, <2>3, ConcatProperties DEF SentArgs
  <2>5. i \in DOMAIN SentMarks
    BY <1>1, <2>3, <2>4, LenProperties
  <2> QED
    BY <1>2, <2>2, <2>4, <2>5
<1>6. ASSUME NEW r
      PROVE  Assigned(r) = Become(r, call.set)
  <2>1. \A c : (\E i \in DOMAIN Columns : Columns[i] = c) <=> c \in DOMAIN call.set
    BY SetTypes, ColumnsAre DEF MutationOK
  <2>2. ASSUME NEW c, \E i \in DOMAIN Columns : Columns[i] = c
        PROVE  SentArgs[NumberOf(CHOOSE i \in DOMAIN Columns : Columns[i] = c)] = call.set[c]
    BY <1>5, <2>2
  <2> QED
    BY <2>1, <2>2 DEF Assigned, Become
<1> QED
  BY <1>3, <1>4, <1>6

-----------------------------------------------------------------------------
(* Types.                                                                  *)

QueryTypes == [cond : Offered, soft : BOOLEAN, scope : {"active", "all", "deleted"},
               unfiltered : BOOLEAN, err : BOOLEAN, joined : BOOLEAN,
               dialect : Databases \cup {"postgres"}]
Replies == [what : {"none", "refused", "failed", "deleted", "updated", "counted"},
            set : Sets \cup {NoSet}, n : Nat]

LEMMA ReplyTypes ==
    ASSUME NEW set \in Sets \cup {NoSet}, NEW n \in Nat
    PROVE  /\ Silence \in Replies /\ Reply("refused", NoSet, 0) \in Replies
           /\ Reply("failed", set, 0) \in Replies /\ Reply("deleted", set, n) \in Replies
           /\ Reply("updated", set, n) \in Replies /\ Reply("counted", NoSet, n) \in Replies
BY DEF Silence, Reply, Replies

LEMMA FilterTypes ==
    ASSUME NEW f \in Filters \cup Requests
    PROVE  /\ f.fails \in BOOLEAN /\ f.bound \in BOOLEAN /\ f.cond \in Offered
           /\ f.source \in {"none", "plain", "joined"} /\ f.asks \in Asking
BY MutationsAssumption DEF Offered

LEMMA FilteredTypes ==
    ASSUME NEW r \in QueryTypes, NEW f \in Filters \cup Requests
    PROVE  Filtered(r, f) \in QueryTypes
BY FilterTypes DEF Filtered, QueryTypes

LEMMA NewTypes == NewQuery \in QueryTypes /\ AskedNothing \in Asking
BY DEF NewQuery, AskedNothing, QueryTypes, Asking, Offered, Truth

LEMMA FluentTypes ==
    ASSUME q \in QueryTypes, asked \in Asking, Fluent
    PROVE  q' \in QueryTypes /\ asked' \in Asking
<1>1. CASE From
  BY <1>1, NewTypes DEF From, Built
<1>2. CASE SoftDelete \/ WithDeleted \/ OnlyDeleted \/ Unfiltered
  BY <1>2 DEF SoftDelete, WithDeleted, OnlyDeleted, Unfiltered, Built, QueryTypes
<1>3. ASSUME NEW f \in Filters \cup Requests, Where(f)
      PROVE  q' \in QueryTypes /\ asked' \in Asking
  BY <1>3, FilteredTypes, FilterTypes DEF Where, Built
<1>4. ASSUME NEW f \in Filters, For(f)
      PROVE  q' \in QueryTypes /\ asked' \in Asking
  <2>1. PICK r : r = Filtered(NewQuery, f)
    OBVIOUS
  <2>2. r \in QueryTypes
    BY <2>1, NewTypes, FilteredTypes
  <2>3. q' = [r EXCEPT !.err = @ \/ f.source = "none"] /\ asked' = f.asks
    BY <1>4, <2>1 DEF For, Built
  <2> QED
    BY <2>2, <2>3, FilterTypes DEF QueryTypes
<1>5. ASSUME NEW c \in Conds, Cond(c)
      PROVE  q' \in QueryTypes /\ asked' \in Asking
  <2>1. c \in Offered
    BY DEF Offered
  <2>2. q' \in QueryTypes
    BY <1>5, <2>1 DEF Cond, Built, QueryTypes
  <2>3. c # NoCond => Meaning[c] \in [Rows -> Truth]
    BY MutationsAssumption, MeaningAssumption
  <2> QED
    BY <1>5, <2>2, <2>3, NewTypes DEF Cond, Built, Asking
<1>6. ASSUME NEW d \in Databases, On(d)
      PROVE  q' \in QueryTypes /\ asked' \in Asking
  BY <1>6 DEF On, Built, QueryTypes
<1> QED
  BY <1>1, <1>2, <1>3, <1>4, <1>5, <1>6 DEF Fluent, WhereRequest

\* Assignments keep a row's key.
LEMMA BecomeTypes ==
    ASSUME NEW set \in Sets, NEW r \in Rows
    PROVE  Become(r, set) \in Rows /\ Become(r, set).id = r.id
<1>1. "id" \in DOMAIN r /\ "id" \notin DOMAIN set /\ Become(r, set) \in Rows
  BY MutationsAssumption
<1> QED
  BY <1>1 DEF Become

LEMMA TablesKept ==
    ASSUME NEW T \in Tables, NEW F \in SUBSET T
    PROVE  /\ T \ F \in Tables /\ Cardinality(F) \in Nat
           /\ \A set \in Sets : (T \ F) \cup {Become(r, set) : r \in F} \in Tables
<1>1. T \in SUBSET Rows /\ IsFiniteSet(T) /\ \A r, s \in T : r.id = s.id => r = s
  BY DEF Tables
<1>2. IsFiniteSet(F) /\ IsFiniteSet(T \ F)
  BY <1>1, FS_Subset
<1>3. Cardinality(F) \in Nat
  BY <1>2, FS_CardinalityType
<1>4. T \ F \in Tables
  BY <1>1, <1>2 DEF Tables
<1>5. ASSUME NEW set \in Sets
      PROVE  (T \ F) \cup {Become(r, set) : r \in F} \in Tables
  <2> DEFINE G == {Become(r, set) : r \in F}
  <2>1. IsFiniteSet(G)
    <3> DEFINE become == [r \in F |-> Become(r, set)]
    <3>1. become \in [F -> G] /\ \A g \in G : \E r \in F : become[r] = g
      OBVIOUS
    <3>2. become \in Surjection(F, G)
      BY <3>1 DEF Surjection
    <3> QED
      BY <1>2, <3>2, FS_Surjection
  <2>2. G \in SUBSET Rows /\ \A r \in F : Become(r, set).id = r.id
    BY <1>1, BecomeTypes
  <2>3. IsFiniteSet((T \ F) \cup G)
    BY <1>2, <2>1, FS_Union
  <2>4. \A g \in G : \E r \in F : g = Become(r, set) /\ g.id = r.id
    BY <2>2
  <2> HIDE DEF G
  <2>5. ASSUME NEW g \in G, NEW h \in G, g.id = h.id
        PROVE  g = h
    BY <1>1, <2>4, <2>5
  <2>6. ASSUME NEW g \in G, NEW h \in T \ F
        PROVE  g.id # h.id
    BY <1>1, <2>4
  <2>7. \A g, h \in (T \ F) \cup G : g.id = h.id => g = h
    BY <1>1, <2>5, <2>6
  <2>8. (T \ F) \cup G \in Tables
    BY <1>1, <2>2, <2>3, <2>7 DEF Tables
  <2> QED
    BY <2>8 DEF G
<1> QED
  BY <1>3, <1>4, <1>5

LEMMA OthersTypes ==
    ASSUME table \in Tables, Others
    PROVE  table' \in Tables
<1>1. table \in SUBSET Rows /\ IsFiniteSet(table) /\ \A r, s \in table : r.id = s.id => r = s
  BY DEF Tables
<1>2. PICK r \in Rows : \/ r \in table /\ table' = table \ {r}
                        \/ r.id \notin {s.id : s \in table} /\ table' = table \cup {r}
  BY DEF Others
<1>3. CASE r \in table /\ table' = table \ {r}
  <2>1. {r} \in SUBSET table
    BY <1>3
  <2> QED
    BY <1>3, <2>1, TablesKept
<1>4. CASE r.id \notin {s.id : s \in table} /\ table' = table \cup {r}
  <2>1. IsFiniteSet(table')
    BY <1>1, <1>4, FS_AddElement
  <2> QED
    BY <1>1, <1>4, <2>1 DEF Tables
<1> QED
  BY <1>2, <1>3, <1>4

\* The rows a statement that runs finds.
Found == {r \in table : builder.text = << >> \/ ValueOf(read[1])[r] = "true"}

LEMMA FoundOnly ==
    ASSUME MutationOK, NEW of, Sent(of), NEW F \in Finds
    PROVE  F = Found /\ F \in SUBSET table /\ Runs
BY SentAsMeant DEF Finds, Found

\* What Delete, Update and Count do with the rows found.
LEMMA DeleteDoes ==
    ASSUME MutationOK, Delete
    PROVE  \/ reply' = Reply("failed", call.set, 0) /\ table' = table
           \/ /\ Runs /\ table' = table \ Found
              /\ \/ \E n \in {0, Cardinality(Found)} : reply' = Reply("deleted", call.set, n)
                 \/ reply' = Reply("failed", call.set, 0)
BY FoundOnly DEF Delete, Exec, Fail

LEMMA UpdateDoes ==
    ASSUME MutationOK, Update
    PROVE  \/ reply' = Reply("failed", call.set, 0) /\ table' = table
           \/ /\ Runs /\ table' = (table \ Found) \cup {Become(r, call.set) : r \in Found}
              /\ \/ \E n \in {0, Cardinality(Found)} : reply' = Reply("updated", call.set, n)
                 \/ reply' = Reply("failed", call.set, 0)
<1>1. Sent("update") /\ \A r : Assigned(r) = Become(r, call.set)
  BY SentAsMeant DEF Update
<1>2. {Assigned(r) : r \in Found} = {Become(r, call.set) : r \in Found}
  BY <1>1
<1> QED
  BY <1>1, <1>2, FoundOnly DEF Update, Exec, Fail

LEMMA CountDoes ==
    ASSUME MutationOK, Count
    PROVE  /\ table' = table
           /\ \/ Runs /\ reply' = Reply("counted", NoSet, Cardinality(Found))
              \/ reply' = Reply("failed", call.set, 0)
BY FoundOnly DEF Count, Fail

-----------------------------------------------------------------------------
(* The invariant.                                                          *)

LEMMA Typed ==
    TypeOK <=> /\ table \in Tables /\ asked \in Asking /\ q \in QueryTypes
               /\ pc \in {"idle", "where", "rewritten"}
               /\ call \in [of : {"none", "delete", "update", "count"}, set : Sets \cup {NoSet}]
               /\ reply \in Replies
BY DEF TypeOK, QueryTypes, Replies

LEMMA TypedNext ==
    TypeOK' <=> /\ table' \in Tables /\ asked' \in Asking /\ q' \in QueryTypes
                /\ pc' \in {"idle", "where", "rewritten"}
                /\ call' \in [of : {"none", "delete", "update", "count"}, set : Sets \cup {NoSet}]
                /\ reply' \in Replies
BY DEF TypeOK, QueryTypes, Replies

LEMMA InitMutation == Init => MutationOK
<1> SUFFICES ASSUME Init PROVE MutationOK
  OBVIOUS
<1>1. Beginning
  BY DEF Init, Beginning
<1>2. PassOK /\ ShapeOK
  BY <1>1, Begins
<1>3. NoCall \in [of : {"none", "delete", "update", "count"}, set : Sets \cup {NoSet}]
  BY DEF NoCall
<1>4. Silence \in Replies
  BY DEF Silence, Reply, Replies
<1>5. TypeOK
  BY <1>3, <1>4, NewTypes, Typed DEF Init
<1>6. StatementOK
  BY DEF Init, StatementOK, NoCall
<1> QED
  BY <1>2, <1>5, <1>6 DEF MutationOK

LEMMA PassStays ==
    ASSUME PassOK, ShapeOK, UNCHANGED pass
    PROVE  PassOK' /\ ShapeOK'
<1>1. PassOK'
  BY NextPass
<1>2. ShapeOK'
  BY DEF pass, rendering, ShapeOK, Hopeless, DeadEnd
<1> QED
  BY <1>1, <1>2

\* A step that leaves the statement where it is.
LEMMA StatementStays ==
    ASSUME StatementOK, UNCHANGED <<pass, pc, call>>, UNCHANGED q \/ pc = "idle"
    PROVE  StatementOK'
BY DEF StatementOK, pass, EffectiveCond, Columns

LEMMA FluentStep ==
    ASSUME MutationOK, Fluent
    PROVE  MutationOK'
<1>1. /\ UNCHANGED <<pass, table, pc, call, reply>> /\ pc = "idle"
      /\ q' \in QueryTypes /\ asked' \in Asking
  BY FluentTypes, Typed DEF MutationOK, Fluent, Idle
<1>2. TypeOK'
  BY <1>1, Typed, TypedNext DEF MutationOK
<1>3. StatementOK'
  BY <1>1, StatementStays DEF MutationOK
<1> QED
  BY <1>1, <1>2, <1>3, PassStays DEF MutationOK

LEMMA ReplyStep ==
    ASSUME MutationOK, Reject \/ Answered \/ Others
    PROVE  MutationOK'
<1>1. UNCHANGED <<pass, q, asked, pc, call>>
  BY DEF Reject, Answered, Others
<1>2. table' \in Tables
  BY OthersTypes, Typed DEF MutationOK, Reject, Answered, Others
<1>3. reply' \in Replies
  BY Typed DEF MutationOK, Reject, Answered, Others, Replies, Reply, Silence
<1>4. TypeOK'
  BY <1>1, <1>2, <1>3, Typed, TypedNext DEF MutationOK
<1>5. StatementOK'
  BY <1>1, StatementStays DEF MutationOK
<1> QED
  BY <1>1, <1>4, <1>5, PassStays DEF MutationOK

LEMMA CallStep ==
    ASSUME MutationOK, Idle, NEW of \in {"delete", "update", "count"},
           NEW set, IF of = "update" THEN set \in Sets ELSE set = NoSet, Call(of, set)
    PROVE  MutationOK'
<1>1. UNCHANGED <<table, q, asked>>
  BY DEF Call
<1>2. CASE Refused(of, set)
  <2>1. UNCHANGED <<pass, pc, call>> /\ reply' = Reply("refused", NoSet, 0)
    BY <1>2 DEF Call
  <2>2. reply' \in Replies
    BY <2>1 DEF Reply, Replies
  <2>3. TypeOK'
    BY <1>1, <2>1, <2>2, Typed, TypedNext DEF MutationOK
  <2>4. StatementOK'
    BY <1>1, <2>1, StatementStays DEF MutationOK
  <2> QED
    BY <2>1, <2>3, <2>4, PassStays DEF MutationOK
<1>3. CASE ~Refused(of, set)
  <2>1. /\ pc' = "where" /\ call' = [of |-> of, set |-> set] /\ reply' = Silence
        /\ PassFrom(EffectiveCond, 0) /\ ~q.err
    BY <1>3 DEF Call, Refused
  <2>2. EffectiveCond \in Trees \cup {NoCond} /\ 0 \in Nat
    BY EffectiveTypes DEF MutationOK
  <2>3. PassOK' /\ ShapeOK'
    BY <2>1, <2>2, FromBegins
  <2>4. /\ call' \in [of : {"none", "delete", "update", "count"}, set : Sets \cup {NoSet}]
        /\ reply' \in Replies
    BY <2>1 DEF Silence, Reply, Replies
  <2>5. TypeOK'
    BY <1>1, <2>1, <2>4, Typed, TypedNext DEF MutationOK
  <2>6. root' = EffectiveCond /\ start' = 0 /\ EffectiveCond' = EffectiveCond
    BY <1>1, <2>1 DEF PassFrom, EffectiveCond
  <2>7. StatementOK'
    BY <1>1, <2>1, <2>6 DEF StatementOK
  <2> QED
    BY <2>3, <2>5, <2>7 DEF MutationOK
<1> QED
  BY <1>2, <1>3

LEMMA WriteWhereStep ==
    ASSUME MutationOK, WriteWhere
    PROVE  MutationOK'
<1>1. /\ PassNext /\ reply' = Silence /\ UNCHANGED <<table, q, asked, pc, call>>
      /\ root' = root /\ start' = start
  BY DEF WriteWhere, PassNext
<1>2. PassOK' /\ ShapeOK'
  BY <1>1, NextPass, ShapeStep DEF MutationOK
<1>3. reply' \in Replies
  BY <1>1 DEF Silence, Reply, Replies
<1>4. TypeOK'
  BY <1>1, <1>3, Typed, TypedNext DEF MutationOK
<1>5. StatementOK'
  BY <1>1 DEF MutationOK, StatementOK, EffectiveCond, Columns
<1> QED
  BY <1>2, <1>4, <1>5 DEF MutationOK

LEMMA RewriteStep ==
    ASSUME MutationOK, Rewrite
    PROVE  MutationOK'
<1>1. /\ pc = "where" /\ call.of = "update" /\ pc' = "rewritten" /\ PassFrom(root, Len(Columns))
      /\ reply' = Silence /\ UNCHANGED <<table, q, asked, call>>
  BY DEF Rewrite
<1>2. root = EffectiveCond /\ root \in Trees \cup {NoCond} /\ Len(Columns) \in Nat
  BY <1>1, EffectiveTypes, SetTypes, ColumnsAre DEF MutationOK, StatementOK
<1>3. PassOK' /\ ShapeOK'
  BY <1>1, <1>2, FromBegins
<1>4. reply' \in Replies
  BY <1>1 DEF Silence, Reply, Replies
<1>5. TypeOK'
  BY <1>1, <1>4, Typed, TypedNext DEF MutationOK
<1>6. root' = root /\ start' = Len(Columns)
  BY <1>1 DEF PassFrom
<1>7. EffectiveCond' = EffectiveCond /\ Columns' = Columns
  BY <1>1 DEF EffectiveCond, Columns
<1>8. StatementOK'
  BY <1>1, <1>2, <1>6, <1>7 DEF MutationOK, StatementOK
<1> QED
  BY <1>3, <1>5, <1>8 DEF MutationOK

LEMMA ReturnStep ==
    ASSUME MutationOK, Return, table' \in Tables, reply' \in Replies
    PROVE  MutationOK'
<1>1. /\ pc' = "idle" /\ call' = NoCall /\ PassFrom(NoCond, 0) /\ UNCHANGED <<q, asked>>
  BY DEF Return
<1>2. PassOK' /\ ShapeOK'
  BY <1>1, FromBegins
<1>3. call' \in [of : {"none", "delete", "update", "count"}, set : Sets \cup {NoSet}]
  BY <1>1 DEF NoCall
<1>4. TypeOK'
  BY <1>1, <1>3, Typed, TypedNext DEF MutationOK
<1>5. StatementOK'
  BY <1>1 DEF StatementOK, NoCall, PassFrom
<1> QED
  BY <1>2, <1>4, <1>5 DEF MutationOK

LEMMA AnsweredStep ==
    ASSUME MutationOK, RefuseWhole \/ Delete \/ Update \/ Count
    PROVE  MutationOK'
<1>1. /\ table \in Tables /\ call.set \in Sets \cup {NoSet} /\ 0 \in Nat
  BY Typed DEF MutationOK
<1>2. Found \in SUBSET table
  BY DEF Found
<1>3. /\ table \ Found \in Tables /\ Cardinality(Found) \in Nat
      /\ \A set \in Sets : (table \ Found) \cup {Become(r, set) : r \in Found} \in Tables
  BY <1>1, <1>2, TablesKept
<1>4. \A n \in {0, Cardinality(Found)} : n \in Nat
  BY <1>3
<1>5. CASE RefuseWhole
  <2>1. reply' \in Replies /\ Return /\ table' = table
    BY <1>5, ReplyTypes DEF RefuseWhole, NoSet, Replies, Reply
  <2> QED
    BY <1>1, <2>1, ReturnStep
<1>6. CASE Delete
  <2>1. table' \in Tables /\ reply' \in Replies
    BY <1>1, <1>3, <1>4, <1>6, DeleteDoes, ReplyTypes
  <2> QED
    BY <1>6, <2>1, ReturnStep DEF Delete
<1>7. CASE Update
  <2>1. call.set \in Sets
    BY <1>7 DEF Update, Sent, MutationOK, StatementOK
  <2>2. table' \in Tables /\ reply' \in Replies
    BY <1>1, <1>3, <1>4, <1>7, <2>1, UpdateDoes, ReplyTypes
  <2> QED
    BY <1>7, <2>2, ReturnStep DEF Update
<1>8. CASE Count
  <2>1. table' \in Tables /\ reply' \in Replies
    BY <1>1, <1>3, <1>8, CountDoes, ReplyTypes
  <2> QED
    BY <1>8, <2>1, ReturnStep DEF Count
<1> QED
  BY <1>5, <1>6, <1>7, <1>8

LEMMA NextMutation == MutationOK /\ [Next]_vars => MutationOK'
<1> SUFFICES ASSUME MutationOK, [Next]_vars PROVE MutationOK'
  OBVIOUS
<1>1. CASE UNCHANGED vars
  <2>1. UNCHANGED <<pass, table, q, asked, pc, call, reply>>
    BY <1>1 DEF vars
  <2>2. TypeOK'
    BY <2>1, Typed, TypedNext DEF MutationOK
  <2>3. StatementOK'
    BY <2>1, StatementStays DEF MutationOK
  <2> QED
    BY <2>1, <2>2, <2>3, PassStays DEF MutationOK
<1>2. CASE Run
  BY <1>2, CallStep DEF Run
<1> QED
  BY <1>1, <1>2, FluentStep, ReplyStep, WriteWhereStep, RewriteStep, AnsweredStep DEF Next

\* The table keeps its key and its rows their types whatever is assigned, and no
\* statement is left without one of the conditions given.
THEOREM MutationsTypes == Spec => []TypeOK
<1>1. MutationOK => TypeOK
  BY DEF MutationOK
<1> QED
  BY <1>1, InitMutation, NextMutation, PTL DEF Spec

-----------------------------------------------------------------------------
(* What the query says.                                                    *)

LEMMA InitSays == Init => QuerySaysWhatIsAsked
BY DEF Init, NewQuery, AskedNothing, QuerySaysWhatIsAsked, Fits

LEMMA FilterSays ==
    ASSUME CompiledAsAsked, NEW f \in Filters \cup Requests, f.bound, NEW r,
           r \in QueryTypes, q' = Filtered(r, f), asked' = f.asks
    PROVE  QuerySaysWhatIsAsked'
<1>1. CASE f.fails
  BY <1>1 DEF Filtered, QuerySaysWhatIsAsked, QueryTypes
<1>2. CASE ~f.fails
  <2>1. q'.cond = f.cond
    BY <1>2 DEF Filtered, QueryTypes
  <2>2. Fits(f.cond, f.asks)
    BY <1>2 DEF CompiledAsAsked
  <2> QED
    BY <2>1, <2>2 DEF QuerySaysWhatIsAsked, Fits
<1> QED
  BY <1>1, <1>2

LEMMA FluentSays ==
    ASSUME CompiledAsAsked, QuerySaysWhatIsAsked, q \in QueryTypes, Fluent
    PROVE  QuerySaysWhatIsAsked'
<1>1. CASE From
  BY <1>1 DEF From, Built, NewQuery, AskedNothing, QuerySaysWhatIsAsked, Fits
<1>2. CASE SoftDelete \/ WithDeleted \/ OnlyDeleted \/ Unfiltered \/ \E d \in Databases : On(d)
  <2>1. q'.cond = q.cond /\ q'.err = q.err /\ asked' = asked
    BY <1>2 DEF SoftDelete, WithDeleted, OnlyDeleted, Unfiltered, On, Built, QueryTypes
  <2> QED
    BY <2>1 DEF QuerySaysWhatIsAsked, Fits
<1>3. ASSUME NEW f \in Filters, Where(f)
      PROVE  QuerySaysWhatIsAsked'
  <2>1. f \in Filters \cup Requests /\ f.bound
    BY MutationsAssumption
  <2> QED
    BY <1>3, <2>1, FilterSays DEF Where, Built
<1>4. ASSUME NEW f \in Filters, For(f)
      PROVE  QuerySaysWhatIsAsked'
  <2>1. PICK r : r = Filtered(NewQuery, f)
    OBVIOUS
  <2>2. r \in QueryTypes
    BY <2>1, NewTypes, FilteredTypes
  <2>3. q' = [r EXCEPT !.err = @ \/ f.source = "none"] /\ asked' = f.asks
    BY <1>4, <2>1 DEF For, Built
  <2>4. q'.cond = r.cond /\ (~q'.err => ~r.err)
    BY <2>2, <2>3 DEF QueryTypes
  <2>5. ~r.err => ~f.fails /\ r.cond = f.cond
    BY <2>1 DEF Filtered, NewQuery
  <2>6. ~f.fails => Fits(f.cond, f.asks)
    BY MutationsAssumption DEF CompiledAsAsked
  <2> QED
    BY <2>3, <2>4, <2>5, <2>6 DEF QuerySaysWhatIsAsked, Fits
<1>5. ASSUME NEW u \in Requests, WhereRequest(u)
      PROVE  QuerySaysWhatIsAsked'
  BY <1>5, FilterSays DEF WhereRequest, Where, Built
<1>6. ASSUME NEW c \in Conds, Cond(c)
      PROVE  QuerySaysWhatIsAsked'
  <2>1. q'.cond = c
    BY <1>6 DEF Cond, Built, QueryTypes
  <2>2. CASE c = NoCond
    BY <1>6, <2>1, <2>2 DEF Cond, Built, QuerySaysWhatIsAsked, AskedNothing, Fits
  <2>3. CASE c # NoCond
    <3>1. asked' = [says |-> Meaning[c], silent |-> c \in Silences, legal |-> TRUE]
      BY <1>6, <2>3 DEF Cond, Built
    <3> QED
      BY <2>1, <2>3, <3>1 DEF QuerySaysWhatIsAsked, Fits
  <2> QED
    BY <2>2, <2>3
<1> QED
  BY <1>1, <1>2, <1>3, <1>4, <1>5, <1>6 DEF Fluent

LEMMA NextSays ==
    ASSUME CompiledAsAsked, TypeOK, QuerySaysWhatIsAsked, [Next]_vars
    PROVE  QuerySaysWhatIsAsked'
<1>1. CASE Fluent
  BY <1>1, FluentSays, Typed
<1>2. CASE ~Fluent
  <2>1. UNCHANGED <<q, asked>>
    BY <1>2 DEF Next, vars, Reject, Run, Call, WriteWhere, RefuseWhole, Rewrite, Delete,
                Update, Count, Return, Answered, Others
  <2> QED
    BY <2>1 DEF QuerySaysWhatIsAsked, Fits
<1> QED
  BY <1>1, <1>2

-----------------------------------------------------------------------------
(* The rows a statement finds are those asked for.                         *)

\* The text of a tree that says nothing is empty, or cannot be read.
LEMMA SilenceUnread ==
    ASSUME MutationOK, Rendered, Hopeless
    PROVE  ~Parsed(read)
<1>1. DeadEnd
  BY DEF MutationOK, ShapeOK
<1>2. Malformed = << >> /\ Len(<< >>) # 1
  BY DEF Malformed
<1> QED
  BY <1>1, <1>2 DEF DeadEnd, Parsed

LEMMA FreshUnread ==
    ASSUME MutationOK, builder.text = << >>
    PROVE  ~Parsed(read)
<1>1. read = <<Fresh>>
  BY DEF MutationOK, ShapeOK
<1> QED
  BY <1>1 DEF Parsed, Fresh

LEMMA ReadAsTree ==
    ASSUME MutationOK, Rendered, plain, root # NoCond
    PROVE  Parsed(read) /\ ValueOf(read[1]) = Meaning[root] /\ builder.text # << >>
<1>1. PassOK => TextReadsAsTree
  BY ReadsAsTree
<1> QED
  BY <1>1, FreshUnread DEF MutationOK, TextReadsAsTree

LEMMA ScopeSays ==
    ASSUME NEW deleted \in BOOLEAN
    PROVE  LET s == Scope(deleted)
           IN  /\ s \in Trees /\ s.kind = "leaf" /\ Plain(s) /\ Meaning[s] \in RowValues
               /\ \A r \in Rows : Meaning[s][r] = "true" <=> deleted = (r.gone # NULL)
<1> DEFINE op == IF deleted THEN "IS NOT NULL" ELSE "IS NULL"
<1>1. PICK s : s = Scope(deleted)
  OBVIOUS
<1>2. s \in Trees
  BY <1>1, MutationsAssumption
<1>3. s.kind = "leaf" /\ s.col = "gone" /\ s.op = op /\ s.vals = << >>
  BY <1>1 DEF Scope, Leaf
<1>4. Len(<< >>) = 0 /\ TakesMarks("IS NULL", 0) /\ TakesMarks("IS NOT NULL", 0)
  BY DEF TakesMarks
<1>5. Plain(s)
  BY <1>3, <1>4 DEF Plain
<1>6. Meaning[s] = Predicate("gone", op, << >>) /\ Meaning[s] \in RowValues
  BY <1>2, <1>3, <1>5, MeaningAssumption DEF RowValues
<1>7. \A x : /\ Compare("IS NULL", x, << >>) = SqlIsNull(x)
             /\ Compare("IS NOT NULL", x, << >>) = SqlIsNotNull(x)
  BY DEF Compare
<1>8. ASSUME NEW r \in Rows
      PROVE  Predicate("gone", op, << >>)[r] = IF deleted THEN SqlIsNotNull(r.gone) ELSE SqlIsNull(r.gone)
  BY <1>7 DEF Predicate, Constant
<1>9. \A r \in Rows : Meaning[s][r] = "true" <=> deleted = (r.gone # NULL)
  BY <1>6, <1>8 DEF SqlIsNull, SqlIsNotNull, Decided
<1> QED
  BY <1>1, <1>2, <1>3, <1>5, <1>6, <1>9

LEMMA WithinSays ==
    ASSUME NEW c \in Trees, NEW s \in Trees, Within(c, s) \in Trees
    PROVE  \A r \in Rows : Meaning[Within(c, s)][r] = "true"
                              <=> Meaning[c][r] = "true" /\ Meaning[s][r] = "true"
<1>1. PICK w : w = Within(c, s)
  OBVIOUS
<1>2. /\ w.kind = "group" /\ ~w.or /\ w.conds = <<c, s>>
  BY <1>1 DEF Within, Group
<1>3. <<c, s>> # << >> /\ DOMAIN <<c, s>> = {1, 2} /\ <<c, s>>[1] = c /\ <<c, s>>[2] = s
  <2>1. DOMAIN <<c, s>> = 1..2 /\ 1..2 = {1, 2}
    OBVIOUS
  <2> QED
    BY <2>1
<1>4. {Meaning[w.conds[i]] : i \in DOMAIN w.conds} = {Meaning[c], Meaning[s]}
  BY <1>2, <1>3
<1>5. Plain(w)
  BY <1>2, <1>3 DEF Plain
<1>6. Meaning[w] = Conj({Meaning[c], Meaning[s]})
  <2>1. w \in Trees
    BY <1>1
  <2>2. Meaning[w] = Conj({Meaning[w.conds[i]] : i \in DOMAIN w.conds})
    BY <1>2, <1>5, <2>1, MeaningAssumption
  <2> QED
    BY <1>4, <2>2
<1>7. Meaning[c] \in [Rows -> Truth] /\ Meaning[s] \in [Rows -> Truth]
  BY MeaningAssumption
<1>8. \A r \in Rows : {v[r] : v \in {Meaning[c], Meaning[s]}} = {Meaning[c][r], Meaning[s][r]}
  OBVIOUS
<1>9. \A x, y \in Truth : And3({x, y}) = "true" <=> x = "true" /\ y = "true"
  BY DEF And3, Truth
<1>10. \A r \in Rows : Meaning[w][r] = And3({Meaning[c][r], Meaning[s][r]})
  BY <1>6, <1>8 DEF Conj
<1>11. ASSUME NEW r \in Rows
       PROVE  Meaning[w][r] = "true" <=> Meaning[c][r] = "true" /\ Meaning[s][r] = "true"
  <2>1. Meaning[c][r] \in Truth /\ Meaning[s][r] \in Truth
    BY <1>7
  <2> QED
    BY <1>9, <1>10, <2>1
<1> QED
  BY <1>1, <1>11

LEMMA FoundIsMeant ==
    ASSUME MutationOK, QuerySaysWhatIsAsked, NEW of, Sent(of), Runs,
           plain \/ asked.silent
    PROVE  Found = Meant
<1>1. /\ table \in SUBSET Rows /\ q.cond \in Trees \cup {NoCond} /\ asked \in Asking
      /\ q.scope \in {"active", "all", "deleted"} /\ q.cond \in Offered
  <2>1. \A f \in Filters \cup Requests : f.cond \in Trees \cup {NoCond}
    BY MutationsAssumption
  <2>2. Offered \subseteq Trees \cup {NoCond}
    BY <2>1, MutationsAssumption DEF Offered
  <2> QED
    BY <2>2, Typed DEF MutationOK, Tables, QueryTypes
<1>2. /\ Rendered /\ root = EffectiveCond /\ ~q.err
      /\ builder.text = << >> \/ Parsed(read)
  BY DEF Sent, Runs, MutationOK, StatementOK
<1>3. Fits(q.cond, asked)
  BY <1>2 DEF QuerySaysWhatIsAsked
<1>4. /\ asked.legal /\ (asked.silent <=> q.cond \in Silences \cup {NoCond})
      /\ (~asked.silent => Meaning[q.cond] = asked.says)
  BY <1>3 DEF Fits
<1> DEFINE s == Scope(q.scope = "deleted")
<1>5. /\ s \in Trees /\ s.kind = "leaf" /\ Plain(s)
      /\ \A r \in Rows : Meaning[s][r] = "true" <=> (q.scope = "deleted") = (r.gone # NULL)
  BY ScopeSays
<1> HIDE DEF s
<1>6. NoCond.kind = "nil" /\ NoCond \notin Trees
  BY RenderingAssumption, TreeTypes DEF NoCond
<1>7. now = NoCond \/ now.kind = "nil"
  BY <1>2 DEF Rendered
<1>8. CASE ~Scoped
  <2>1. root = q.cond /\ \A r : InScope(r)
    BY <1>2, <1>8 DEF EffectiveCond, Scoped, InScope
  <2>2. CASE asked.silent
    <3>1. builder.text = << >>
      <4>1. CASE q.cond = NoCond
        BY <2>1, <4>1 DEF MutationOK, ShapeOK
      <4>2. CASE q.cond \in Silences
        BY <1>2, <2>1, <4>2, SilenceUnread DEF Hopeless
      <4> QED
        BY <1>4, <2>2, <4>1, <4>2
    <3> QED
      BY <1>4, <2>1, <2>2, <3>1 DEF Found, Meant, AskedFor
  <2>3. CASE ~asked.silent
    <3>1. root # NoCond /\ plain
      BY <1>4, <2>1, <2>3
    <3>2. ValueOf(read[1]) = asked.says /\ builder.text # << >>
      BY <1>2, <1>4, <2>1, <2>3, <3>1, ReadAsTree
    <3> QED
      BY <1>4, <2>1, <2>3, <3>2 DEF Found, Meant, AskedFor
  <2> QED
    BY <2>2, <2>3
<1>9. CASE Scoped
  <2>1. \A r : InScope(r) <=> (q.scope = "deleted") = (r.gone # NULL)
    BY <1>9 DEF InScope, Scoped
  <2>2. CASE q.cond = NoCond
    <3>1. root = s
      BY <1>2, <1>9, <2>2 DEF EffectiveCond, Scoped, s
    <3>2. plain /\ root # NoCond
      BY <1>5, <1>6, <3>1 DEF MutationOK, ShapeOK
    <3>3. ValueOf(read[1]) = Meaning[s] /\ builder.text # << >>
      BY <1>2, <3>1, <3>2, ReadAsTree
    <3> QED
      BY <1>1, <1>4, <1>5, <2>1, <2>2, <3>3 DEF Found, Meant, AskedFor
  <2>3. CASE q.cond # NoCond
    <3>1. root = Within(q.cond, s) /\ root \in Trees
      <4>1. root = Within(q.cond, s)
        BY <1>2, <1>9, <2>3 DEF EffectiveCond, Scoped, s
      <4> QED
        BY <1>1, <2>3, <4>1, MutationsAssumption DEF s
    <3>2. /\ root.kind = "group" /\ root.conds = <<q.cond, s>>
          /\ Len(root.conds) = 2 /\ root.conds[1] = q.cond
      BY <3>1 DEF Within, Group
    <3>3. CASE asked.silent
      <4>1. Hopeless
        BY <1>4, <2>3, <3>2, <3>3 DEF Hopeless
      <4>2. builder.text # << >>
        BY <1>7, <3>2, <1>6 DEF MutationOK, ShapeOK
      <4> QED
        BY <1>2, <4>1, <4>2, SilenceUnread
    <3>4. CASE ~asked.silent
      <4>1. ValueOf(read[1]) = Meaning[root] /\ builder.text # << >>
        BY <1>2, <1>6, <3>1, <3>4, ReadAsTree
      <4>2. \A r \in Rows : Meaning[root][r] = "true"
                               <=> asked.says[r] = "true" /\ Meaning[s][r] = "true"
        BY <1>1, <1>4, <1>5, <2>3, <3>1, <3>4, WithinSays
      <4> QED
        BY <1>1, <1>4, <1>5, <2>1, <3>4, <4>1, <4>2 DEF Found, Meant, AskedFor
    <3> QED
      BY <3>3, <3>4
  <2> QED
    BY <2>2, <2>3
<1> QED
  BY <1>8, <1>9

-----------------------------------------------------------------------------
(* The theorems.                                                           *)

\* A query that is not refused holds the condition asked for last, in whatever
\* order it is built, if each filter by itself compiles to what it asks for.
THEOREM MutationsSayWhatIsAsked ==
    ASSUME CompiledAsAsked
    PROVE  Spec => []QuerySaysWhatIsAsked
<1>1. Init => TypeOK /\ QuerySaysWhatIsAsked
  BY InitMutation, InitSays DEF MutationOK
<1>2. TypeOK /\ QuerySaysWhatIsAsked /\ [Next]_vars => QuerySaysWhatIsAsked'
  BY NextSays
<1> QED
  BY <1>1, <1>2, MutationsTypes, PTL DEF Spec

\* A reply of what was done is one of Delete, Update or Count.
LEMMA Answers ==
    ASSUME Next, reply'.what \notin {"none", "refused"}
    PROVE  Delete \/ Update \/ Count
<1>1. Silence.what = "none" /\ Reply("refused", NoSet, 0).what = "refused"
  BY DEF Silence, Reply
<1>2. Fluent \/ Others => reply' = Silence
  BY DEF Fluent, Idle, Others
<1>3. Run => reply' = Silence \/ reply' = Reply("refused", NoSet, 0)
  BY DEF Run, Call
<1>4. WriteWhere \/ Rewrite \/ Answered => reply' = Silence
  BY DEF WriteWhere, Rewrite, Answered
<1>5. Reject \/ RefuseWhole => reply' = Reply("refused", NoSet, 0)
  BY DEF Reject, RefuseWhole
<1> QED
  BY <1>1, <1>2, <1>3, <1>4, <1>5 DEF Next

Touches ==
    plain \/ asked.silent =>
       /\ reply'.what = "deleted" => table' = table \ Meant
       /\ reply'.what = "updated" => table' = Updated(reply'.set)
       /\ reply'.what = "failed" => \/ UNCHANGED table \/ table' = table \ Meant
                                    \/ table' = Updated(reply'.set)
       /\ reply'.what = "counted" => reply'.n = Cardinality(Meant)

LEMMA StepTouches ==
    MutationOK /\ QuerySaysWhatIsAsked /\ [Next]_vars => [Touches]_vars
<1> SUFFICES ASSUME MutationOK, QuerySaysWhatIsAsked, Next, plain \/ asked.silent
             PROVE  Touches
  BY DEF Touches
<1>1. CASE Delete
  <2>1. Sent("delete") /\ (Runs => Found = Meant)
    BY <1>1, FoundIsMeant DEF Delete
  <2> QED
    BY <1>1, <2>1, DeleteDoes DEF Touches, Reply
<1>2. CASE Update
  <2>1. Sent("update") /\ (Runs => Found = Meant)
    BY <1>2, FoundIsMeant DEF Update
  <2> QED
    BY <1>2, <2>1, UpdateDoes DEF Touches, Reply, Updated
<1>3. CASE Count
  <2>1. Sent("count") /\ (Runs => Found = Meant)
    BY <1>3, FoundIsMeant DEF Count
  <2> QED
    BY <1>3, <2>1, CountDoes DEF Touches, Reply
<1>4. CASE reply'.what \in {"none", "refused"}
  BY <1>4 DEF Touches
<1> QED
  BY <1>1, <1>2, <1>3, <1>4, Answers

\* Whatever calls built the query, for any filters, trees, rows and assignments:
\* Delete, Update and Count touch the rows asked for and no other.
THEOREM MutationsTouchWhatIsMeant ==
    ASSUME CompiledAsAsked
    PROVE  Spec => StatementsTouchWhatIsMeant
<1>1. StatementsTouchWhatIsMeant <=> [][Touches]_vars
  BY DEF StatementsTouchWhatIsMeant, Touches
<1>2. Spec => []MutationOK
  BY InitMutation, NextMutation, PTL DEF Spec
<1> QED
  BY <1>1, <1>2, MutationsSayWhatIsAsked, StepTouches, PTL DEF Spec

Consented ==
    reply'.what \in {"deleted", "updated", "failed"} /\ asked.silent
       => \/ UNCHANGED table \/ q.unfiltered
          \/ q.soft /\ q.scope # "all"

LEMMA StepConsented ==
    MutationOK /\ QuerySaysWhatIsAsked /\ [Next]_vars => [Consented]_vars
<1> SUFFICES ASSUME MutationOK, QuerySaysWhatIsAsked, Next, ~Scoped, asked.silent,
                    reply'.what \in {"deleted", "updated", "failed"}, table' # table
             PROVE  q.unfiltered
  BY DEF Consented, Scoped
<1>1. Delete \/ Update
  BY Answers, CountDoes
<1>2. PICK of \in {"delete", "update"} : Sent(of)
  BY <1>1 DEF Delete, Update
<1>3. Runs
  BY <1>1, DeleteDoes, UpdateDoes
<1>4. call.of = of /\ Rendered /\ ~Unguarded /\ root = q.cond /\ ~q.err
  BY <1>2 DEF Sent, MutationOK, StatementOK, EffectiveCond, Scoped
<1>5. q.cond \in Silences \cup {NoCond}
  BY <1>4 DEF QuerySaysWhatIsAsked, Fits
<1>6. builder.text = << >>
  <2>1. CASE q.cond = NoCond
    BY <1>4, <2>1 DEF MutationOK, ShapeOK
  <2>2. CASE q.cond \in Silences
    BY <1>3, <1>4, <2>2, SilenceUnread DEF Hopeless, Runs
  <2> QED
    BY <1>5, <2>1, <2>2
<1> QED
  BY <1>2, <1>4, <1>6 DEF Unguarded

\* With nothing asked for and no scope, no row is touched without Unfiltered: the
\* guard of Delete and Update, which looks at the text, is never passed by a tree
\* that says nothing.
THEOREM MutationsWholeTable ==
    ASSUME CompiledAsAsked
    PROVE  Spec => WholeTableNeedsConsent
<1>1. WholeTableNeedsConsent <=> [][Consented]_vars
  BY DEF WholeTableNeedsConsent, Consented
<1>2. Spec => []MutationOK
  BY InitMutation, NextMutation, PTL DEF Spec
<1> QED
  BY <1>1, <1>2, MutationsSayWhatIsAsked, StepConsented, PTL DEF Spec
=============================================================================
