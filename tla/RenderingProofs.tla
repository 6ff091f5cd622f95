-------------------------- MODULE RenderingProofs ---------------------------
(***************************************************************************)
(* What every step of the render pass keeps, for any trees and values: the *)
(* types, and the numbers.  MutationsProofs and StatementsProofs cite      *)
(* these of one WHERE clause and of a statement's clauses.                   *)
(***************************************************************************)
EXTENDS Rendering, SequenceTheorems, TLAPS

Builders == [text : Seq(Token), marks : MarkSeqs, args : Seq(Values), n : Nat]
Composite == {c \in TreesOver(Trees) : c.kind \in {"group", "exists"}}
Frames == {f \in [in : Composite, at : Nat] : f.at \in 1..Len(Parts(f.in))}

RenderingTypeOK ==
    /\ builder \in Builders
    /\ \/ now \in TreesOver(Trees) \cup {NoCond}
       \/ \E c \in Composite : c.kind = "exists" /\ now = Subquery(c)
    /\ stack \in Seq(Frames)

\* The numbers run on from start, and the arguments are those meant.
Numbered(start) ==
    /\ Len(builder.marks) = Len(builder.args)
    /\ builder.n = start + Len(builder.args)
    /\ \A i \in DOMAIN builder.marks :
          builder.marks[i] = [n |-> start + i, v |-> builder.args[i]]

-----------------------------------------------------------------------------
(* Sequences, and what is in a tree.                                       *)

LEMMA ElementIn ==
    ASSUME NEW S, NEW s \in Seq(S), NEW j \in DOMAIN s
    PROVE  s[j] \in S /\ j \in Nat /\ j >= 1 /\ j <= Len(s)
OBVIOUS

\* A part of a sequence.
LEMMA PartOf ==
    ASSUME NEW S, NEW s \in Seq(S), NEW m \in Nat, NEW n \in Nat,
           1 <= m, n <= Len(s), m <= n + 1
    PROVE  /\ SubSeq(s, m, n) \in Seq(S)
           /\ Len(SubSeq(s, m, n)) = n + 1 - m
           /\ \A i \in 1..(n + 1 - m) : SubSeq(s, m, n)[i] = s[m + i - 1]
<1>1. CASE n < m
  BY <1>1
<1>2. CASE m <= n
  <2>1. \A i \in m..n : s[i] \in S
    OBVIOUS
  <2>2. /\ SubSeq(s, m, n) \in Seq(S)
        /\ Len(SubSeq(s, m, n)) = IF m <= n THEN n - m + 1 ELSE 0
        /\ \A i \in 1..n - m + 1 : SubSeq(s, m, n)[i] = s[m + i - 1]
    BY <2>1, SubSeqProperties
  <2> QED
    BY <1>2, <2>2
<1> QED
  BY <1>1, <1>2

LEMMA TreeTypes ==
    ASSUME NEW c \in TreesOver(Trees)
    PROVE  /\ c.kind \in {"leaf", "raw", "exists", "group"}
           /\ c.kind = "leaf" => /\ c.col \in Fields /\ c.op \in Operators
                                 /\ c.vals \in Seq(Values)
           /\ c.kind = "raw" => c.text \in Seq(Token) /\ c.args \in Seq(Values)
           /\ c.kind = "exists" => c.negate \in BOOLEAN /\ c.inner \in Trees \cup {NoCond}
           /\ c.kind = "group" => c.or \in BOOLEAN /\ c.conds \in Seq(Trees)
BY DEF TreesOver

LEMMA RawTree ==
    ASSUME NEW text \in Seq(Token), NEW args \in Seq(Values)
    PROVE  Raw(text, args) \in TreesOver(Trees)
BY DEF Raw, TreesOver

LEMMA TokenTypes ==
    ASSUME NEW t \in Token
    PROVE  /\ t.t = "atom" => t \in Predicates
           /\ t.t # "atom" => t.t \in Symbols
<1>1. t \in Predicates => t.t = "atom"
  BY DEF Predicates
<1>2. t \in [t : Symbols] => t.t \in Symbols
  OBVIOUS
<1>3. "atom" \notin Symbols
  BY DEF Symbols
<1> QED
  BY <1>1, <1>2, <1>3 DEF Token

AtomColumns == Fields \cup {""}
AtomOps     == Operators \cup Constants \cup {"rank"}

LEMMA AtomToken ==
    ASSUME NEW col \in AtomColumns, NEW op \in AtomOps, NEW marks \in MarkSeqs
    PROVE  Atom(col, op, marks) \in Token
BY DEF Atom, Token, Predicates, AtomColumns, AtomOps

LEMMA OneElement ==
    ASSUME NEW S, NEW x \in S
    PROVE  <<x>> \in Seq(S) /\ Len(<<x>>) = 1 /\ <<x>>[1] = x
OBVIOUS

LEMMA CorrelationTree == Correlation \in TreesOver(Trees)
<1> DEFINE none == << >>
<1>1. none \in MarkSeqs /\ none \in Seq(Values)
  BY DEF MarkSeqs
<1> HIDE DEF none
<1>2. "" \in AtomColumns /\ "1=1" \in AtomOps
  BY DEF AtomColumns, AtomOps, Constants
<1>3. <<Atom("", "1=1", none)>> \in Seq(Token)
  BY <1>1, <1>2, AtomToken, OneElement
<1>4. Raw(<<Atom("", "1=1", none)>>, none) \in TreesOver(Trees)
  BY <1>1, <1>3, RawTree
<1> QED
  BY <1>4 DEF Correlation, none

LEMMA PartTypes ==
    ASSUME NEW c \in Composite
    PROVE  Parts(c) \in Seq(TreesOver(Trees))
<1>1. CASE c.kind = "group"
  <2>1. c.conds \in Seq(Trees)
    BY <1>1, TreeTypes DEF Composite
  <2> QED
    BY <1>1, <2>1, RenderingAssumption, SeqMonotonic DEF Parts
<1>2. CASE c.kind = "exists"
  <2>1. c.inner \in Trees \cup {NoCond}
    BY <1>2, TreeTypes DEF Composite
  <2>2. c.inner # NoCond => c.inner \in TreesOver(Trees)
    BY <2>1, RenderingAssumption
  <2> QED
    BY <1>2, <2>2, CorrelationTree DEF Parts
<1> QED
  BY <1>1, <1>2 DEF Composite

-----------------------------------------------------------------------------
(* What the pass writes.                                                   *)

\* A symbol binds nothing.
LEMMA SymbolPut ==
    ASSUME builder \in Builders, NEW s \in Symbols, PutSymbol(s)
    PROVE  /\ builder' \in Builders
           /\ builder'.text = Append(builder.text, Sym(s))
           /\ builder'.marks = builder.marks /\ builder'.args = builder.args
           /\ builder'.n = builder.n
<1>1. Sym(s) \in Token
  BY DEF Sym, Token
<1>2. Append(builder.text, Sym(s)) \in Seq(Token)
  BY <1>1 DEF Builders
<1> QED
  BY <1>2 DEF PutSymbol, Builders

LEMMA MarkTypes ==
    ASSUME builder \in Builders, NEW vals \in Seq(Values)
    PROVE  /\ MarksFor(vals) \in MarkSeqs /\ Len(MarksFor(vals)) = Len(vals)
           /\ DOMAIN MarksFor(vals) = DOMAIN vals
           /\ \A i \in DOMAIN vals : MarksFor(vals)[i] = [n |-> builder.n + i, v |-> vals[i]]
<1>1. \A i \in 1..Len(vals) : [n |-> builder.n + i, v |-> vals[i]] \in [n : Nat, v : Values]
  BY DEF Builders
<1>2. DOMAIN vals = 1..Len(vals) /\ Len(vals) \in Nat
  OBVIOUS
<1>3. MarksFor(vals) = [i \in 1..Len(vals) |-> [n |-> builder.n + i, v |-> vals[i]]]
  BY <1>2 DEF MarksFor
<1> DEFINE f == [i \in 1..Len(vals) |-> [n |-> builder.n + i, v |-> vals[i]]]
<1>4. f \in [1..Len(vals) -> [n : Nat, v : Values]]
  BY <1>1
<1>5. f \in Seq([n : Nat, v : Values]) /\ Len(f) = Len(vals)
  BY <1>2, <1>4
<1> QED
  BY <1>2, <1>3, <1>5 DEF MarkSeqs

\* A predicate binds vals at the next placeholders.
LEMMA PredicatePut ==
    ASSUME builder \in Builders, NEW col \in AtomColumns, NEW op \in AtomOps,
           NEW vals \in Seq(Values), PutPredicate(col, op, vals)
    PROVE  /\ builder' \in Builders
           /\ builder'.text = Append(builder.text, Atom(col, op, MarksFor(vals)))
           /\ \A k \in Nat : Numbered(k) => Numbered(k)'
<1>0. /\ MarksFor(vals) \in MarkSeqs /\ Len(vals) \in Nat
      /\ builder.text \in Seq(Token) /\ builder.marks \in MarkSeqs
      /\ builder.args \in Seq(Values) /\ builder.n \in Nat
  BY MarkTypes DEF Builders
<1>1. Atom(col, op, MarksFor(vals)) \in Token
  BY <1>0, AtomToken
<1>2. /\ Append(builder.text, Atom(col, op, MarksFor(vals))) \in Seq(Token)
      /\ builder.marks \o MarksFor(vals) \in MarkSeqs
      /\ builder.args \o vals \in Seq(Values)
      /\ builder.n + Len(vals) \in Nat
  BY <1>0, <1>1 DEF MarkSeqs
<1>3. builder' \in Builders
  BY <1>2 DEF PutPredicate, Builders
<1>4. ASSUME NEW k \in Nat, Numbered(k)
      PROVE  Numbered(k)'
  <2> DEFINE m == Len(builder.args)
             ms == builder.marks \o MarksFor(vals)
             as == builder.args \o vals
  <2>1. /\ m \in Nat /\ k \in Nat /\ Len(builder.marks) = m /\ Len(vals) \in Nat
        /\ builder.n = k + m
        /\ \A i \in 1..m : builder.marks[i] = [n |-> k + i, v |-> builder.args[i]]
    BY <1>4 DEF Numbered, Builders, MarkSeqs
  <2>2. Len(ms) = m + Len(vals) /\ Len(as) = m + Len(vals)
    <3>1. Len(MarksFor(vals)) = Len(vals)
      BY MarkTypes
    <3>2. Len(ms) = Len(builder.marks) + Len(MarksFor(vals))
      BY <1>0, ConcatProperties DEF MarkSeqs
    <3>3. Len(as) = Len(builder.args) + Len(vals)
      BY <1>0, ConcatProperties
    <3> QED
      BY <2>1, <3>1, <3>2, <3>3
  <2>3. ASSUME NEW i \in 1..(m + Len(vals))
        PROVE  ms[i] = [n |-> k + i, v |-> as[i]]
    <3>1. CASE i <= m
      BY <2>1, <3>1, MarkTypes DEF Builders, MarkSeqs
    <3>2. CASE i > m
      <4>1. i - m \in DOMAIN vals
        BY <2>1, <3>2
      <4>2. ms[i] = MarksFor(vals)[i - m] /\ as[i] = vals[i - m]
        BY <2>1, <3>2, MarkTypes DEF Builders, MarkSeqs
      <4>3. MarksFor(vals)[i - m] = [n |-> builder.n + (i - m), v |-> vals[i - m]]
        BY <4>1, MarkTypes
      <4>4. builder.n + (i - m) = k + i
        BY <2>1
      <4>5. MarksFor(vals)[i - m] = [n |-> k + i, v |-> vals[i - m]]
        BY <4>3, <4>4
      <4> HIDE DEF ms, as
      <4> QED
        BY <4>2, <4>5
    <3>3. i \in Nat /\ m \in Nat
      BY <2>1
    <3> HIDE DEF ms, as, m
    <3> QED
      BY <3>1, <3>2, <3>3
  <2>4. builder'.marks = ms /\ builder'.args = as /\ builder'.n = builder.n + Len(vals)
    BY DEF PutPredicate
  <2>5. ms \in MarkSeqs
    BY <1>2
  <2> HIDE DEF ms, as, m
  <2>6. DOMAIN ms = 1..(m + Len(vals))
    BY <2>2, <2>5 DEF MarkSeqs
  <2>7. builder.n + Len(vals) = k + (m + Len(vals))
    BY <2>1
  <2> QED
    BY <2>2, <2>3, <2>4, <2>6, <2>7 DEF Numbered
<1> QED
  BY <1>3, <1>4 DEF PutPredicate

-----------------------------------------------------------------------------
(* The steps.                                                              *)

\* What every step does to the builder.
Continued ==
    /\ builder' \in Builders
    /\ \A k \in Nat : Numbered(k) => Numbered(k)'
    /\ \/ builder' = builder
       \/ \E t \in Token : builder'.text = Append(builder.text, t)

LEMMA SymbolContinues ==
    ASSUME builder \in Builders, NEW s \in Symbols, PutSymbol(s)
    PROVE  Continued
<1>1. Sym(s) \in Token
  BY DEF Sym, Token
<1> QED
  BY <1>1, SymbolPut DEF Continued, Numbered

LEMMA PredicateContinues ==
    ASSUME builder \in Builders, NEW col \in AtomColumns, NEW op \in AtomOps,
           NEW vals \in Seq(Values), PutPredicate(col, op, vals)
    PROVE  Continued
<1>1. Atom(col, op, MarksFor(vals)) \in Token
  BY MarkTypes, AtomToken
<1> QED
  BY <1>1, PredicatePut DEF Continued

LEMMA UnchangedContinues ==
    ASSUME builder \in Builders, UNCHANGED builder
    PROVE  Continued
BY DEF Continued, Numbered

LEMMA FrameTypes ==
    ASSUME NEW f \in Frames
    PROVE  /\ f.in \in Composite /\ Parts(f.in) \in Seq(TreesOver(Trees))
           /\ f.at \in Nat /\ f.at >= 1 /\ f.at <= Len(Parts(f.in))
           /\ Len(Parts(f.in)) \in Nat
<1>1. f.in \in Composite /\ f.at \in Nat /\ f.at \in 1..Len(Parts(f.in))
  BY DEF Frames
<1>2. Parts(f.in) \in Seq(TreesOver(Trees))
  BY <1>1, PartTypes
<1> QED
  BY <1>1, <1>2

\* A frame begins at the first of its parts.
LEMMA FrameBegins ==
    ASSUME NEW c \in Composite, Len(Parts(c)) >= 1
    PROVE  [in |-> c, at |-> 1] \in Frames
<1> DEFINE f == [in |-> c, at |-> 1]
<1>1. f.in = c /\ f.at = 1 /\ f \in [in : Composite, at : Nat]
  OBVIOUS
<1>2. Len(Parts(c)) \in Nat
  BY PartTypes
<1> HIDE DEF f
<1>3. f \in Frames
  BY <1>1, <1>2 DEF Frames
<1> QED
  BY <1>3 DEF f

LEMMA TopTypes ==
    ASSUME stack \in Seq(Frames), stack # << >>
    PROVE  Top \in Frames /\ Len(stack) \in Nat /\ Len(stack) >= 1
BY DEF Top

LEMMA SubqueryParts ==
    ASSUME NEW c \in Composite, c.kind = "exists"
    PROVE  Len(Parts(c)) >= 1 /\ Parts(c)[1] = Correlation
<1>1. Len(<<Correlation>>) = 1 /\ <<Correlation>>[1] = Correlation
  OBVIOUS
<1>2. Len(<<Correlation, c.inner>>) = 2 /\ <<Correlation, c.inner>>[1] = Correlation
  OBVIOUS
<1> QED
  BY <1>1, <1>2 DEF Parts

-----------------------------------------------------------------------------
LEMMA NowIsTree ==
    ASSUME RenderingTypeOK, now.kind # "nil", now.kind # "subquery"
    PROVE  now \in TreesOver(Trees)
<1>1. now # NoCond
  BY DEF NoCond
<1>2. \A c : now # Subquery(c)
  BY DEF Subquery
<1> QED
  BY <1>1, <1>2 DEF RenderingTypeOK

LEMMA LeafStep ==
    ASSUME RenderingTypeOK, VisitLeaf
    PROVE  RenderingTypeOK' /\ Continued
<1>1. now \in TreesOver(Trees) /\ builder \in Builders
  BY NowIsTree DEF RenderingTypeOK, VisitLeaf
<1>2. now.col \in AtomColumns /\ now.op \in AtomOps /\ now.vals \in Seq(Values)
  BY <1>1, TreeTypes DEF VisitLeaf, AtomColumns, AtomOps
<1>3. "" \in AtomColumns /\ "1=0" \in AtomOps /\ "1=1" \in AtomOps /\ << >> \in Seq(Values)
  BY DEF AtomColumns, AtomOps, Constants
<1>4. Continued
  BY <1>1, <1>2, <1>3, PredicateContinues DEF VisitLeaf
<1> QED
  BY <1>4 DEF RenderingTypeOK, VisitLeaf, Continued

LEMMA RawStep ==
    ASSUME RenderingTypeOK, VisitRaw
    PROVE  RenderingTypeOK' /\ Continued
<1>1. now \in TreesOver(Trees) /\ builder \in Builders /\ stack' = stack
  BY NowIsTree DEF RenderingTypeOK, VisitRaw
<1>2. now.text \in Seq(Token) /\ now.args \in Seq(Values)
  BY <1>1, TreeTypes DEF VisitRaw
<1>3. CASE now.text = << >>
  BY <1>1, <1>3, UnchangedContinues DEF VisitRaw, RenderingTypeOK, Continued
<1>4. CASE now.text # << >>
  <2> DEFINE token == Head(now.text)
             holes == IF token.t = "atom" THEN Len(token.marks) ELSE 0
             k     == IF holes < Len(now.args) THEN holes ELSE Len(now.args)
             given == SubSeq(now.args, 1, k)
             rest  == SubSeq(now.args, k + 1, Len(now.args))
  <2>1. token \in Token /\ Tail(now.text) \in Seq(Token)
    BY <1>2, <1>4
  <2>2. token.t = "atom" => /\ token.col \in AtomColumns /\ token.op \in AtomOps
                            /\ Len(token.marks) \in Nat
    <3>1. token.t = "atom" => token \in Predicates
      BY <2>1, TokenTypes
    <3> HIDE DEF token
    <3>2. token \in Predicates => /\ token.col \in AtomColumns /\ token.op \in AtomOps
                                  /\ token.marks \in MarkSeqs
      BY DEF Predicates, AtomColumns, AtomOps
    <3> QED
      BY <3>1, <3>2 DEF MarkSeqs
  <2>3. /\ IF token.t = "atom" THEN PutPredicate(token.col, token.op, given)
           ELSE PutSymbol(token.t)
        /\ now' = IF Len(now.text) = 1 THEN NoCond ELSE Raw(Tail(now.text), rest)
    BY <1>4 DEF VisitRaw
  <2>4. holes \in Nat
    BY <2>2
  <2> HIDE DEF token, holes
  <2>5. k \in Nat /\ k <= Len(now.args)
    BY <1>2, <2>4
  <2> HIDE DEF k
  <2>6. given \in Seq(Values) /\ rest \in Seq(Values)
    BY <1>2, <2>5, PartOf
  <2> HIDE DEF given, rest
  <2>7. Continued
    BY <1>1, <2>1, <2>2, <2>3, <2>6, TokenTypes, PredicateContinues, SymbolContinues
  <2>8. now' \in TreesOver(Trees) \cup {NoCond}
    BY <2>1, <2>3, <2>6, RawTree
  <2> QED
    BY <1>1, <2>7, <2>8 DEF RenderingTypeOK, Continued
<1> QED
  BY <1>3, <1>4

LEMMA GroupStep ==
    ASSUME RenderingTypeOK, VisitGroup
    PROVE  RenderingTypeOK' /\ Continued
<1>1. now \in Composite /\ builder \in Builders /\ stack \in Seq(Frames)
  BY NowIsTree DEF RenderingTypeOK, VisitGroup, Composite
<1>2. Parts(now) = now.conds /\ now.conds \in Seq(TreesOver(Trees))
  BY <1>1, PartTypes DEF Parts, VisitGroup
<1>3. CASE Len(now.conds) = 0
  BY <1>1, <1>3, UnchangedContinues DEF VisitGroup, RenderingTypeOK, Continued
<1>4. CASE Len(now.conds) >= 1
  <2>1. now' = now.conds[1] /\ now' \in TreesOver(Trees)
    BY <1>2, <1>4 DEF VisitGroup
  <2>2. CASE Len(now.conds) = 1
    BY <1>1, <2>1, <2>2, UnchangedContinues DEF VisitGroup, RenderingTypeOK, Continued
  <2>3. CASE Len(now.conds) # 1
    <3>1. PutSymbol("(") /\ stack' = Append(stack, [in |-> now, at |-> 1])
      BY <1>4, <2>3 DEF VisitGroup
    <3>2. stack' \in Seq(Frames)
      BY <1>1, <1>2, <1>4, <3>1, FrameBegins
    <3>3. Continued
      BY <1>1, <3>1, SymbolContinues DEF Symbols
    <3> QED
      BY <2>1, <3>2, <3>3 DEF RenderingTypeOK, Continued
  <2> QED
    BY <2>2, <2>3
<1> QED
  BY <1>2, <1>3, <1>4

LEMMA ExistsStep ==
    ASSUME RenderingTypeOK, VisitExists
    PROVE  RenderingTypeOK' /\ Continued
<1>1. now \in Composite /\ builder \in Builders /\ stack' \in Seq(Frames)
  BY NowIsTree DEF RenderingTypeOK, VisitExists, Composite
<1>2. Continued
  BY <1>1, SymbolContinues DEF VisitExists, Symbols
<1> QED
  BY <1>1, <1>2 DEF RenderingTypeOK, VisitExists, Continued

LEMMA SubqueryStep ==
    ASSUME RenderingTypeOK, VisitSubquery
    PROVE  RenderingTypeOK' /\ Continued
<1>1. now \notin TreesOver(Trees) \cup {NoCond}
  BY TreeTypes DEF VisitSubquery, NoCond
<1>2. PICK c \in Composite : c.kind = "exists" /\ now = Subquery(c)
  BY <1>1 DEF RenderingTypeOK
<1>3. now.of = c /\ builder \in Builders /\ stack \in Seq(Frames)
  BY <1>2 DEF Subquery, RenderingTypeOK
<1>4. stack' \in Seq(Frames)
  BY <1>2, <1>3, SubqueryParts, FrameBegins DEF VisitSubquery
<1>5. Continued
  BY <1>3, SymbolContinues DEF VisitSubquery, Symbols
<1> QED
  BY <1>4, <1>5, CorrelationTree DEF RenderingTypeOK, VisitSubquery, Continued

LEMMA JoinStep ==
    ASSUME RenderingTypeOK, Join
    PROVE  RenderingTypeOK' /\ Continued
<1>1. stack \in Seq(Frames) /\ stack # << >> /\ builder \in Builders
  BY DEF RenderingTypeOK, Join
<1>2. Top \in Frames /\ Len(stack) \in 1..Len(stack)
  BY <1>1, TopTypes
<1>3. Continued
  BY <1>1, SymbolContinues DEF Join, Joiner, Symbols
<1>4. now' \in TreesOver(Trees)
  BY <1>2, FrameTypes DEF Join
<1> DEFINE next == [Top EXCEPT !.at = @ + 1]
<1>5. next \in Frames
  <2>1. next \in [in : Composite, at : Nat] /\ next.in = Top.in /\ next.at = Top.at + 1
    BY <1>2 DEF Frames
  <2> HIDE DEF next
  <2>2. next.at \in 1..Len(Parts(next.in))
    BY <1>2, <2>1, FrameTypes DEF Join
  <2> QED
    BY <2>1, <2>2 DEF Frames
<1>6. stack' = [stack EXCEPT ![Len(stack)] = next]
  BY <1>1, <1>2 DEF Join, Top
<1> HIDE DEF next
<1>7. stack' \in Seq(Frames)
  BY <1>1, <1>2, <1>5, <1>6, ExceptSeq
<1> QED
  BY <1>3, <1>4, <1>7 DEF RenderingTypeOK, Continued

LEMMA CloseStep ==
    ASSUME RenderingTypeOK, Close
    PROVE  RenderingTypeOK' /\ Continued
<1>1. stack \in Seq(Frames) /\ stack # << >> /\ builder \in Builders
  BY DEF RenderingTypeOK, Close
<1>2. Continued
  BY <1>1, SymbolContinues DEF Close, Symbols
<1>3. stack' \in Seq(Frames)
  BY <1>1, PartOf DEF Close
<1> QED
  BY <1>2, <1>3 DEF RenderingTypeOK, Close, Continued

\* Whatever is written, a step keeps the types, and the numbering from any start.
LEMMA WriteStep ==
    ASSUME RenderingTypeOK, WriteNext
    PROVE  RenderingTypeOK' /\ Continued
BY LeafStep, RawStep, GroupStep, ExistsStep, SubqueryStep, JoinStep, CloseStep
   DEF WriteNext

\* A pass begins numbered from its start.
LEMMA PassBegins ==
    ASSUME NEW c \in TreesOver(Trees) \cup {NoCond}, NEW k \in Nat, BuildFrom(c, k)
    PROVE  RenderingTypeOK' /\ Numbered(k)'
<1>1. builder' \in Builders /\ stack' \in Seq(Frames)
  BY DEF BuildFrom, Blank, Builders, MarkSeqs
<1>2. now' \in TreesOver(Trees) \cup {NoCond}
  BY DEF BuildFrom
<1>3. Numbered(k)'
  BY DEF Numbered, BuildFrom, Blank
<1> QED
  BY <1>1, <1>2, <1>3 DEF RenderingTypeOK
\* Each mark has the number of its place, and the value of the argument there.
InPlace(marks, args) ==
    /\ marks \in MarkSeqs /\ args \in Seq(Values) /\ Len(marks) = Len(args)
    /\ \A i \in DOMAIN marks : marks[i] = [n |-> i, v |-> args[i]]

\* Marks that are numbered on after those of other arguments.
LEMMA MarksJoined ==
    ASSUME NEW ms1, NEW as1, InPlace(ms1, as1),
           NEW ms2 \in MarkSeqs, NEW as2 \in Seq(Values), Len(ms2) = Len(as2),
           \A i \in DOMAIN ms2 : ms2[i] = [n |-> Len(as1) + i, v |-> as2[i]]
    PROVE  InPlace(ms1 \o ms2, as1 \o as2)
<1> DEFINE m == Len(as1)
           k == Len(as2)
           ms == ms1 \o ms2
           as == as1 \o as2
<1>1. /\ ms1 \in MarkSeqs /\ as1 \in Seq(Values)
      /\ m \in Nat /\ k \in Nat /\ Len(ms1) = m /\ Len(ms2) = k
  BY DEF InPlace, MarkSeqs
<1>2. DOMAIN ms1 = 1..m /\ DOMAIN ms2 = 1..k
  BY <1>1 DEF MarkSeqs
<1>3. /\ ms \in MarkSeqs /\ Len(ms) = m + k
      /\ \A i \in 1..(m + k) : ms[i] = IF i <= m THEN ms1[i] ELSE ms2[i - m]
  <2> DEFINE R == [n : Nat, v : Values]
  <2>1. MarkSeqs = Seq(R)
    BY DEF MarkSeqs
  <2> HIDE DEF R, m, k
  <2>2. ms1 \in Seq(R) /\ ms2 \in Seq(R)
    BY <1>1, <2>1
  <2>3. Len(ms1) = m /\ Len(ms2) = k
    BY <1>1
  <2>4. /\ ms \in Seq(R) /\ Len(ms) = Len(ms1) + Len(ms2)
        /\ \A i \in 1 .. Len(ms1) + Len(ms2) :
              ms[i] = IF i <= Len(ms1) THEN ms1[i] ELSE ms2[i - Len(ms1)]
    BY ONLY <2>2, ConcatProperties
  <2> QED
    BY <2>1, <2>3, <2>4
<1>4. /\ as \in Seq(Values) /\ Len(as) = m + k
      /\ \A i \in 1..(m + k) : as[i] = IF i <= m THEN as1[i] ELSE as2[i - m]
  BY <1>1, ConcatProperties
<1>5. \A i \in 1..m : ms1[i] = [n |-> i, v |-> as1[i]]
  BY <1>2 DEF InPlace
<1>6. \A i \in 1..k : ms2[i] = [n |-> m + i, v |-> as2[i]]
  BY <1>2
<1> HIDE DEF ms, as, m, k
<1>7. ASSUME NEW i \in 1..(m + k)
      PROVE  ms[i] = [n |-> i, v |-> as[i]]
  <2>1. i \in Nat /\ m \in Nat /\ k \in Nat
    BY <1>1
  <2>2. CASE i <= m
    <3>1. i \in 1..m
      BY <2>1, <2>2
    <3>2. ms[i] = ms1[i] /\ as[i] = as1[i]
      BY <1>3, <1>4, <2>2
    <3> QED
      BY <1>5, <3>1, <3>2
  <2>3. CASE ~(i <= m)
    <3>1. i - m \in 1..k /\ m + (i - m) = i
      BY <2>1, <2>3
    <3>2. ms[i] = ms2[i - m] /\ as[i] = as2[i - m]
      BY <1>3, <1>4, <2>3
    <3> QED
      BY <1>6, <3>1, <3>2
  <2> QED
    BY <2>2, <2>3
<1>8. DOMAIN ms = 1..(m + k)
  BY <1>1, <1>3 DEF MarkSeqs
<1> QED
  BY <1>3, <1>4, <1>7, <1>8 DEF InPlace, ms, as
=============================================================================
