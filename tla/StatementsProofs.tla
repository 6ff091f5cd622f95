-------------------------- MODULE StatementsProofs --------------------------
(***************************************************************************)
(* For any conditions, columns, searches and windows: the arguments of a   *)
(* statement reach their placeholders, and a query that is not refused is  *)
(* ordered as asked.                                                       *)
(***************************************************************************)
EXTENDS Statements, RenderingProofs

\* What order holds: terms of columns, and of the searches.
OrderTerms ==
    [rank : {FALSE}, col : {"a"} \cup {Columns[k] : k \in DOMAIN Columns},
     desc : BOOLEAN, search : {0}]
    \cup [rank : {TRUE}, col : {"a"}, desc : {TRUE}, search : Searches]

\* The query: refused once a key was, and until then as asked.
AskedOK ==
    /\ {cond, having} \subseteq Conds \cup {NoCond}
    /\ ~err => order \in Seq(OrderTerms) /\ order = asked

\* A statement whose n-th placeholder is numbered n and bound to the n-th argument.
InOrder(s) ==
    /\ s \in [marks : MarkSeqs, args : Seq(Values)]
    /\ Len(s.marks) = Len(s.args)
    /\ \A i \in DOMAIN s.marks : s.marks[i] = [n |-> i, v |-> s.args[i]]

\* What a statement is of: a window of a page, or a count, which ends early.
CallOK ==
    \/ /\ call.of \in {"list", "seek"} /\ call.limit \in Int /\ call.offset \in Int
       /\ call.limit + 1 \in Values /\ call.offset \in Values
    \/ call.of = "count" /\ pc \notin {"order", "limit"}

Writing == pc \in {"where", "having", "order"}

\* The inductive invariant: the clause being written is numbered from where the
\* arguments sent end, and what was sent is in order.
StatementOK ==
    /\ AskedOK
    /\ RenderingTypeOK
    /\ InOrder(sent)
    /\ pc \in {"idle", "where", "having", "order", "limit", "sent"}
    /\ pc \in {"idle", "where"} => sent = Nothing
    /\ pc # "idle" => ~err /\ CallOK
    /\ Writing => Numbered(Len(sent.args))
    /\ at \in Nat /\ (pc = "order" => at <= Len(order))

-----------------------------------------------------------------------------
(* What was sent, and what is added to it.                                 *)

LEMMA AddedInOrder ==
    ASSUME InOrder(sent), NEW marks \in MarkSeqs, NEW args \in Seq(Values),
           Len(marks) = Len(args),
           \A i \in DOMAIN marks : marks[i] = [n |-> Len(sent.args) + i, v |-> args[i]]
    PROVE  InOrder(Added(marks, args)) /\ Len(Added(marks, args).args) \in Nat
<1>1. InPlace(sent.marks, sent.args)
  BY DEF InOrder, InPlace
<1>2. PICK ms, as : ms = sent.marks \o marks /\ as = sent.args \o args
  OBVIOUS
<1>3. InPlace(ms, as)
  BY <1>1, <1>2, MarksJoined
<1>4. Added(marks, args) = [marks |-> ms, args |-> as]
  BY <1>2 DEF Added
<1>5. /\ ms \in MarkSeqs /\ as \in Seq(Values) /\ Len(ms) = Len(as)
      /\ \A i \in DOMAIN ms : ms[i] = [n |-> i, v |-> as[i]]
  BY <1>3 DEF InPlace
<1>6. PICK a : a = Added(marks, args)
  OBVIOUS
<1>7. a = [marks |-> ms, args |-> as] /\ a.marks = ms /\ a.args = as
  BY <1>4, <1>6
<1>8. a \in [marks : MarkSeqs, args : Seq(Values)]
  BY <1>5, <1>7
<1>9. Len(as) \in Nat
  BY <1>5, LenProperties
<1>10. InOrder(a)
  BY <1>5, <1>7, <1>8 DEF InOrder
<1> QED
  BY <1>6, <1>7, <1>9, <1>10

\* The clause that is written continues what was sent.
LEMMA ClauseInOrder ==
    ASSUME InOrder(sent), builder \in Builders, Numbered(Len(sent.args))
    PROVE  /\ InOrder(Added(builder.marks, builder.args))
           /\ InOrder(WithBuilt)
           /\ Len(Added(builder.marks, builder.args).args) \in Nat
           /\ Len(WithBuilt.args) \in Nat
<1>1. builder.marks \in MarkSeqs /\ builder.args \in Seq(Values)
  BY DEF Builders
<1>2. Len(sent.args) \in Nat
  BY DEF InOrder
<1> QED
  BY <1>1, <1>2, AddedInOrder DEF Numbered, WithBuilt

\* The conditions of a query, and the seek under them, are trees.
LEMMA CondTypes ==
    ASSUME AskedOK
    PROVE  /\ cond \in TreesOver(Trees) \cup {NoCond}
           /\ having \in TreesOver(Trees) \cup {NoCond}
BY StatementsAssumption, RenderingAssumption DEF AskedOK

LEMMA SeekTypes ==
    ASSUME AskedOK, NEW c \in Seeks
    PROVE  Group(FALSE, IF cond = NoCond THEN <<c>> ELSE <<cond, c>>) \in TreesOver(Trees)
<1>1. c \in Trees /\ (cond = NoCond \/ cond \in Trees)
  BY StatementsAssumption DEF AskedOK
<1>2. <<c>> \in Seq(Trees) /\ (cond \in Trees => <<cond, c>> \in Seq(Trees))
  BY <1>1
<1> DEFINE cs == IF cond = NoCond THEN <<c>> ELSE <<cond, c>>
<1>3. cs \in Seq(Trees)
  BY <1>1, <1>2
<1> HIDE DEF cs
<1>4. Group(FALSE, cs) \in TreesOver(Trees)
  BY <1>3 DEF Group, TreesOver
<1> QED
  BY <1>4 DEF cs

-----------------------------------------------------------------------------
(* Building the query.                                                     *)

LEMMA IdleStep ==
    ASSUME StatementOK, Idle, AskedOK'
    PROVE  StatementOK'
<1>1. RenderingTypeOK'
  BY DEF StatementOK, Idle, RenderingTypeOK, rendering
<1> QED
  BY <1>1 DEF StatementOK, Idle, InOrder, Writing, Numbered, rendering, CallOK

LEMMA ColumnTermTypes ==
    ASSUME NEW col \in {"a"} \cup {Columns[k] : k \in DOMAIN Columns}, NEW desc \in BOOLEAN
    PROVE  ColumnTerm(col, desc) \in OrderTerms
BY DEF ColumnTerm, OrderTerms

LEMMA RankTermTypes ==
    ASSUME NEW s \in Searches
    PROVE  RankTerm(s) \in OrderTerms
BY DEF RankTerm, OrderTerms

\* When every key is allowed, the terms are those asked for.
LEMMA AllowedTerms ==
    ASSUME NEW spec \in Specs, Allowed(spec)
    PROVE  SortTerms(spec) = Wanted(spec) /\ SortTerms(spec) \in Seq(OrderTerms)
<1> DEFINE known(n) == \A i \in 1..n : spec[i].key \in DOMAIN Columns
           n == CHOOSE n \in 0..Len(spec) : known(n) /\ (n = Len(spec) \/ ~known(n + 1))
<1>1. spec \in Seq([key : STRING, desc : BOOLEAN])
  BY StatementsAssumption
<1>2. DOMAIN spec = 1..Len(spec) /\ Len(spec) \in Nat
  BY <1>1
<1>3. \A k \in 0..Len(spec) : known(k)
  BY <1>2 DEF Allowed
<1>4. Len(spec) \in 0..Len(spec) /\ known(Len(spec))
  BY <1>2, <1>3
<1>5. n \in 0..Len(spec) /\ (n = Len(spec) \/ ~known(n + 1))
  BY <1>4
<1>6. n = Len(spec)
  <2> HIDE DEF n
  <2>1. \A x \in 0..Len(spec) : x # Len(spec) => x + 1 \in 0..Len(spec)
    <3>1. \A k \in Nat : \A x \in 0..k : x # k => x + 1 \in 0..k
      OBVIOUS
    <3> QED
      BY <1>2, <3>1
  <2> HIDE DEF known
  <2> QED
    BY <1>3, <1>5, <2>1
<1> DEFINE terms == [i \in 1..Len(spec) |-> ColumnTerm(Columns[spec[i].key], spec[i].desc)]
<1>7. SortTerms(spec) = terms
  BY <1>6 DEF SortTerms
<1>8. Wanted(spec) = terms
  BY <1>2 DEF Wanted, Allowed
<1>9. \A i \in 1..Len(spec) : ColumnTerm(Columns[spec[i].key], spec[i].desc) \in OrderTerms
  <2> TAKE i \in 1..Len(spec)
  <2>1. i \in DOMAIN spec /\ spec[i] \in [key : STRING, desc : BOOLEAN]
    BY <1>1, <1>2, ElementOfSeq
  <2>2. spec[i].desc \in BOOLEAN
    BY <2>1
  <2> QED
    BY <2>1, <2>2, ColumnTermTypes DEF Allowed
<1>10. terms \in Seq(OrderTerms)
  BY <1>2, <1>9
<1> QED
  BY <1>7, <1>8, <1>10

LEMMA QueryStep ==
    ASSUME StatementOK, Build
    PROVE  StatementOK'
<1>1. AskedOK
  BY DEF StatementOK
<1>2. ASSUME NEW added \in Seq(OrderTerms), Terms(added, added, FALSE)
      PROVE  AskedOK'
  <2>1. /\ order' = order \o added /\ asked' = asked \o added
        /\ err' = (err \/ FALSE) /\ cond' = cond /\ having' = having
    BY <1>2 DEF Terms
  <2>2. ~err => order' \in Seq(OrderTerms) /\ order' = asked'
    BY <1>1, <2>1, ConcatProperties DEF AskedOK
  <2> QED
    BY <1>1, <2>1, <2>2 DEF AskedOK
<1>3. ASSUME NEW c \in Conds, Cond(c) \/ Having(c)
      PROVE  AskedOK'
  BY <1>1, <1>3 DEF Cond, Having, AskedOK
<1>4. ASSUME GroupBy
      PROVE  AskedOK'
  BY <1>1, <1>4 DEF GroupBy, AskedOK
<1>5. ASSUME OrderByColumn
      PROVE  AskedOK'
  <2>1. ColumnTerm("a", FALSE) \in OrderTerms
    BY ColumnTermTypes
  <2>2. <<ColumnTerm("a", FALSE)>> \in Seq(OrderTerms)
    BY <2>1, OneElement
  <2> QED
    BY <1>2, <1>5, <2>2 DEF OrderByColumn, AddTerm
<1>6. ASSUME NEW s \in Searches, OrderByRelevance(s)
      PROVE  AskedOK'
  <2>1. <<RankTerm(s)>> \in Seq(OrderTerms)
    BY RankTermTypes, OneElement
  <2> QED
    BY <1>2, <1>6, <2>1 DEF OrderByRelevance, AddTerm
<1>7. ASSUME NEW spec \in Specs, Sort(spec)
      PROVE  AskedOK'
  <2>1. CASE Allowed(spec)
    BY <1>2, <1>7, <2>1, AllowedTerms DEF Sort
  <2>2. CASE ~Allowed(spec)
    BY <1>1, <1>7, <2>2 DEF Sort, Terms, AskedOK
  <2> QED
    BY <2>1, <2>2
<1> QED
  BY <1>3, <1>4, <1>5, <1>6, <1>7, IdleStep DEF Build

-----------------------------------------------------------------------------
(* Sending a statement.                                                    *)

LEMMA NothingInOrder == InOrder(Nothing) /\ Len(Nothing.args) = 0 /\ Len(Nothing.marks) = 0
BY DEF InOrder, Nothing, MarkSeqs

LEMMA StartStep ==
    ASSUME StatementOK, pc = "idle", ~err, NEW of \in {"list", "seek", "count"}, NEW w,
           NEW c \in TreesOver(Trees) \cup {NoCond}, Start(of, w, c),
           \/ of = "count"
           \/ w.limit \in Int /\ w.offset \in Int /\ {w.limit + 1, w.offset} \subseteq Values
    PROVE  StatementOK'
<1>1. pc' = "where" /\ ~err' /\ sent' = Nothing /\ sent' = sent /\ at' = at
  BY DEF Start, StatementOK, query
<1>2. RenderingTypeOK' /\ Numbered(0)'
  BY PassBegins DEF Start
<1>3. AskedOK'
  BY DEF Start, StatementOK, query, AskedOK
<1>4. call'.of = of /\ call'.limit = w.limit /\ call'.offset = w.offset
  BY DEF Start
<1>5. CallOK'
  BY <1>1, <1>4 DEF CallOK
<1>6. Numbered(Len(sent.args))'
  BY <1>1, <1>2, NothingInOrder
<1> QED
  BY <1>1, <1>2, <1>3, <1>5, <1>6, NothingInOrder DEF StatementOK, Writing

LEMMA CallStep ==
    ASSUME StatementOK, Run
    PROVE  StatementOK'
<1>1. AskedOK /\ pc = "idle" /\ ~err
  BY DEF StatementOK, Run
<1>2. cond \in TreesOver(Trees) \cup {NoCond}
  BY <1>1, CondTypes
<1>3. \A w \in Windows : /\ w.limit \in Int /\ w.offset \in Int
                         /\ {w.limit + 1, w.offset} \subseteq Values
  BY StatementsAssumption
<1>4. ASSUME NEW w \in Windows, List(w) \/ SeekFirst(w)
      PROVE  StatementOK'
  BY <1>1, <1>2, <1>3, <1>4, StartStep DEF List, SeekFirst
<1>5. ASSUME NEW w \in Windows, NEW c \in Seeks, SeekPast(w, c)
      PROVE  StatementOK'
  <2> DEFINE under == Group(FALSE, IF cond = NoCond THEN <<c>> ELSE <<cond, c>>)
  <2>1. under \in TreesOver(Trees)
    BY <1>1, SeekTypes
  <2>2. Start("seek", w, under)
    BY <1>5 DEF SeekPast
  <2> HIDE DEF under
  <2> QED
    BY <1>1, <1>3, <2>1, <2>2, StartStep
<1>6. ASSUME Count
      PROVE  StatementOK'
  BY <1>1, <1>2, <1>6, StartStep DEF Count
<1> QED
  BY <1>4, <1>5, <1>6 DEF Run

LEMMA WriteClauseStep ==
    ASSUME StatementOK, Write
    PROVE  StatementOK'
<1>1. RenderingTypeOK' /\ Continued
  BY WriteStep DEF StatementOK, Write
<1>2. Len(sent.args) \in Nat /\ Numbered(Len(sent.args))
  BY DEF StatementOK, Write, Writing, InOrder
<1>3. Numbered(Len(sent.args))'
  <2>1. \A k \in Nat : Numbered(k) => Numbered(k)'
    BY <1>1 DEF Continued
  <2>2. sent' = sent
    BY DEF Write
  <2> QED
    BY <1>2, <2>1, <2>2 DEF Numbered
<1> QED
  BY <1>1, <1>3 DEF StatementOK, Write, query, AskedOK, InOrder, CallOK, Writing

\* What the clause lemmas need of the invariant.
LEMMA ClauseTypes ==
    ASSUME StatementOK, Writing
    PROVE  /\ InOrder(sent) /\ builder \in Builders /\ Numbered(Len(sent.args))
           /\ InOrder(Added(builder.marks, builder.args)) /\ InOrder(WithBuilt)
           /\ Len(Added(builder.marks, builder.args).args) \in Nat
           /\ Len(WithBuilt.args) \in Nat
BY ClauseInOrder DEF StatementOK, RenderingTypeOK

\* The next clause is numbered from where the arguments sent end.
LEMMA NextClause ==
    ASSUME NEW c \in TreesOver(Trees) \cup {NoCond}, NEW k \in Nat,
           k = Len(sent'.args), BuildFrom(c, k)
    PROVE  RenderingTypeOK' /\ Numbered(Len(sent.args))'
<1>1. RenderingTypeOK' /\ Numbered(k)'
  BY PassBegins
<1> QED
  BY <1>1 DEF Numbered

LEMMA EndWhereStep ==
    ASSUME StatementOK, EndWhere
    PROVE  StatementOK'
<1>1. InOrder(sent') /\ Len(sent'.args) \in Nat
  BY ClauseTypes DEF EndWhere, Writing
<1>2. having \in TreesOver(Trees) \cup {NoCond}
  BY CondTypes DEF StatementOK
<1>3. CASE pc' = "sent" /\ UNCHANGED rendering
  BY <1>1, <1>3 DEF EndWhere, StatementOK, query, AskedOK, InOrder, CallOK, Writing,
                    rendering, RenderingTypeOK
<1>4. CASE pc' = "having" /\ BuildFrom(having, Len(sent'.args))
  <2>1. RenderingTypeOK' /\ Numbered(Len(sent.args))'
    <3>1. PICK k \in Nat : k = Len(sent'.args)
      BY <1>1
    <3> QED
      BY <1>2, <1>4, <3>1, NextClause
  <2> QED
    BY <1>1, <1>4, <2>1 DEF EndWhere, StatementOK, query, AskedOK, InOrder, CallOK, Writing
<1> QED
  BY <1>3, <1>4 DEF EndWhere

LEMMA EndHavingStep ==
    ASSUME StatementOK, EndHaving
    PROVE  StatementOK'
<1>1. InOrder(sent') /\ Len(sent'.args) \in Nat
  BY ClauseTypes DEF EndHaving, Writing
<1>2. RenderingTypeOK' /\ Numbered(Len(sent.args))'
  <2>1. PICK k \in Nat : k = Len(sent'.args)
    BY <1>1
  <2> QED
    BY <2>1, NextClause DEF EndHaving
<1>3. AskedOK' /\ ~err' /\ (pc' = "order" => at' <= Len(order'))
  <2>1. ~err /\ AskedOK
    BY DEF StatementOK, EndHaving
  <2>2. Len(order) \in Nat
    BY <2>1 DEF AskedOK
  <2> QED
    BY <2>1, <2>2 DEF EndHaving, query, AskedOK
<1>4. CallOK' /\ pc' \in {"sent", "order"}
  BY DEF StatementOK, EndHaving, CallOK
<1> QED
  BY <1>1, <1>2, <1>3, <1>4 DEF EndHaving, StatementOK, Writing, InOrder

LEMMA WriteTermStep ==
    ASSUME StatementOK, WriteTerm
    PROVE  StatementOK'
<1> DEFINE t == order[at + 1]
<1>1. /\ builder \in Builders /\ Len(sent.args) \in Nat /\ Numbered(Len(sent.args))
      /\ order \in Seq(OrderTerms) /\ at \in Nat /\ at < Len(order)
  <2>1. pc = "order" /\ at < Len(order)
    BY DEF WriteTerm
  <2>2. InOrder(sent) /\ RenderingTypeOK /\ AskedOK /\ ~err /\ at \in Nat
    BY <2>1 DEF StatementOK
  <2>3. Numbered(Len(sent.args))
    BY <2>1 DEF StatementOK, Writing
  <2> QED
    BY <2>1, <2>2, <2>3 DEF RenderingTypeOK, InOrder, AskedOK
<1>2. t \in OrderTerms
  BY <1>1
<1>3. ASSUME t.rank
      PROVE  Continued
  <2>1. t.search \in Values
    BY <1>2, <1>3, StatementsAssumption DEF OrderTerms
  <2>2. <<t.search>> \in Seq(Values) /\ "" \in AtomColumns /\ "rank" \in AtomOps
    BY <2>1, OneElement DEF AtomColumns, AtomOps
  <2>3. PutPredicate("", "rank", <<t.search>>)
    BY <1>3 DEF WriteTerm
  <2> QED
    BY <1>1, <2>2, <2>3, PredicateContinues
<1>4. ASSUME ~t.rank
      PROVE  Continued
  BY <1>1, <1>4, UnchangedContinues DEF WriteTerm
<1>5. Continued
  BY <1>3, <1>4
<1>6. Numbered(Len(sent.args))'
  <2>1. \A k \in Nat : Numbered(k) => Numbered(k)'
    BY <1>5 DEF Continued
  <2>2. sent' = sent
    BY DEF WriteTerm
  <2> QED
    BY <1>1, <2>1, <2>2 DEF Numbered
<1>7. RenderingTypeOK'
  BY <1>5 DEF StatementOK, WriteTerm, RenderingTypeOK, Continued
<1>8. at' \in Nat /\ at' <= Len(order')
  <2>1. at' = at + 1 /\ order' = order
    BY DEF WriteTerm, query
  <2>2. Len(order) \in Nat
    BY <1>1
  <2> QED
    BY <1>1, <2>1, <2>2
<1> QED
  BY <1>6, <1>7, <1>8 DEF StatementOK, WriteTerm, query, AskedOK, InOrder, CallOK, Writing

LEMMA EndOrderStep ==
    ASSUME StatementOK, EndOrder
    PROVE  StatementOK'
<1>1. InOrder(sent')
  BY ClauseTypes DEF EndOrder, Writing
<1>2. RenderingTypeOK'
  BY PassBegins DEF EndOrder
<1> QED
  BY <1>1, <1>2 DEF EndOrder, StatementOK, query, AskedOK, InOrder, CallOK, Writing

LEMMA LimitStep ==
    ASSUME StatementOK, Limit
    PROVE  StatementOK'
<1> DEFINE marks == [i \in DOMAIN LimitArgs |-> [n |-> Len(sent.args) + i, v |-> LimitArgs[i]]]
<1>1. /\ InOrder(sent) /\ Len(sent.args) \in Nat
      /\ call.limit \in Int /\ call.offset \in Int
      /\ call.limit + 1 \in Values /\ call.offset \in Values
  BY DEF StatementOK, Limit, CallOK, InOrder
<1>2. LimitArgs \in Seq(Values)
  BY <1>1 DEF LimitArgs
<1>3. DOMAIN LimitArgs = 1..Len(LimitArgs) /\ Len(LimitArgs) \in Nat
  BY <1>2
<1>4. \A i \in 1..Len(LimitArgs) : marks[i] \in [n : Nat, v : Values]
  BY <1>1, <1>2, <1>3
<1>5. /\ marks \in MarkSeqs /\ Len(marks) = Len(LimitArgs)
      /\ \A i \in DOMAIN marks : marks[i] = [n |-> Len(sent.args) + i, v |-> LimitArgs[i]]
  BY <1>3, <1>4 DEF MarkSeqs
<1>6. sent' = Added(marks, LimitArgs)
  BY DEF Limit
<1> HIDE DEF marks
<1>7. InOrder(sent')
  BY <1>1, <1>2, <1>5, <1>6, AddedInOrder
<1>8. RenderingTypeOK'
  BY DEF Limit, StatementOK, rendering, RenderingTypeOK
<1> QED
  BY <1>7, <1>8 DEF Limit, StatementOK, query, AskedOK, InOrder, CallOK, Writing

LEMMA AnswerStep ==
    ASSUME StatementOK, Answer
    PROVE  StatementOK'
<1>1. RenderingTypeOK'
  BY PassBegins DEF Answer
<1> QED
  BY <1>1, NothingInOrder DEF Answer, StatementOK, query, AskedOK, Writing

-----------------------------------------------------------------------------
LEMMA InitStatement == Init => StatementOK
<1> SUFFICES ASSUME Init PROVE StatementOK
  OBVIOUS
<1>1. AskedOK
  BY DEF Init, AskedOK
<1>2. builder \in Builders /\ stack \in Seq(Frames) /\ now = NoCond
  BY DEF Init, Blank, Builders, MarkSeqs
<1>3. RenderingTypeOK
  BY <1>2 DEF RenderingTypeOK
<1> QED
  BY <1>1, <1>3, NothingInOrder DEF Init, StatementOK, Writing

\* Every step of a query or of a statement keeps the invariant.
LEMMA NextStatement == StatementOK /\ [Next]_vars => StatementOK'
<1> SUFFICES ASSUME StatementOK, [Next]_vars PROVE StatementOK'
  OBVIOUS
<1>1. CASE UNCHANGED vars
  BY <1>1 DEF vars, rendering, query, StatementOK, AskedOK, RenderingTypeOK, InOrder,
              CallOK, Writing, Numbered
<1>2. CASE Next
  <2>1. CASE Build
    BY <2>1, QueryStep
  <2>2. CASE Run
    BY <2>2, CallStep
  <2>3. CASE Write \/ EndWhere \/ EndHaving \/ WriteTerm \/ EndOrder \/ Limit \/ Answer
    BY <2>3, WriteClauseStep, EndWhereStep, EndHavingStep, WriteTermStep, EndOrderStep,
       LimitStep, AnswerStep
  <2> QED
    BY <1>2, <2>1, <2>2, <2>3 DEF Next
<1> QED
  BY <1>1, <1>2

\* Each argument reaches the placeholder it was meant for, whatever the conditions,
\* their nesting and lists, the fragments short of arguments, the order terms and
\* the window: by position, and by number on PostgreSQL.
THEOREM StatementArguments == Spec => []ArgumentsReachTheirPlaceholders
<1>1. StatementOK => ArgumentsReachTheirPlaceholders
  <2> SUFFICES ASSUME StatementOK PROVE ArgumentsReachTheirPlaceholders
    OBVIOUS
  <2>1. InOrder(sent)
    BY DEF StatementOK
  <2>2. DOMAIN sent.marks = DOMAIN sent.args
    BY <2>1 DEF InOrder, MarkSeqs
  <2>3. \A i \in DOMAIN sent.marks : NumberOf(i) = i
    BY <2>1 DEF InOrder, NumberOf
  <2>4. Len(sent.marks) = Len(sent.args)
    BY <2>1 DEF InOrder
  <2>5. ASSUME NEW i \in DOMAIN sent.marks
        PROVE  NumberOf(i) \in DOMAIN sent.args /\ sent.args[NumberOf(i)] = sent.marks[i].v
    <3>1. sent.marks[i] = [n |-> i, v |-> sent.args[i]]
      BY <2>1 DEF InOrder
    <3> QED
      BY <2>2, <2>3, <3>1
  <2> QED
    BY <2>4, <2>5 DEF ArgumentsReachTheirPlaceholders
<1> QED
  BY <1>1, InitStatement, NextStatement, PTL DEF Spec

\* A sort key that is not allowed is never left out of the order of a query that
\* is sent.
THEOREM OrderAsAsked == Spec => []OrderIsAsked
<1>1. StatementOK => OrderIsAsked
  BY DEF StatementOK, AskedOK, OrderIsAsked
<1> QED
  BY <1>1, InitStatement, NextStatement, PTL DEF Spec
=============================================================================
