---------------------------- MODULE KeysetProofs ----------------------------
(***************************************************************************)
(* Keyset paging, proved for every ordering, dialect, key domain, page     *)
(* size and table, with any number of concurrent writes and failed calls,  *)
(* and of the Relay connection that is made from a page.                   *)
(***************************************************************************)
EXTENDS Connection, KeysetOrderProofs, FiniteSetTheorems

-----------------------------------------------------------------------------
(* Keys and cursors.                                                       *)

\* A row's key is a key its ordering is meant for.
LEMMA KeysAreKeys ==
  ASSUME NEW o \in Orders, NEW k \in Keys(o)
  PROVE  o \in Ordering /\ IsKey(o, k) /\ k # NoCursor
<1>1. o \in Seq(OrderTerm) /\ Len(o) \in Nat \ {0} /\ DOMAIN o = 1..Len(o)
      /\ o[Len(o)].nulls = "default"
  BY KeysetAssumption DEF OrderWellFormed
<1>2. k \in [1..Len(o) -> Vals \cup Ids \cup {NULL}]
      /\ \A i \in 1..Len(o) : k[i] \in Column(o, i)
  BY DEF Keys
<1>3. k \in [DOMAIN o -> Cell]
  BY <1>1, <1>2, KeysetAssumption DEF Cell
<1>4. ASSUME NEW i \in DOMAIN o, o[i].nulls = "default" PROVE k[i] # NULL
  BY <1>1, <1>2, <1>4, KeysetAssumption, NullIsNoValue DEF Column
<1>5. k # << >>
  BY <1>1, <1>2
<1> QED BY <1>1, <1>3, <1>4, <1>5 DEF Ordering, IsKey, NoCursor

\* A cursor decodes to the key it was made from, NULLs included, and is not
\* the empty string.
LEMMA CursorRoundTrip ==
  ASSUME NEW o \in Orders, NEW k \in Keys(o)
  PROVE  DecodeCursor(EncodeCursor(k)) = k /\ EncodeCursor(k) # NoCursor
<1>1. IsKey(o, k) /\ DOMAIN k = 1..Len(o) /\ Len(o) \in Nat \ {0}
  <2>1. Len(o) \in Nat \ {0}
    BY KeysetAssumption DEF OrderWellFormed
  <2> QED BY <2>1, KeysAreKeys DEF Keys
<1>2. ASSUME NEW i \in DOMAIN k
      PROVE  FromCursorElem(ToCursorElem(k[i])) = k[i]
  BY DEF FromCursorElem, ToCursorElem
<1>3. DOMAIN EncodeCursor(k) = DOMAIN k
      /\ \A i \in DOMAIN k : EncodeCursor(k)[i] = ToCursorElem(k[i])
  BY DEF EncodeCursor
<1>4. DecodeCursor(EncodeCursor(k)) = [i \in DOMAIN k |-> k[i]]
  BY <1>2, <1>3 DEF DecodeCursor
<1>5. k = [i \in DOMAIN k |-> k[i]]
  BY DEF Keys
<1>6. EncodeCursor(k) # << >>
  BY <1>1, <1>3
<1> QED BY <1>4, <1>5, <1>6 DEF NoCursor

\* The empty cursor carries no values.
LEMMA NoCursorDecodes == DecodeCursor(NoCursor) = << >>
BY DEF DecodeCursor, NoCursor

\* What a cursor the client holds decodes to.
LEMMA CursorKey ==
  ASSUME NEW o \in Orders, NEW c \in Cursors(o), c # NoCursor
  PROVE  DecodeCursor(c) \in Keys(o)
BY CursorRoundTrip DEF Cursors

-----------------------------------------------------------------------------
(* The page of one SELECT.                                                 *)

\* Pager's declared order is Keyset's.
LEMMA SameOrder ==
  \A o, a, b : P!Precedes(o, a, b) <=> Precedes(o, a, b)
BY DEF P!Precedes, P!ColumnBefore, Precedes, ColumnBefore

\* The answer of the SELECT, cut to the size and put in natural order, is the
\* window the client asked for.
LEMMA SelectFindsWindow ==
  ASSUME TypeOK,
         NEW w \in Answers(IF seek.before THEN ReverseOrder(order) ELSE order,
                           Admitted(db, seek), seek.size + 1)
  PROVE  /\ PageOf(w, seek) \in Seq(Keys(order))
         /\ P!IsWindow(db, [from |-> DecodeCursor(seek.cursor),
                            back |-> seek.before, size |-> seek.size],
                       [rows |-> PageOf(w, seek), more |-> Len(w) > seek.size])
<1> DEFINE n == seek.size
           cut == Cut(w, n)
           keys == PageOf(w, seek)
           c == DecodeCursor(seek.cursor)
           L(a, b) == IF seek.before THEN Precedes(order, b, a)
                                     ELSE Precedes(order, a, b)
           S == Admitted(db, seek)
<1>1. /\ order \in Orders /\ dialect \in Dialects /\ order \in Ordering
      /\ seek.before \in BOOLEAN /\ n \in Nat \ {0}
      /\ db \subseteq Keys(order) /\ S \subseteq db
  <2>1. seek.before \in BOOLEAN /\ n \in Nat \ {0}
    BY DEF TypeOK
  <2> QED BY <2>1, KeysetAssumption DEF TypeOK, Admitted, Ordering
<1>2. \A k \in Keys(order) : IsKey(order, k)
  BY <1>1, KeysAreKeys
<1>3. S = {k \in db : seek.cursor # NoCursor => L(c, k)}
  <2>1. CASE seek.cursor = NoCursor
    BY <2>1 DEF Admitted
  <2>2. CASE seek.cursor # NoCursor
    <3>1. c \in Keys(order)
      BY <1>1, <2>2, CursorKey DEF TypeOK
    <3>2. ASSUME NEW k \in db
          PROVE  KeysetCond(order, c, seek.before, k) = "true" <=> L(c, k)
      <4>1. IsKey(order, c) /\ IsKey(order, k)
        BY <1>1, <1>2, <3>1
      <4> QED BY <1>1, <4>1, KeysetCondDeclared
    <3> QED BY <2>2, <3>2 DEF Admitted
  <2> QED BY <2>1, <2>2
<1>4. PICK m \in 0..(n + 1) :
        /\ w \in [1..m -> S]
        /\ \A i, j \in 1..m : i < j => w[i] # w[j] /\ L(w[i], w[j])
        /\ \A k \in S : (\A i \in 1..m : w[i] # k) =>
              m = n + 1 /\ \A i \in 1..m : L(w[i], k)
  <2> DEFINE o == IF seek.before THEN ReverseOrder(order) ELSE order
  <2>1. PICK m \in 0..(n + 1) : w \in [1..m -> S]
    BY DEF Answers
  <2>2. DOMAIN w = 1..m /\ Len(w) = m
    BY <1>1, <2>1
  <2>3. \A a, b \in S : KeyLT(dialect, o, a, b) <=> L(a, b)
    BY <1>1, <1>2, KeyLTDeclared, ReverseOrderDeclared
  <2>4. \A a, b \in S : a # b => L(a, b) \/ L(b, a)
    BY <1>1, <1>2, PrecedesTotal
  <2>5. /\ \A i, j \in 1..m : i < j => w[i] # w[j] /\ ~KeyLT(dialect, o, w[j], w[i])
        /\ \A k \in S : (\A i \in 1..m : w[i] # k) =>
              m = n + 1 /\ \A i \in 1..m : ~KeyLT(dialect, o, k, w[i])
    BY <2>2 DEF Answers
  <2>6. \A i \in 1..m : w[i] \in S
    BY <2>1
  <2> HIDE DEF L, S, o
  <2>7. \A i, j \in 1..m : i < j => L(w[i], w[j])
    BY <2>3, <2>4, <2>5, <2>6
  <2>8. ASSUME NEW k \in S, \A i \in 1..m : w[i] # k
        PROVE  m = n + 1 /\ \A i \in 1..m : L(w[i], k)
    BY <2>3, <2>4, <2>5, <2>6, <2>8
  <2> QED BY <2>1, <2>5, <2>7, <2>8
<1> HIDE DEF L, S, n, cut, keys
<1> DEFINE q == IF m > n THEN n ELSE m
<1>5. /\ q \in Nat /\ q <= n /\ q <= m /\ Len(w) = m
      /\ cut \in [1..q -> S] /\ \A i \in 1..q : cut[i] = w[i]
  <2>1. w \in Seq(S) /\ Len(w) = m
    BY <1>4
  <2>2. CASE m > n
    <3>1. cut = SubSeq(w, 1, n)
      BY <2>1, <2>2 DEF cut, Cut
    <3>2. cut = [i \in 1..n |-> w[i]]
      BY <1>1, <2>1, <2>2, <3>1
    <3>3. q = n /\ n <= m
      BY <1>1, <1>4, <2>2
    <3> HIDE DEF q
    <3>4. \A i \in 1..n : i \in 1..m /\ w[i] \in S
      BY <1>1, <1>4, <3>3
    <3>5. cut \in [1..n -> S] /\ \A i \in 1..n : cut[i] = w[i]
      BY <3>2, <3>4
    <3> QED BY <1>1, <2>1, <3>3, <3>5
  <2>3. CASE ~(m > n)
    BY <1>1, <1>4, <2>1, <2>3 DEF cut, Cut
  <2> QED BY <2>2, <2>3
<1> HIDE DEF q
<1>6. /\ keys \in [1..q -> S]
      /\ \A i \in 1..q : keys[i] = IF seek.before THEN w[q + 1 - i] ELSE w[i]
  <2>1. Len(cut) = q /\ DOMAIN cut = 1..q
    BY <1>5
  <2>2. CASE seek.before
    <3>1. keys = [i \in 1..q |-> cut[q + 1 - i]]
      BY <2>1, <2>2 DEF Reverse, keys, PageOf, cut, n
    <3>2. \A i \in 1..q : q + 1 - i \in 1..q
      BY <1>5
    <3> QED BY <1>5, <2>2, <3>1, <3>2
  <2>3. CASE ~seek.before
    BY <1>5, <2>3 DEF keys, PageOf, cut, n
  <2> QED BY <2>2, <2>3
<1>7. Len(keys) = q /\ DOMAIN keys = 1..q /\ keys \in Seq(Keys(order))
  <2>1. keys \in [1..q -> Keys(order)]
    BY <1>1, <1>6
  <2> QED BY <2>1, <1>5
<1> DEFINE rows == {keys[i] : i \in DOMAIN keys}
<1>8. rows = {w[i] : i \in 1..q}
  <2>1. \A i \in 1..q : q + 1 - i \in 1..q /\ q + 1 - (q + 1 - i) = i
    BY <1>5
  <2>2. ASSUME NEW i \in 1..q PROVE keys[i] \in {w[j] : j \in 1..q}
    BY <1>6, <2>1
  <2>3. ASSUME NEW i \in 1..q PROVE w[i] \in rows
    <3>1. CASE seek.before
      <4>1. keys[q + 1 - i] = w[q + 1 - (q + 1 - i)]
        BY <1>6, <2>1, <3>1
      <4> QED BY <1>7, <2>1, <4>1
    <3>2. CASE ~seek.before
      BY <1>6, <1>7, <3>2
    <3> QED BY <3>1, <3>2
  <2> QED BY <1>7, <2>2, <2>3
<1>9. rows \subseteq S
  BY <1>6, <1>7
<1>10. \A i, j \in DOMAIN keys : i < j => Precedes(order, keys[i], keys[j])
  <2> SUFFICES ASSUME NEW i \in 1..q, NEW j \in 1..q, i < j
               PROVE  Precedes(order, keys[i], keys[j])
    BY <1>7
  <2>1. CASE seek.before
    <3>1. q + 1 - i \in 1..m /\ q + 1 - j \in 1..m /\ q + 1 - j < q + 1 - i
      BY <1>5
    <3>2. L(w[q + 1 - j], w[q + 1 - i])
      BY <1>4, <3>1
    <3> QED BY <1>6, <2>1, <3>2 DEF L
  <2>2. CASE ~seek.before
    <3>1. i \in 1..m /\ j \in 1..m
      BY <1>5
    <3>2. L(w[i], w[j])
      BY <1>4, <3>1
    <3> QED BY <1>6, <2>2, <3>2 DEF L
  <2> QED BY <2>1, <2>2
<1> HIDE DEF rows
<1>11. ASSUME NEW r \in rows, NEW k \in S \ rows PROVE L(r, k)
  <2>1. PICK i \in 1..q : r = w[i]
    BY <1>8
  <2>2. i \in 1..m
    BY <1>5
  <2>3. CASE \E j \in 1..m : w[j] = k
    <3>1. PICK j \in 1..m : w[j] = k
      BY <2>3
    <3>2. j \notin 1..q
      BY <1>8, <3>1
    <3>3. i < j
      BY <1>5, <3>2
    <3> QED BY <1>4, <2>1, <2>2, <3>1, <3>3
  <2>4. CASE \A j \in 1..m : w[j] # k
    BY <1>4, <2>1, <2>2, <2>4
  <2> QED BY <2>3, <2>4
<1>12. Len(w) > n <=> rows # S
  <2>1. CASE m > n
    <3>1. m = n + 1 /\ q = n /\ m \in 1..m
      BY <1>1, <1>4, <2>1 DEF q
    <3>2. w[m] \in S
      BY <1>4, <3>1
    <3>3. ASSUME NEW i \in 1..q PROVE w[i] # w[m]
      <4>1. i \in 1..m /\ i < m
        BY <1>1, <3>1
      <4> QED BY <1>4, <3>1, <4>1
    <3> QED BY <1>5, <1>8, <2>1, <3>2, <3>3
  <2>2. CASE ~(m > n)
    <3>1. q = m /\ m # n + 1
      BY <1>1, <1>4, <2>2 DEF q
    <3>2. S \subseteq rows
      BY <1>4, <1>8, <3>1
    <3> QED BY <1>5, <1>9, <2>2, <3>2
  <2> QED BY <2>1, <2>2
<1>13. Len(w) > n => Len(keys) = n
  BY <1>5, <1>7 DEF q
<1>14. seek.cursor = NoCursor <=> c = << >>
  <2>1. CASE seek.cursor = NoCursor
    BY <2>1, NoCursorDecodes
  <2>2. CASE seek.cursor # NoCursor
    <3>1. c \in Keys(order)
      BY <1>1, <2>2, CursorKey DEF TypeOK
    <3> QED BY <1>1, <2>2, <3>1, KeysAreKeys DEF NoCursor
  <2> QED BY <2>1, <2>2
<1>15. S = {k \in db : c # << >> => IF seek.before THEN Precedes(order, k, c)
                                                  ELSE Precedes(order, c, k)}
  BY <1>3, <1>14 DEF L
<1> DEFINE ask == [from |-> c, back |-> seek.before, size |-> n]
           got == [rows |-> keys, more |-> Len(w) > n]
<1>16. /\ ask.from = c /\ ask.back = seek.before /\ ask.size = n
       /\ got.rows = keys /\ got.more = (Len(w) > n)
  OBVIOUS
<1> HIDE DEF c, ask, got
<1>17. P!IsWindow(db, ask, got)
  <2> DEFINE side == {k \in db : ask.from # P!NoRow =>
                         IF ask.back THEN P!Precedes(order, k, ask.from)
                                     ELSE P!Precedes(order, ask.from, k)}
             taken == {got.rows[i] : i \in DOMAIN got.rows}
  <2>1. q <= n /\ Len(keys) = q
    BY <1>5, <1>7
  <2>2. \A i, j \in DOMAIN got.rows :
           i < j => P!Precedes(order, got.rows[i], got.rows[j])
    BY <1>10, <1>16, SameOrder
  <2>3. taken = rows
    BY <1>16 DEF rows
  <2>4. side = S
    BY <1>15, <1>16, SameOrder DEF P!NoRow
  <2> HIDE DEF side, taken
  <2>5. \A r \in taken, k \in side \ taken :
           IF ask.back THEN P!Precedes(order, k, r) ELSE P!Precedes(order, r, k)
    BY <1>11, <1>16, <2>3, <2>4, SameOrder DEF L
  <2>6. /\ Len(got.rows) <= ask.size
        /\ got.more <=> taken # side
        /\ got.more => Len(got.rows) = ask.size
    BY <1>12, <1>13, <1>16, <2>1, <2>3, <2>4
  <2>7. taken \subseteq side
    BY <1>9, <2>3, <2>4
  <2> QED BY <2>2, <2>5, <2>6, <2>7, Zenon DEF P!IsWindow, side, taken
<1> QED BY <1>7, <1>17 DEF ask, got, c, n, keys

-----------------------------------------------------------------------------
(* Type correctness.                                                       *)

\* The frontier a page leaves is a key, or none.
LEMMA FrontierAfterType ==
  ASSUME TypeOK
  PROVE  /\ Last(res.keys) \in {NoCursor} \cup Keys(order)
         /\ FrontierAfter \in {NoCursor} \cup Keys(order)
<1>1. res.keys \in Seq(Keys(order)) /\ frontier \in {NoCursor} \cup Keys(order)
  BY DEF TypeOK
<1>2. Last(res.keys) \in {NoCursor} \cup Keys(order)
  BY <1>1 DEF Last
<1> QED BY <1>1, <1>2 DEF FrontierAfter, Further

LEMMA TypeStep == TypeOK /\ [Next]_vars => TypeOK'
<1> SUFFICES ASSUME TypeOK, [Next]_vars PROVE TypeOK'
  OBVIOUS
<1> USE DEF TypeOK
<1>1. ASSUME NEW p \in Requests, Seek(p) PROVE TypeOK'
  <2>1. /\ p.after \in Cursors(order) /\ p.before \in Cursors(order)
        /\ p.size \in Int /\ p.total \in BOOLEAN
    BY KeysetAssumption DEF Requests, Cursors
  <2>2. seek' \in [cursor : Cursors(order), before : BOOLEAN,
                   size : Nat \ {0}, total : BOOLEAN]
    BY <1>1, <2>1 DEF Seek
  <2> QED BY <1>1, <2>2 DEF Seek, query, history, IsTable, Cursors
<1>2. CASE RunSelect
  <2>1. PICK w \in Answers(IF seek.before THEN ReverseOrder(order) ELSE order,
                           Admitted(db, seek), seek.size + 1) :
          /\ res' = [NoResult EXCEPT !.keys = PageOf(w, seek),
                                     !.truncated = Len(w) > seek.size]
          /\ pending' = (IF seek.cursor = NoCursor THEN db ELSE owed)
                           \ PageRows(PageOf(w, seek))
    BY <1>2 DEF RunSelect
  <2>2. PageOf(w, seek) \in Seq(Keys(order))
    BY SelectFindsWindow
  <2>3. res' \in [keys : Seq(Keys(order)), truncated : BOOLEAN,
                  total : Nat, totalSet : BOOLEAN]
    <3> DEFINE keys == PageOf(w, seek)
               more == Len(w) > seek.size
    <3>1. res' = [keys |-> keys, truncated |-> more, total |-> 0, totalSet |-> FALSE]
      BY <2>1 DEF NoResult
    <3>2. keys \in Seq(Keys(order)) /\ more \in BOOLEAN
      BY <2>2
    <3> HIDE DEF keys, more
    <3> QED BY <3>1, <3>2
  <2>4. pending' \subseteq db /\ IsTable({})
    BY <2>1, FS_EmptySet DEF IsTable
  <2> QED BY <1>2, <2>3, <2>4 DEF RunSelect, query, IsTable, Cursors
<1>3. CASE RunCount
  <2>1. Cardinality(IF Snapshot THEN snap ELSE db) \in Nat
    BY FS_CardinalityType DEF IsTable
  <2>2. res' \in [keys : Seq(Keys(order)), truncated : BOOLEAN,
                  total : Nat, totalSet : BOOLEAN]
    BY <1>3, <2>1 DEF RunCount
  <2> QED BY <1>3, <2>2 DEF RunCount, query, history, IsTable, Cursors
<1>4. ASSUME pc' = "idle", seek' = NoSeek, snap' = {}, res' = NoResult,
             pending' = {}, UNCHANGED <<order, dialect, db>>
      PROVE  /\ snap' \subseteq Keys(order') /\ IsTable(snap')
             /\ seek' \in [cursor : Cursors(order), before : BOOLEAN,
                           size : Nat \ {0}, total : BOOLEAN]
             /\ res' \in [keys : Seq(Keys(order)), truncated : BOOLEAN,
                          total : Nat, totalSet : BOOLEAN]
             /\ pending' \subseteq db'
  BY <1>4, FS_EmptySet DEF NoSeek, NoResult, Cursors, IsTable
<1>5. CASE Fail
  BY <1>4, <1>5 DEF Fail, query, IsTable, Cursors
<1>6. CASE Return
  <2> DEFINE cursors == [i \in DOMAIN res.keys |-> EncodeCursor(res.keys[i])]
  <2>1. cursors = << >> \/ (cursors[1] \in Cursors(order)
                            /\ cursors[Len(cursors)] \in Cursors(order))
    <3>1. PICK n \in Nat : res.keys \in [1..n -> Keys(order)]
      OBVIOUS
    <3>2. cursors \in [1..n -> Cursors(order)]
      BY <3>1 DEF Cursors
    <3> HIDE DEF cursors
    <3>3. n = 0 => cursors = << >>
      BY <3>2
    <3>4. n > 0 => 1 \in 1..n /\ n \in 1..n
      BY <3>1
    <3>5. Len(cursors) = n
      BY <3>1, <3>2
    <3> QED BY <3>1, <3>2, <3>3, <3>4, <3>5
  <2>2. shown' \in [start : Cursors(order), end : Cursors(order),
                    truncated : BOOLEAN, total : Nat, totalSet : BOOLEAN,
                    before : BOOLEAN]
    <3>1. shown' = [start |-> IF cursors = << >> THEN NoCursor ELSE cursors[1],
                    end |-> Last(cursors), truncated |-> res.truncated,
                    total |-> res.total, totalSet |-> res.totalSet,
                    before |-> seek.before]
      BY <1>6 DEF Return
    <3> HIDE DEF cursors
    <3>2. NoCursor \in Cursors(order)
      BY DEF Cursors
    <3> QED BY <2>1, <3>1, <3>2 DEF Last
  <2>3. owed' \subseteq db' /\ frontier' \in {NoCursor} \cup Keys(order)
    BY <1>6, FrontierAfterType DEF Return, query
  <2> QED BY <1>4, <1>6, <2>2, <2>3 DEF Return, query, IsTable, Cursors
<1>7. CASE Writer
  <2>1. PICK k \in Keys(order) :
          Insert(k) \/ Delete(k) \/ \E m \in Keys(order) : Move(k, m)
    BY <1>7 DEF Writer
  <2>2. /\ db' \subseteq Keys(order) /\ IsTable(db')
        /\ owed' \subseteq db' /\ pending' \subseteq db'
        /\ UNCHANGED <<query, call, shown, frontier>>
    <3>1. CASE Insert(k)
      BY <3>1 DEF Insert, Write, IsTable
    <3>2. CASE Delete(k)
      BY <3>2 DEF Delete, Write, IsTable
    <3>3. CASE \E m \in Keys(order) : Move(k, m)
      BY <3>3 DEF Move, Write, IsTable
    <3> QED BY <2>1, <3>1, <3>2, <3>3
  <2> QED BY <2>2 DEF query, call, IsTable, Cursors
<1>8. CASE UNCHANGED vars
  BY <1>8 DEF vars, query, call, history, IsTable, Cursors
<1> QED BY <1>1, <1>2, <1>3, <1>5, <1>6, <1>7, <1>8 DEF Next, Call

\* The state of a keyset walk is well typed: in particular the table keeps one
\* row per id, cursors are keys of the ordering, and what a walk owes exists.
THEOREM TypeCorrect == Spec => []TypeOK
<1>1. Init => TypeOK
  BY FS_EmptySet DEF Init, TypeOK, NoSeek, NoResult, NoInfo, Cursors, IsTable
<1> QED BY <1>1, TypeStep, PTL DEF Spec

-----------------------------------------------------------------------------
(* The walk.                                                               *)

\* Precedes on the rows of one ordering, as one fact to cite.
LEMMA RowOrder ==
  ASSUME TypeOK
  PROVE  /\ \A a \in Keys(order) : a # NoCursor
         /\ \A a \in Keys(order) : ~Precedes(order, a, a)
         /\ \A a, b, c \in Keys(order) :
               Precedes(order, a, b) /\ Precedes(order, b, c) => Precedes(order, a, c)
         /\ \A a, b \in Keys(order) :
               a # b => Precedes(order, a, b) \/ Precedes(order, b, a)
<1>1. order \in Orders /\ order \in Ordering
  BY KeysetAssumption DEF TypeOK, Ordering
<1>2. \A a \in Keys(order) : IsKey(order, a) /\ a # NoCursor
  BY <1>1, KeysAreKeys
<1> QED
  BY <1>1, <1>2, PrecedesIrreflexive, PrecedesTransitive, PrecedesTotal

\* The last row of a page in natural order is at or past each of its rows.
LEMMA LastIsLast ==
  ASSUME NEW o, NEW keys \in Seq(Keys(o)),
         \A i, j \in DOMAIN keys : i < j => Precedes(o, keys[i], keys[j])
  PROVE  /\ keys # << >> => Last(keys) \in PageRows(keys)
         /\ keys = << >> => PageRows(keys) = {} /\ Last(keys) = NoCursor
         /\ \A k \in PageRows(keys) : k = Last(keys) \/ Precedes(o, k, Last(keys))
<1>1. Len(keys) \in Nat /\ DOMAIN keys = 1..Len(keys)
  OBVIOUS
<1>2. CASE keys = << >>
  BY <1>2 DEF PageRows, Last
<1>3. CASE keys # << >>
  <2>1. Len(keys) \in DOMAIN keys /\ Last(keys) = keys[Len(keys)]
    BY <1>1, <1>3 DEF Last
  <2>2. ASSUME NEW i \in DOMAIN keys
        PROVE  keys[i] = Last(keys) \/ Precedes(o, keys[i], Last(keys))
    <3>1. i = Len(keys) \/ i < Len(keys)
      BY <1>1
    <3> QED BY <2>1, <3>1
  <2> QED BY <1>3, <2>1, <2>2 DEF PageRows
<1> QED BY <1>2, <1>3

\* What a SELECT puts in flight: with K the page, everything still owed once
\* it is returned is past the frontier it leaves.
LEMMA SelectInFlight ==
  ASSUME TypeOK, WalkInv, pc = "select", RunSelect
  PROVE  PageInFlight'
<1>1. PICK w \in Answers(IF seek.before THEN ReverseOrder(order) ELSE order,
                         Admitted(db, seek), seek.size + 1) :
        /\ res' = [NoResult EXCEPT !.keys = PageOf(w, seek),
                                   !.truncated = Len(w) > seek.size]
        /\ pending' = (IF seek.cursor = NoCursor THEN db ELSE owed)
                         \ PageRows(PageOf(w, seek))
  BY DEF RunSelect
<1> DEFINE K    == PageOf(w, seek)
           more == Len(w) > seek.size
           c    == DecodeCursor(seek.cursor)
           side == {k \in db : seek.cursor # NoCursor =>
                       IF seek.before THEN Precedes(order, k, c)
                                      ELSE Precedes(order, c, k)}
           rows == PageRows(K)
           old  == IF seek.cursor = NoCursor THEN NoCursor ELSE frontier
           new  == Further(old, Last(K))
<1>2. K \in Seq(Keys(order)) /\ res'.keys = K /\ res'.truncated = more
  BY <1>1, SelectFindsWindow DEF NoResult
<1>3. seek.cursor # NoCursor => c \in Keys(order)
  BY CursorKey DEF TypeOK
<1>4. /\ \A i, j \in DOMAIN K : i < j => Precedes(order, K[i], K[j])
      /\ rows \subseteq side
      /\ \A r \in rows, k \in side \ rows :
            IF seek.before THEN Precedes(order, k, r) ELSE Precedes(order, r, k)
      /\ more <=> rows # side
      /\ more => Len(K) = seek.size
  <2> DEFINE ask == [from |-> c, back |-> seek.before, size |-> seek.size]
             got == [rows |-> K, more |-> more]
  <2>1. P!IsWindow(db, ask, got)
    BY SelectFindsWindow
  <2>2. seek.cursor = NoCursor <=> c = << >>
    BY <1>3, NoCursorDecodes, RowOrder DEF NoCursor
  <2>3. /\ ask.from = c /\ ask.back = seek.before /\ ask.size = seek.size
        /\ got.rows = K /\ got.more = more
    OBVIOUS
  <2> HIDE DEF ask, got, K, more, c
  <2>4. {k \in db : ask.from # P!NoRow =>
            IF ask.back THEN P!Precedes(order, k, ask.from)
                        ELSE P!Precedes(order, ask.from, k)} = side
    BY <2>2, <2>3, SameOrder DEF P!NoRow
  <2>5. {got.rows[i] : i \in DOMAIN got.rows} = rows
    BY <2>3 DEF PageRows
  <2> HIDE DEF side, rows
  <2>6. /\ \A i, j \in DOMAIN got.rows :
              i < j => P!Precedes(order, got.rows[i], got.rows[j])
        /\ rows \subseteq side
        /\ \A r \in rows, k \in side \ rows :
              IF ask.back THEN P!Precedes(order, k, r) ELSE P!Precedes(order, r, k)
        /\ got.more <=> rows # side
        /\ got.more => Len(got.rows) = ask.size
    BY <2>1, <2>4, <2>5, Zenon DEF P!IsWindow
  <2>7. \A r \in rows, k \in side \ rows :
            IF seek.before THEN Precedes(order, k, r) ELSE Precedes(order, r, k)
    BY <2>3, <2>6, SameOrder
  <2>8. \A i, j \in DOMAIN K : i < j => Precedes(order, K[i], K[j])
    BY <2>3, <2>6, SameOrder
  <2> QED BY <2>3, <2>6, <2>7, <2>8
<1>5. /\ K # << >> => Last(K) \in rows
      /\ K = << >> => rows = {} /\ Last(K) = NoCursor
      /\ \A k \in rows : k = Last(K) \/ Precedes(order, k, Last(K))
  BY <1>2, <1>4, LastIsLast
<1>6. FrontierAfter' = new /\ UNCHANGED <<order, db, seek, frontier>>
  <2>1. UNCHANGED <<order, db, seek, frontier>>
    BY DEF RunSelect, query
  <2> QED BY <1>2, <2>1 DEF FrontierAfter, Further, Last
<1>7. pending' = (IF seek.cursor = NoCursor THEN db ELSE owed) \ rows
  BY <1>1
<1>8. /\ db \subseteq Keys(order) /\ owed \subseteq db
      /\ side \subseteq db
      /\ frontier \in {NoCursor} \cup Keys(order)
      /\ seek.before \in BOOLEAN /\ seek.size \in Nat \ {0}
  BY DEF TypeOK
<1> HIDE DEF K, more, c, rows, new, old
<1>9. seek.cursor # NoCursor =>
        frontier # NoCursor /\ (c = frontier \/ Precedes(order, c, frontier))
  BY DEF WalkInv, CursorsBehind, Behind, c
<1>10. \A k \in owed : frontier # NoCursor /\ Precedes(order, frontier, k)
  BY DEF WalkInv, NothingSkipped
<1>11. rows \subseteq Keys(order) /\ more \in BOOLEAN
  BY <1>4, <1>8 DEF more
<1>12. ASSUME NEW k \in pending'
       PROVE  new # NoCursor /\ Precedes(order, new, k)
  <2>1. k \in Keys(order) /\ k \notin rows
    BY <1>7, <1>8
  <2>2. CASE seek.cursor = NoCursor
    <3>1. k \in side \ rows
      BY <1>7, <2>2
    <3>2. K # << >>
      <4>1. Len(K) = seek.size
        BY <1>4, <3>1
      <4> QED BY <1>8, <4>1
    <3>3. new = Last(K)
      BY <2>2 DEF new, old, Further
    <3> HIDE DEF side
    <3>4. CASE ~seek.before
      BY <1>4, <1>5, <1>11, <3>1, <3>2, <3>3, <3>4, RowOrder
    <3>5. ~seek.before
      BY <1>8, <2>2 DEF WalkInv, CursorsBehind
    <3> QED BY <3>4, <3>5
  <2>3. CASE seek.cursor # NoCursor
    <3>1. k \in owed /\ k \in db /\ frontier # NoCursor
          /\ frontier \in Keys(order) /\ Precedes(order, frontier, k)
      BY <1>7, <1>8, <1>10, <2>3
    <3>2. new = frontier \/ (new = Last(K) /\ new # NoCursor)
      BY <2>3 DEF new, old, Further
    <3>3. CASE new = frontier
      BY <3>1, <3>3
    <3>4. CASE new = Last(K) /\ new # NoCursor /\ new # frontier
      <4>1. K # << >> /\ Last(K) \in rows /\ Precedes(order, frontier, Last(K))
        BY <1>5, <2>3, <3>1, <3>4 DEF new, old, Further
      <4>2. Precedes(order, c, k) /\ Precedes(order, c, Last(K))
        BY <1>3, <1>9, <1>11, <2>1, <2>3, <3>1, <4>1, RowOrder
      <4>3. ~seek.before
        <5>1. CASE seek.before
          <6>1. Precedes(order, Last(K), c)
            BY <1>4, <2>3, <4>1, <5>1
          <6> QED BY <1>3, <1>11, <2>3, <4>1, <4>2, <6>1, RowOrder
        <5> QED BY <5>1
      <4>4. k \in side \ rows
        BY <2>1, <2>3, <3>1, <4>2, <4>3
      <4> QED BY <1>4, <3>4, <4>1, <4>3, <4>4
    <3> QED BY <3>2, <3>3, <3>4
  <2> QED BY <2>2, <2>3
<1>13. ASSUME NEW k \in rows
       PROVE  k = new \/ Precedes(order, k, new)
  <2>1. Last(K) \in rows /\ (k = Last(K) \/ Precedes(order, k, Last(K)))
    BY <1>5
  <2>2. Last(K) \in Keys(order) /\ Last(K) # NoCursor /\ k \in Keys(order)
    BY <1>11, <2>1, RowOrder
  <2>3. new = Last(K) \/ (new = old /\ old # NoCursor /\ ~Precedes(order, old, Last(K)))
    BY <2>2 DEF new, Further
  <2>4. CASE new = old /\ old # NoCursor /\ ~Precedes(order, old, Last(K))
    <3>1. old \in Keys(order)
      BY <1>8, <2>4 DEF old
    <3>2. old = Last(K) \/ Precedes(order, Last(K), old)
      BY <2>2, <2>4, <3>1, RowOrder
    <3> QED BY <2>1, <2>2, <2>4, <3>1, <3>2, RowOrder
  <2> QED BY <2>1, <2>3, <2>4
<1>14. ASSUME ~seek.before, ~more PROVE pending' = {}
  <2>1. rows = side
    BY <1>4, <1>14
  <2>2. CASE seek.cursor = NoCursor
    BY <1>7, <2>1, <2>2
  <2>3. CASE seek.cursor # NoCursor
    <3>1. ASSUME NEW k \in owed PROVE k \in side
      <4>1. Precedes(order, c, k)
        BY <1>3, <1>8, <1>9, <1>10, <2>3, RowOrder
      <4> QED BY <1>8, <1>14, <4>1
    <3> QED BY <1>7, <2>1, <2>3, <3>1
  <2> QED BY <2>2, <2>3
<1>15. PageRows(res'.keys) = rows /\ res'.truncated = more
  BY <1>2 DEF rows
<1> QED
  BY <1>6, <1>12, <1>13, <1>14, <1>15 DEF PageInFlight

\* Nothing but RunSelect changes what is in flight for the worse.
LEMMA WalkStep == TypeOK /\ WalkInv /\ [Next]_vars => WalkInv'
<1> SUFFICES ASSUME TypeOK, WalkInv, [Next]_vars PROVE WalkInv'
  OBVIOUS
<1>1. ASSUME NEW p \in Requests, Seek(p) PROVE WalkInv'
  <2>1. /\ p.after \in {NoCursor, shown.end} /\ p.before \in {NoCursor, shown.start}
    BY DEF Requests
  <2>2. /\ seek'.cursor = (IF p.before # NoCursor THEN p.before ELSE p.after)
        /\ seek'.before <=> p.before # NoCursor
        /\ pc' = "select" /\ UNCHANGED <<order, frontier, owed, shown>>
    BY <1>1 DEF Seek, query, history
  <2>3. Behind(seek'.cursor)
    BY <2>1, <2>2 DEF WalkInv, CursorsBehind, Behind
  <2> QED
    BY <2>2, <2>3 DEF WalkInv, NothingSkipped, ExhaustedMeansAllSeen,
                      CursorsBehind, PageInFlight, Behind
<1>2. CASE RunSelect
  <2>1. pc = "select" /\ UNCHANGED <<order, frontier, owed, shown, seek>>
    BY <1>2 DEF RunSelect, query
  <2>2. PageInFlight'
    BY <1>2, <2>1, SelectInFlight
  <2> QED
    BY <2>1, <2>2 DEF WalkInv, NothingSkipped, ExhaustedMeansAllSeen,
                      CursorsBehind, Behind
<1>3. CASE RunCount
  <2>1. /\ res'.keys = res.keys /\ res'.truncated = res.truncated
        /\ pc = "count"
        /\ UNCHANGED <<order, frontier, owed, pending, shown, seek>>
    BY <1>3 DEF RunCount, query, history, TypeOK
  <2>2. FrontierAfter' = FrontierAfter /\ PageRows(res'.keys) = PageRows(res.keys)
    BY <2>1 DEF FrontierAfter, Further, Last
  <2> QED
    BY <2>1, <2>2 DEF WalkInv, NothingSkipped, ExhaustedMeansAllSeen,
                      CursorsBehind, Behind, PageInFlight
<1>4. CASE Fail
  <2>1. /\ pc' = "idle" /\ seek'.before = FALSE
        /\ UNCHANGED <<order, frontier, owed, shown>>
    BY <1>4 DEF Fail, query, NoSeek
  <2> QED
    BY <2>1 DEF WalkInv, NothingSkipped, ExhaustedMeansAllSeen,
                CursorsBehind, Behind, PageInFlight
<1>5. CASE Return
  <2> DEFINE cursors == [i \in DOMAIN res.keys |-> EncodeCursor(res.keys[i])]
  <2>1. /\ pc = "return" /\ pc' = "idle" /\ seek'.before = FALSE
        /\ order' = order /\ owed' = pending /\ frontier' = FrontierAfter
        /\ shown' = [start |-> IF cursors = << >> THEN NoCursor ELSE cursors[1],
                     end |-> Last(cursors), truncated |-> res.truncated,
                     total |-> res.total, totalSet |-> res.totalSet,
                     before |-> seek.before]
    BY <1>5 DEF Return, query, NoSeek
  <2>2. /\ \A k \in pending : FrontierAfter # NoCursor /\ Precedes(order, FrontierAfter, k)
        /\ \A k \in PageRows(res.keys) :
              k = FrontierAfter \/ Precedes(order, k, FrontierAfter)
        /\ ~seek.before /\ ~res.truncated => pending = {}
    BY <2>1 DEF WalkInv, PageInFlight
  <2>3. NothingSkipped'
    BY <2>1, <2>2 DEF NothingSkipped
  <2>4. ExhaustedMeansAllSeen'
    BY <2>1, <2>2 DEF ExhaustedMeansAllSeen
  <2>5. PICK n \in Nat : res.keys \in [1..n -> Keys(order)]
    BY DEF TypeOK
  <2>6. ASSUME NEW i \in 1..n
        PROVE  DecodeCursor(cursors[i]) = FrontierAfter
                 \/ Precedes(order, DecodeCursor(cursors[i]), FrontierAfter)
    <3>1. res.keys[i] \in PageRows(res.keys) /\ res.keys[i] \in Keys(order)
      BY <2>5 DEF PageRows
    <3>2. DecodeCursor(cursors[i]) = res.keys[i]
      BY <2>5, <3>1, CursorRoundTrip DEF TypeOK
    <3> QED BY <2>2, <3>1, <3>2
  <2>7. n > 0 => FrontierAfter # NoCursor
    <3> SUFFICES ASSUME n > 0 PROVE FrontierAfter # NoCursor
      OBVIOUS
    <3>1. n \in 1..n /\ Len(res.keys) = n /\ res.keys # << >>
      BY <2>5
    <3>2. Last(res.keys) \in Keys(order)
      BY <2>5, <3>1 DEF Last
    <3> QED BY <3>2, RowOrder DEF FrontierAfter, Further
  <2>8. /\ DOMAIN cursors = 1..n /\ Len(cursors) = n
        /\ cursors = << >> <=> n = 0
    BY <2>5
  <2> HIDE DEF cursors
  <2>9. /\ shown'.start = NoCursor \/ \E i \in 1..n : shown'.start = cursors[i]
        /\ shown'.end = NoCursor \/ \E i \in 1..n : shown'.end = cursors[i]
    <3>1. n = 0 \/ (1 \in 1..n /\ n \in 1..n)
      BY <2>5
    <3> QED BY <2>1, <2>8, <3>1 DEF Last
  <2>10. Behind(shown.start)' /\ Behind(shown.end)'
    <3>1. n \in Nat /\ \A i \in 1..n : n > 0
      BY <2>5
    <3> QED BY <2>1, <2>6, <2>7, <2>9, <3>1 DEF Behind
  <2> QED
    BY <2>1, <2>3, <2>4, <2>10 DEF WalkInv, CursorsBehind, PageInFlight
<1>6. CASE Writer
  <2>1. /\ owed' \subseteq owed /\ pending' \subseteq pending
        /\ UNCHANGED <<order, pc, seek, res, shown, frontier>>
    BY <1>6 DEF Writer, Insert, Delete, Move, Write, query, call
  <2>2. FrontierAfter' = FrontierAfter
    BY <2>1 DEF FrontierAfter, Further, Last
  <2> QED
    BY <2>1, <2>2 DEF WalkInv, NothingSkipped, ExhaustedMeansAllSeen,
                      CursorsBehind, Behind, PageInFlight, PageRows
<1>7. CASE UNCHANGED vars
  BY <1>7 DEF vars, query, call, history, WalkInv, NothingSkipped,
              ExhaustedMeansAllSeen, CursorsBehind, Behind, PageInFlight,
              FrontierAfter, Further, Last, PageRows
<1> QED BY <1>1, <1>2, <1>3, <1>4, <1>5, <1>6, <1>7 DEF Next, Call

LEMMA WalkInvariant == Spec => []WalkInv
<1>1. Init => WalkInv
  BY DEF Init, WalkInv, NothingSkipped, ExhaustedMeansAllSeen, CursorsBehind,
         Behind, PageInFlight, NoInfo, NoSeek
<1> QED BY <1>1, WalkStep, TypeCorrect, PTL DEF Spec

\* No row that stays in the table from the walk's first page on is ever left
\* behind by it, whatever is inserted, deleted, moved, retried or re-read.
THEOREM WalkSkipsNothing == Spec => []NothingSkipped
<1>1. WalkInv => NothingSkipped
  BY DEF WalkInv
<1> QED BY <1>1, WalkInvariant, PTL

\* A forward page that is not Truncated ends the walk: nothing is still owed.
THEOREM WalkEndsComplete == Spec => []ExhaustedMeansAllSeen
<1>1. WalkInv => ExhaustedMeansAllSeen
  BY DEF WalkInv
<1> QED BY <1>1, WalkInvariant, PTL

-----------------------------------------------------------------------------
(* Refinement.                                                             *)

\* Records with different fields differ.
LEMMA SomethingIsNotNothing ==
  /\ \A a, b, n : [from |-> a, back |-> b, size |-> n] # P!Nothing
  /\ \A r, m : [rows |-> r, more |-> m] # P!Nothing
BY DEF P!Nothing

LEMMA RefinesStep ==
  TypeOK /\ WalkInv /\ [Next]_vars => [P!Next]_(P!vars)
<1> SUFFICES ASSUME TypeOK, WalkInv, [Next]_vars PROVE P!Next \/ UNCHANGED P!vars
  OBVIOUS
<1>1. ASSUME NEW p \in Requests, Seek(p) PROVE P!Ask
  <2>1. /\ pc = "idle" /\ pc' = "select" /\ UNCHANGED <<order, db, res, shown>>
        /\ seek'.cursor = (IF p.before # NoCursor THEN p.before ELSE p.after)
        /\ seek'.before = (p.before # NoCursor)
        /\ seek'.size = p.size /\ p.size > 0
    BY <1>1 DEF Seek, query
  <2>2. p.after \in {NoCursor, shown.end} /\ p.before \in {NoCursor, shown.start}
    BY DEF Requests
  <2>3. Asked = P!Nothing
    BY <2>1 DEF Asked, P!Nothing
  <2>4. Asked' = [from |-> DecodeCursor(seek'.cursor), back |-> seek'.before,
                  size |-> seek'.size]
    BY <2>1 DEF Asked
  <2>5. DecodeCursor(seek'.cursor) \in {P!NoRow, Seen.first, Seen.last}
    BY <2>1, <2>2, NoCursorDecodes DEF Seen, P!NoRow
  <2>6. seek'.before => DecodeCursor(seek'.cursor) # P!NoRow
    <3> SUFFICES ASSUME p.before # NoCursor PROVE DecodeCursor(p.before) # P!NoRow
      BY <2>1
    <3>1. p.before \in Cursors(order) /\ order \in Orders
      BY <2>2 DEF TypeOK
    <3>2. DecodeCursor(p.before) \in Keys(order)
      BY <3>1, CursorKey
    <3> QED BY <3>2, RowOrder DEF P!NoRow, NoCursor
  <2>7. UNCHANGED <<order, db, Got, Seen>>
    BY <2>1 DEF Got, Seen
  <2>8. Asked' \in [from : {P!NoRow, Seen.first, Seen.last}, back : BOOLEAN,
                    size : Nat \ {0}]
    <3>1. p.size \in Int
      BY KeysetAssumption DEF Requests
    <3>2. seek'.size \in Nat \ {0} /\ seek'.before \in BOOLEAN
      BY <2>1, <3>1
    <3> QED BY <2>4, <2>5, <3>2
  <2>9. Asked'.back => Asked'.from # P!NoRow
    BY <2>4, <2>6
  <2> QED BY <2>3, <2>7, <2>8, <2>9 DEF P!Ask
<1>2. CASE RunSelect
  <2>1. /\ pc = "select" /\ pc' \in {"count", "return"}
        /\ UNCHANGED <<order, db, seek, shown>>
    BY <1>2 DEF RunSelect, query
  <2>2. PICK w \in Answers(IF seek.before THEN ReverseOrder(order) ELSE order,
                           Admitted(db, seek), seek.size + 1) :
          res' = [NoResult EXCEPT !.keys = PageOf(w, seek),
                                  !.truncated = Len(w) > seek.size]
    BY <1>2 DEF RunSelect
  <2>3. res'.keys = PageOf(w, seek) /\ res'.truncated = (Len(w) > seek.size)
    BY <2>2 DEF NoResult
  <2>4. Asked = [from |-> DecodeCursor(seek.cursor), back |-> seek.before,
                 size |-> seek.size]
    BY <2>1 DEF Asked
  <2>5. Got' = [rows |-> PageOf(w, seek), more |-> Len(w) > seek.size]
    BY <2>1, <2>3 DEF Got
  <2>6. P!IsWindow(db, Asked, Got')
    BY <2>4, <2>5, SelectFindsWindow
  <2>7. Asked # P!Nothing /\ Got = P!Nothing /\ Got' # P!Nothing
    BY <2>1, <2>4, <2>5, SomethingIsNotNothing DEF Got, P!Nothing
  <2>8. UNCHANGED <<order, db, Asked, Seen>>
    BY <2>1 DEF Asked, Seen
  <2> QED BY <2>6, <2>7, <2>8 DEF P!Next, P!Look
<1>3. CASE RunCount
  <2>1. /\ res'.keys = res.keys /\ res'.truncated = res.truncated
        /\ pc = "count" /\ pc' = "return"
        /\ UNCHANGED <<order, db, seek, shown>>
    BY <1>3 DEF RunCount, query, TypeOK
  <2> QED BY <2>1 DEF P!vars, Asked, Got, Seen
<1>4. CASE Fail
  <2>1. /\ pc \in {"select", "count"} /\ pc' = "idle"
        /\ UNCHANGED <<order, db, shown>>
    BY <1>4 DEF Fail, query
  <2>2. Asked # P!Nothing
    BY <2>1, SomethingIsNotNothing DEF Asked
  <2>3. Asked' = P!Nothing /\ Got' = P!Nothing /\ Seen' = Seen
    BY <2>1 DEF Asked, Got, Seen, P!Nothing
  <2> QED BY <2>1, <2>2, <2>3 DEF P!Next, P!GiveUp
<1>5. CASE Return
  <2> DEFINE cursors == [i \in DOMAIN res.keys |-> EncodeCursor(res.keys[i])]
  <2>1. /\ pc = "return" /\ pc' = "idle" /\ UNCHANGED <<order, db>>
        /\ shown' = [start |-> IF cursors = << >> THEN NoCursor ELSE cursors[1],
                     end |-> Last(cursors), truncated |-> res.truncated,
                     total |-> res.total, totalSet |-> res.totalSet,
                     before |-> seek.before]
    BY <1>5 DEF Return, query
  <2>2. PICK n \in Nat : res.keys \in [1..n -> Keys(order)]
    BY DEF TypeOK
  <2>3. /\ DOMAIN cursors = 1..n /\ Len(cursors) = n
        /\ Len(res.keys) = n
        /\ cursors = << >> <=> n = 0
        /\ res.keys = << >> <=> n = 0
        /\ n = 0 \/ (1 \in 1..n /\ n \in 1..n)
    BY <2>2
  <2>4. \A i \in 1..n : DecodeCursor(cursors[i]) = res.keys[i]
    BY <2>2, CursorRoundTrip DEF TypeOK
  <2> HIDE DEF cursors
  <2>5. DecodeCursor(shown'.start)
          = IF res.keys = << >> THEN P!NoRow ELSE res.keys[1]
    BY <2>1, <2>3, <2>4, NoCursorDecodes DEF P!NoRow
  <2>6. DecodeCursor(shown'.end)
          = IF res.keys = << >> THEN P!NoRow ELSE res.keys[Len(res.keys)]
    BY <2>1, <2>3, <2>4, NoCursorDecodes DEF P!NoRow, Last
  <2>7. shown'.truncated = res.truncated
    BY <2>1
  <2>8. Got = [rows |-> res.keys, more |-> res.truncated] /\ Got # P!Nothing
    BY <2>1, SomethingIsNotNothing DEF Got
  <2>9. Got.rows = res.keys /\ Got.more = res.truncated
    BY <2>8
  <2>10. Seen' = [first |-> IF Got.rows = << >> THEN P!NoRow ELSE Got.rows[1],
                  last |-> IF Got.rows = << >> THEN P!NoRow
                                               ELSE Got.rows[Len(Got.rows)],
                  more |-> Got.more]
    BY <2>5, <2>6, <2>7, <2>9 DEF Seen
  <2>11. Asked' = P!Nothing /\ Got' = P!Nothing
    BY <2>1 DEF Asked, Got, P!Nothing
  <2> QED BY <2>1, <2>8, <2>10, <2>11 DEF P!Next, P!Show
<1>6. CASE Writer
  <2>1. UNCHANGED <<order, pc, seek, res, shown>>
    BY <1>6 DEF Writer, Insert, Delete, Move, Write, query, call
  <2> QED BY <2>1 DEF P!Next, P!Change, Asked, Got, Seen
<1>7. CASE UNCHANGED vars
  BY <1>7 DEF vars, query, call, P!vars, Asked, Got, Seen
<1> QED BY <1>1, <1>2, <1>3, <1>4, <1>5, <1>6, <1>7 DEF Next, Call, P!Next

\* Keyset paging implements Pager: what the client is shown is always the
\* window it asked for, of the table at one instant, in the declared order.
THEOREM KeysetImplementsPager == Spec => ImplementsPager
<1>1. Init => P!Init
  <2> SUFFICES ASSUME Init PROVE P!Init
    OBVIOUS
  <2>1. pc = "idle" /\ shown = NoInfo
    BY DEF Init
  <2>2. shown.start = NoCursor /\ shown.end = NoCursor /\ shown.truncated = FALSE
    BY <2>1 DEF NoInfo
  <2>3. Asked = P!Nothing /\ Got = P!Nothing
    BY <2>1 DEF Asked, Got, P!Nothing
  <2>4. Seen = [first |-> P!NoRow, last |-> P!NoRow, more |-> FALSE]
    BY <2>2, NoCursorDecodes DEF Seen, P!NoRow
  <2> QED BY <2>3, <2>4 DEF P!Init
<1> QED
  BY <1>1, RefinesStep, TypeCorrect, WalkInvariant, PTL
  DEF Spec, ImplementsPager, P!Spec

-----------------------------------------------------------------------------
(* Totals.                                                                 *)

\* In one snapshot, the page is rows of it, none twice, not all of them when
\* Truncated, and the total is their number.
TotalInv ==
    Snapshot /\ pc \in {"count", "return"} =>
        /\ PageRows(res.keys) \subseteq snap
        /\ \A i, j \in DOMAIN res.keys : i # j => res.keys[i] # res.keys[j]
        /\ res.truncated => PageRows(res.keys) # snap
        /\ res.totalSet => res.total = Cardinality(snap)

LEMMA SelectTotal ==
    ASSUME TypeOK, RunSelect
    PROVE  TotalInv'
<1>1. PICK w \in Answers(IF seek.before THEN ReverseOrder(order) ELSE order,
                         Admitted(db, seek), seek.size + 1) :
         res' = [NoResult EXCEPT !.keys = PageOf(w, seek),
                                 !.truncated = Len(w) > seek.size]
  BY DEF RunSelect
<1> DEFINE K == PageOf(w, seek)
           m == Len(w) > seek.size
           ask == [from |-> DecodeCursor(seek.cursor), back |-> seek.before,
                   size |-> seek.size]
           got == [rows |-> K, more |-> m]
           side == {k \in db : ask.from # P!NoRow =>
                       IF ask.back THEN P!Precedes(order, k, ask.from)
                                   ELSE P!Precedes(order, ask.from, k)}
<1>2. res'.keys = K /\ res'.truncated = m /\ ~res'.totalSet
  BY <1>1 DEF NoResult
<1>3. K \in Seq(Keys(order)) /\ P!IsWindow(db, ask, got)
  BY SelectFindsWindow
<1>4. got.rows = K /\ got.more = m /\ {got.rows[i] : i \in DOMAIN got.rows} = PageRows(K)
  BY DEF PageRows
<1>5. side \subseteq db
  OBVIOUS
<1> HIDE DEF K, m, ask, got
<1>6. /\ \A i, j \in DOMAIN K : i < j => P!Precedes(order, K[i], K[j])
      /\ PageRows(K) \subseteq side
      /\ m <=> PageRows(K) # side
  BY <1>3, <1>4, Zenon DEF P!IsWindow
<1> HIDE DEF side
<1>7. \A i, j \in DOMAIN K : i # j => K[i] # K[j]
  <2> SUFFICES ASSUME NEW i \in DOMAIN K, NEW j \in DOMAIN K, i # j
               PROVE  K[i] # K[j]
    OBVIOUS
  <2>1. i \in Int /\ j \in Int /\ K[i] \in Keys(order) /\ K[j] \in Keys(order)
    BY <1>3
  <2>2. i < j \/ j < i
    BY <2>1
  <2> QED
    BY <1>6, <2>1, <2>2, SameOrder, RowOrder
<1>8. Snapshot => snap' = db
  BY DEF RunSelect
<1> QED
  BY <1>2, <1>5, <1>6, <1>7, <1>8 DEF TotalInv

LEMMA TotalStep == TypeOK /\ TotalInv /\ [Next]_vars => TotalInv'
<1> SUFFICES ASSUME TypeOK, TotalInv, [Next]_vars PROVE TotalInv'
  OBVIOUS
<1>1. ASSUME NEW p \in Requests, Seek(p) PROVE TotalInv'
  BY <1>1 DEF Seek, TotalInv
<1>2. CASE RunSelect
  BY <1>2, SelectTotal
<1>3. CASE RunCount
  BY <1>3 DEF RunCount, TotalInv, TypeOK
<1>4. CASE Fail \/ Return
  BY <1>4 DEF Fail, Return, TotalInv
<1>5. CASE Writer
  BY <1>5 DEF Writer, Insert, Delete, Move, Write, call, TotalInv
<1>6. CASE UNCHANGED vars
  BY <1>6 DEF vars, call, TotalInv
<1> QED
  BY <1>1, <1>2, <1>3, <1>4, <1>5, <1>6 DEF Next, Call

\* A sequence without repetitions is as long as the set of its elements.
LEMMA CountsOnce ==
    ASSUME NEW S, NEW s \in Seq(S),
           \A i, j \in DOMAIN s : i # j => s[i] # s[j]
    PROVE  Cardinality(PageRows(s)) = Len(s)
<1>1. s \in [1..Len(s) -> PageRows(s)] /\ Len(s) \in Nat /\ DOMAIN s = 1..Len(s)
  BY DEF PageRows
<1>2. s \in Bijection(1..Len(s), PageRows(s))
  BY <1>1 DEF Bijection, Injection, Surjection, IsInjective, PageRows
<1> QED
  BY <1>1, <1>2, FS_CountingElements DEF ExistsBijection

\* In a transaction the total never contradicts the page it comes with: it counts
\* every row returned, and one more at least when more follow (runKeyset, count).
THEOREM TotalCovers == Spec => []TotalCoversPage
<1>1. Init => TotalInv
  BY DEF Init, TotalInv
<1>2. ASSUME TypeOK, TotalInv, Snapshot, pc = "return", res.totalSet
      PROVE  Len(res.keys) + (IF res.truncated THEN 1 ELSE 0) <= res.total
  <2> DEFINE R == PageRows(res.keys)
  <2>1. res.keys \in Seq(Keys(order)) /\ IsFiniteSet(snap)
    BY <1>2 DEF TypeOK, IsTable
  <2>2. /\ R \subseteq snap /\ res.total = Cardinality(snap)
        /\ res.truncated => R # snap
        /\ \A i, j \in DOMAIN res.keys : i # j => res.keys[i] # res.keys[j]
    BY <1>2 DEF TotalInv
  <2>3. Cardinality(R) = Len(res.keys)
    BY <2>1, <2>2, CountsOnce
  <2>4. /\ Cardinality(R) <= Cardinality(snap)
        /\ Cardinality(snap) = Cardinality(R) => snap = R
    BY <2>1, <2>2, FS_Subset
  <2>5. Cardinality(snap) \in Nat /\ Len(res.keys) \in Nat
    BY <2>1, FS_CardinalityType
  <2> DEFINE n == Len(res.keys)
             t == Cardinality(snap)
  <2>6. n \in Nat /\ t \in Nat /\ n <= t /\ (res.truncated => n # t)
    BY <2>2, <2>3, <2>4, <2>5
  <2>7. res.truncated \in BOOLEAN
    BY <1>2 DEF TypeOK
  <2> HIDE DEF n, t
  <2>8. n + (IF res.truncated THEN 1 ELSE 0) <= t
    BY <2>6, <2>7
  <2> QED
    BY <2>2, <2>8 DEF n, t
<1>3. TypeOK /\ TotalInv => TotalCoversPage
  BY <1>2 DEF TotalCoversPage
<1> QED
  BY <1>1, <1>3, TotalStep, TypeCorrect, PTL DEF Spec

-----------------------------------------------------------------------------
(* The flags of a Relay connection: both follow from the page being the    *)
(* window of the declared order next to the cursor.                        *)

\* The rows on the side of the cursor that the request asks for.
Side(s) == {k \in db : s.cursor # NoCursor =>
               IF s.before THEN Precedes(order, k, DecodeCursor(s.cursor))
                           ELSE Precedes(order, DecodeCursor(s.cursor), k)}

\* What a SELECT finds, in terms of the connection returned for it.
LEMMA ConnWindow ==
    ASSUME TypeOK, RunSelect
    PROVE  /\ Nodes \subseteq Side(seek) /\ Side(seek) \subseteq db
           /\ \A r \in Nodes, k \in Side(seek) \ Nodes :
                 IF seek.before THEN Precedes(order, k, r) ELSE Precedes(order, r, k)
           /\ res'.truncated <=> Nodes # Side(seek)
           /\ Conn.hasNext = IF seek.before THEN seek.cursor # NoCursor ELSE res'.truncated
           /\ Conn.hasPrevious = IF seek.before THEN res'.truncated ELSE seek.cursor # NoCursor
<1>1. PICK w \in Answers(IF seek.before THEN ReverseOrder(order) ELSE order,
                         Admitted(db, seek), seek.size + 1) :
         res' = [NoResult EXCEPT !.keys = PageOf(w, seek),
                                 !.truncated = Len(w) > seek.size]
  BY DEF RunSelect
<1> DEFINE K == PageOf(w, seek)
           m == Len(w) > seek.size
           c == DecodeCursor(seek.cursor)
           ask == [from |-> c, back |-> seek.before, size |-> seek.size]
           got == [rows |-> K, more |-> m]
           side == Side(seek)
           rows == PageRows(K)
<1>2. res'.keys = K /\ res'.truncated = m
  BY <1>1 DEF NoResult
<1>3. P!IsWindow(db, ask, got)
  BY SelectFindsWindow
<1>4. Nodes = PageRows(K)
  <2>1. /\ DOMAIN Conn.edges = DOMAIN K
        /\ \A i \in DOMAIN K : Conn.edges[i].node = K[i]
    BY <1>2 DEF Conn, ConnectionOf
  <2> QED
    BY <2>1 DEF Nodes, PageRows
<1>5. seek.cursor = NoCursor <=> c = << >>
  <2>1. seek.cursor # NoCursor => c \in Keys(order)
    BY CursorKey DEF TypeOK
  <2> QED
    BY <2>1, NoCursorDecodes, RowOrder DEF NoCursor
<1>6. /\ rows \subseteq side
      /\ \A r \in rows, k \in side \ rows :
            IF seek.before THEN Precedes(order, k, r) ELSE Precedes(order, r, k)
      /\ m <=> rows # side
  <2>1. /\ ask.from = c /\ ask.back = seek.before /\ got.rows = K /\ got.more = m
    OBVIOUS
  <2> HIDE DEF ask, got, K, m
  <2>2. {k \in db : ask.from # P!NoRow =>
            IF ask.back THEN P!Precedes(order, k, ask.from)
                        ELSE P!Precedes(order, ask.from, k)} = side
    BY <1>5, <2>1, SameOrder DEF P!NoRow, Side, c
  <2>3. {got.rows[i] : i \in DOMAIN got.rows} = rows
    BY <2>1 DEF PageRows
  <2> HIDE DEF side, rows, c
  <2>4. /\ rows \subseteq side
        /\ \A r \in rows, k \in side \ rows :
              IF ask.back THEN P!Precedes(order, k, r) ELSE P!Precedes(order, r, k)
        /\ got.more <=> rows # side
    BY <1>3, <2>2, <2>3, Zenon DEF P!IsWindow
  <2> QED
    BY <2>1, <2>4, SameOrder
<1>7. UNCHANGED seek
  BY DEF RunSelect
<1>8. /\ Conn.hasNext = IF seek.before THEN seek.cursor # NoCursor ELSE res'.truncated
      /\ Conn.hasPrevious = IF seek.before THEN res'.truncated ELSE seek.cursor # NoCursor
  BY <1>7 DEF Conn, ConnectionOf
<1>9. Side(seek) \subseteq db
  BY DEF Side
<1> QED
  BY <1>2, <1>4, <1>6, <1>8, <1>9

\* The rows as keys of one order, and where the cursor is.
LEMMA ConnRows ==
    ASSUME TypeOK, WalkInv, RunSelect
    PROVE  /\ db \subseteq Keys(order) /\ Nodes \subseteq db
           /\ seek.cursor # NoCursor => DecodeCursor(seek.cursor) \in Keys(order)
           /\ seek.before => seek.cursor # NoCursor
           /\ seek.before \in BOOLEAN /\ res'.truncated \in BOOLEAN
           /\ \A r \in Nodes : seek.cursor # NoCursor =>
                 IF seek.before THEN Precedes(order, r, DecodeCursor(seek.cursor))
                                ELSE Precedes(order, DecodeCursor(seek.cursor), r)
<1>1. Nodes \subseteq Side(seek)
  BY ConnWindow
<1>2. res'.truncated \in BOOLEAN
  BY DEF RunSelect, NoResult
<1>3. seek.cursor # NoCursor => DecodeCursor(seek.cursor) \in Keys(order)
  BY CursorKey DEF TypeOK
<1> QED
  BY <1>1, <1>2, <1>3 DEF Side, TypeOK, WalkInv, CursorsBehind

-----------------------------------------------------------------------------
(* The theorems.                                                           *)

LEMMA DeniedStep ==
    ASSUME TypeOK, WalkInv, RunSelect, NEW k \in db \ Nodes
    PROVE  \/ PastEnd(k) /\ Conn.hasNext
           \/ PastStart(k) /\ Conn.hasPrevious
<1> DEFINE c == DecodeCursor(seek.cursor)
<1>1. k \in Keys(order) /\ Nodes \subseteq Keys(order)
  BY ConnRows
<1>2. CASE k \in Side(seek)
  <2>1. res'.truncated
    BY <1>2, ConnWindow
  <2> QED
    BY <1>2, <2>1, ConnWindow, ConnRows DEF PastEnd, PastStart
<1>3. CASE k \notin Side(seek)
  <2>1. seek.cursor # NoCursor /\ c \in Keys(order)
        /\ ~(IF seek.before THEN Precedes(order, k, c) ELSE Precedes(order, c, k))
    BY <1>3, ConnRows DEF Side
  <2>2. CASE seek.before
    <3>1. k = c \/ Precedes(order, c, k)
      BY <1>1, <2>1, <2>2, RowOrder
    <3>2. PastEnd(k)
      BY <1>1, <2>1, <2>2, <3>1, ConnRows, RowOrder DEF PastEnd
    <3> QED
      BY <2>1, <2>2, <3>2, ConnWindow
  <2>3. CASE ~seek.before
    <3>1. k = c \/ Precedes(order, k, c)
      BY <1>1, <2>1, <2>3, RowOrder
    <3>2. PastStart(k)
      BY <1>1, <2>1, <2>3, <3>1, ConnRows, RowOrder DEF PastStart
    <3> QED
      BY <2>1, <2>3, <3>2, ConnWindow
  <2> QED
    BY <2>2, <2>3
<1> QED
  BY <1>2, <1>3

\* A connection never says that nothing follows, or precedes, a page when a row
\* does (ListConnection), whatever happened to the table since the last page.
THEOREM ConnectionDeniesNoPage == Spec => NoPageDenied
<1>1. TypeOK /\ WalkInv /\ [Next]_vars =>
         [RunSelect => \A k \in db \ Nodes :
             \/ PastEnd(k) /\ Conn.hasNext
             \/ PastStart(k) /\ Conn.hasPrevious]_vars
  BY DeniedStep
<1> QED
  BY <1>1, TypeCorrect, WalkInvariant, PTL DEF Spec, NoPageDenied

LEMMA InventedStep ==
    ASSUME TypeOK, WalkInv, RunSelect
    PROVE  LET stands == DecodeCursor(seek.cursor) \in db
           IN  /\ Conn.hasNext /\ (seek.before => stands)
                    => \E k \in db \ Nodes : PastEnd(k)
               /\ Conn.hasPrevious /\ (~seek.before => stands)
                    => \E k \in db \ Nodes : PastStart(k)
<1> DEFINE c == DecodeCursor(seek.cursor)
<1>1. ASSUME res'.truncated
      PROVE  \E k \in db \ Nodes : IF seek.before THEN PastStart(k) ELSE PastEnd(k)
  <2>1. PICK k \in Side(seek) \ Nodes : TRUE
    BY <1>1, ConnWindow
  <2> QED
    BY <2>1, ConnWindow, ConnRows DEF PastStart, PastEnd
<1>2. ASSUME seek.cursor # NoCursor, c \in db
      PROVE  \E k \in db \ Nodes : IF seek.before THEN PastEnd(k) ELSE PastStart(k)
  <2>1. c \notin Nodes
    BY <1>2, ConnRows, RowOrder
  <2> QED
    BY <1>2, <2>1, ConnRows DEF PastStart, PastEnd
<1> QED
  BY <1>1, <1>2, ConnWindow, ConnRows

\* A flag that is up is right: always in the paging direction, and the other way
\* for as long as the cursor's row is there.
THEOREM ConnectionInventsNoPage == Spec => NoPageInvented
<1>1. TypeOK /\ WalkInv /\ [Next]_vars =>
         [RunSelect =>
             LET stands == DecodeCursor(seek.cursor) \in db
             IN  /\ Conn.hasNext /\ (seek.before => stands)
                      => \E k \in db \ Nodes : PastEnd(k)
                 /\ Conn.hasPrevious /\ (~seek.before => stands)
                      => \E k \in db \ Nodes : PastStart(k)]_vars
  BY InventedStep
<1> QED
  BY <1>1, TypeCorrect, WalkInvariant, PTL DEF Spec, NoPageInvented
=============================================================================
