------------------------- MODULE KeysetCasesProofs --------------------------
(***************************************************************************)
(* What KeysetCases checks for orderings of two terms, for orderings of    *)
(* any length over columns of any types and values: the three orders of a  *)
(* page are one, and a cursor binds the row it was made from and seeks     *)
(* past it.                                                                *)
(***************************************************************************)
EXTENDS KeysetCases, KeysetOrderProofs, SequenceTheorems

Type == [form : Forms, kind : Kinds]

\* A row's values: each in its column, and NULL only where it may be.
IsRow(k) == /\ k \in [DOMAIN order -> Cell]
            /\ \A i \in DOMAIN order : k[i] \in Cells(order[i], types[i])

CasesInv ==
    /\ dialect \in Dialects
    /\ \E n \in 1..MaxTerms : order \in [1..n -> OrderTerm]
    /\ types \in [DOMAIN order -> Type]
    /\ IsRow(left) /\ IsRow(right)

LEMMA CellsAreCells ==
  ASSUME NEW t \in OrderTerm, NEW type \in Type
  PROVE  /\ Cells(t, type) \subseteq Cell
         /\ t.nulls = "default" => NULL \notin Cells(t, type)
BY CursorsAssumption, NullIsNoValue DEF Cells, Cell, Type

\* What a step needs of the state: rows stay rows, under orderings that stay.
THEOREM CasesInvariant == Spec => []CasesInv
<1>1. Init => CasesInv
  <2> SUFFICES ASSUME Init PROVE CasesInv
    OBVIOUS
  <2>1. PICK n \in 1..MaxTerms : order \in [1..n -> OrderTerm]
    BY DEF Init
  <2>2. PlainInt \in Type
    BY DEF PlainInt, Type, Forms, Kinds
  <2>3. types \in [DOMAIN order -> Type]
    BY <2>2, KeysetCasesAssumption DEF Init, Type
  <2>4. \A i \in DOMAIN order :
           (CHOOSE x \in Column[types[i].kind] : TRUE) \in Column[types[i].kind]
    BY <2>3, CursorsAssumption DEF Type
  <2>5. \A i \in DOMAIN order : left[i] \in Column[types[i].kind]
    BY <2>4 DEF Init
  <2>6. \A i \in DOMAIN order : left[i] \in Cells(order[i], types[i]) /\ left[i] \in Cell
    BY <2>1, <2>3, <2>5, CellsAreCells DEF Cells
  <2>7. IsRow(left)
    BY <2>6 DEF IsRow, Init
  <2> QED BY <2>1, <2>3, <2>7 DEF CasesInv, Init
<1>2. CasesInv /\ [Next]_vars => CasesInv'
  <2> SUFFICES ASSUME CasesInv, [Next]_vars PROVE CasesInv'
    OBVIOUS
  <2>1. CASE Next
    <3>0. PICK i \in DOMAIN order : \E x \in Cells(order[i], types[i]) :
             \/ left' = [left EXCEPT ![i] = x] /\ UNCHANGED right
             \/ right' = [right EXCEPT ![i] = x] /\ UNCHANGED left
      BY <2>1 DEF Next
    <3>1. PICK x \in Cells(order[i], types[i]) :
             \/ left' = [left EXCEPT ![i] = x] /\ UNCHANGED right
             \/ right' = [right EXCEPT ![i] = x] /\ UNCHANGED left
      BY <3>0
    <3>2. UNCHANGED <<dialect, order, types>>
      BY <2>1 DEF Next
    <3>3. order[i] \in OrderTerm /\ types[i] \in Type
      BY DEF CasesInv
    <3>4. x \in Cell
      BY <3>3, CellsAreCells
    <3>5. ASSUME NEW k, IsRow(k)
          PROVE  IsRow([k EXCEPT ![i] = x])
      BY <3>4, <3>5 DEF IsRow
    <3>6. IsRow(left') /\ IsRow(right')
      BY <3>1, <3>5 DEF CasesInv
    <3>7. IsRow(left)' /\ IsRow(right)'
      BY <3>2, <3>6 DEF IsRow, Cells
    <3> QED BY <3>2, <3>7 DEF CasesInv
  <2>2. CASE UNCHANGED vars
    BY <2>2 DEF CasesInv, vars, IsRow, Cells
  <2> QED BY <2>1, <2>2
<1> QED BY <1>1, <1>2, PTL DEF Spec

-----------------------------------------------------------------------------
(* The three orders.                                                       *)

\* A row of an ordering is a key of it.
LEMMA RowsAreKeys ==
  ASSUME CasesInv
  PROVE  order \in Ordering /\ IsKey(order, left) /\ IsKey(order, right)
<1>1. order \in Ordering
  BY KeysetCasesAssumption DEF CasesInv, Ordering
<1>2. \A i \in DOMAIN order : order[i] \in OrderTerm /\ types[i] \in Type
  BY DEF CasesInv
<1>3. ASSUME NEW k, IsRow(k) PROVE IsKey(order, k)
  BY <1>2, <1>3, CellsAreCells DEF IsKey, IsRow
<1> QED BY <1>1, <1>3 DEF CasesInv

\* The ORDER BY of every dialect sorts rows as declared (orderClause).
THEOREM SortsAsDeclared == Spec => []SortIsDeclared
<1>1. CasesInv => SortIsDeclared
  BY RowsAreKeys, KeyLTDeclared DEF SortIsDeclared, CasesInv
<1> QED BY <1>1, CasesInvariant, PTL

\* A backward page's ORDER BY is the exact reverse (flipNulls).
THEOREM ReversesExactly == Spec => []ReverseIsReverse
<1>1. CasesInv => ReverseIsReverse
  BY RowsAreKeys, KeyLTDeclared, ReverseOrderDeclared DEF ReverseIsReverse, CasesInv
<1> QED BY <1>1, CasesInvariant, PTL

\* The seek predicate cuts where ORDER BY sorts, both ways (keysetCond).
THEOREM CutsWhereItSorts == Spec => []CutAgreesWithSort
<1>1. CasesInv => CutAgreesWithSort
  BY RowsAreKeys, KeyLTDeclared, KeysetCondDeclared DEF CutAgreesWithSort, CasesInv
<1> QED BY <1>1, CasesInvariant, PTL

-----------------------------------------------------------------------------
(* The cursor.                                                             *)

LEMMA TagsAreDistinct ==
  ASSUME NEW k \in DOMAIN Tag
  PROVE  Tag[k] \in DOMAIN Shape /\ KindOf(Tag[k]) = k /\ Tag[k] # "0"
BY DEF Tag, Shape, KindOf

LEMMA ElemTyped ==
  ASSUME NEW k \in DOMAIN Tag, NEW v \in Int \cup {NULL, Failed, Unreadable}
  PROVE  Elem(k, v) \in Elems
<1>1. Tag[k] \in Tags /\ Shape[Tag[k]] \in {"number", "string", "bool"}
  BY DEF Tag, Tags, Shape
<1> QED BY <1>1 DEF Elem, Elems

\* What a value encodes to, and that a portable one decodes to itself.
LEMMA ElemOf ==
  ASSUME NEW type \in Type, NEW x \in Column[type.kind] \cup {NULL}
  PROVE  LET g == Held(type, x) IN
         /\ ToCursorElem(g) # Failed => ToCursorElem(g) \in Elems
         /\ Portable(g) =>
               /\ ToCursorElem(g) \in Elems /\ ToCursorElem(g).v # Failed
               /\ FromCursorElem(ToCursorElem(g))
                     = (IF x = NULL THEN Nil ELSE Typed(type.kind, x))
<1> DEFINE g == Held(type, x)
<1> USE DEF Held
<1>0. /\ x \in Int \cup {NULL} /\ type.kind \in Kinds
      /\ x # NULL => x \in Column[type.kind]
  BY CursorsAssumption DEF Type
<1>1. CASE x = NULL /\ type.form = "plain" /\ type.kind = "bytes"
  <2>1. "bytes" \in DOMAIN Tag /\ EmptyBytes \in Int
    BY DEF Tag, EmptyBytes
  <2>2. ToCursorElem(g) = Elem("bytes", EmptyBytes)
    BY <1>1 DEF ToCursorElem
  <2>3. ~Portable(g)
    BY <1>1 DEF Portable
  <2> QED BY <2>1, <2>2, <2>3, ElemTyped
<1>2. CASE x = NULL /\ ~(type.form = "plain" /\ type.kind = "bytes")
  <2>1. ToCursorElem(g) = NilElem
    BY <1>2 DEF ToCursorElem
  <2>2. NilElem \in Elems /\ NilElem.v # Failed
    BY ErrorsAreNoValues DEF NilElem, Elems, Tags
  <2>3. FromCursorElem(NilElem) = Nil
    BY DEF FromCursorElem, NilElem
  <2> QED BY <1>2, <2>1, <2>2, <2>3
<1>3. CASE x # NULL /\ type.kind \notin DOMAIN Tag
  BY <1>3 DEF Portable, ToCursorElem, Tag
<1>4. CASE x # NULL /\ type.kind \in DOMAIN Tag
  <2>1. /\ x \in Int /\ x # Failed /\ x # Unreadable
        /\ Carried[type.kind][x] \in Int \cup {Failed, Unreadable}
    BY <1>0, <1>4, CursorsAssumption, ErrorsAreNoValues
  <2>2. ToCursorElem(g) = Elem(type.kind, Carried[type.kind][x])
    BY <1>0, <1>4, CursorsAssumption DEF ToCursorElem, Kinds
  <2>3. ToCursorElem(g) \in Elems
    BY <1>4, <2>1, <2>2, ElemTyped
  <2>4. ASSUME Portable(g)
        PROVE  /\ ToCursorElem(g).v # Failed
               /\ FromCursorElem(ToCursorElem(g)) = Typed(type.kind, x)
    <3>1. ToCursorElem(g) = Elem(type.kind, x)
      BY <1>4, <2>2, <2>4 DEF Portable
    <3>2. /\ Elem(type.kind, x).t = Tag[type.kind] /\ Elem(type.kind, x).v = x
          /\ Elem(type.kind, x).json = Shape[Tag[type.kind]]
      BY DEF Elem
    <3>3. /\ Tag[type.kind] = "i" => type.kind = "int"
          /\ Tag[type.kind] = "u" => type.kind = "uint"
      BY <1>4 DEF Tag
    <3>4. /\ Tag[type.kind] = "i" => x \in MinInt..MaxInt
          /\ Tag[type.kind] = "u" => x \in 0..(2 * MaxInt + 1)
      BY <1>0, <1>4, <3>3, CursorsAssumption
    <3>5. FromCursorElem(Elem(type.kind, x)) = Typed(KindOf(Tag[type.kind]), x)
      BY <1>4, <2>1, <3>2, <3>4, TagsAreDistinct DEF FromCursorElem, Number
    <3> QED BY <1>4, <2>1, <3>1, <3>2, <3>5, TagsAreDistinct
  <2> QED BY <1>4, <2>3, <2>4
<1> QED BY <1>1, <1>2, <1>3, <1>4

\* The key of a row, a value at a time.
LEMMA KeyOf ==
  ASSUME CasesInv
  PROVE  /\ \E n \in 1..MaxTerms : DOMAIN order = 1..n /\ Len(order) = n
         /\ DOMAIN left = DOMAIN order /\ DOMAIN Key = DOMAIN order
         /\ \A i \in DOMAIN order :
               /\ Key[i] = Held(types[i], left[i])
               /\ types[i] \in Type /\ left[i] \in Column[types[i].kind] \cup {NULL}
<1>1. PICK n \in 1..MaxTerms : order \in [1..n -> OrderTerm]
  BY DEF CasesInv
<1>2. n \in Nat
  BY KeysetCasesAssumption
<1>3. DOMAIN order = 1..n /\ Len(order) = n
  BY <1>1, <1>2, LenProperties, order \in Seq(OrderTerm)
<1>4. DOMAIN left = DOMAIN order /\ DOMAIN Key = DOMAIN order
  BY DEF CasesInv, IsRow, Key
<1>5. \A i \in DOMAIN order : left[i] \in Column[types[i].kind] \cup {NULL}
  BY DEF CasesInv, IsRow, Cells
<1> QED BY <1>3, <1>4, <1>5 DEF CasesInv, Key

\* The cursor of a portable key, and what it binds.
LEMMA CursorBinds ==
  ASSUME CasesInv, \A i \in DOMAIN Key : Portable(Key[i])
  PROVE  /\ Cursor # Failed
         /\ DecodeCursor(Cursor, Len(order))
               = [i \in DOMAIN Key |-> IF left[i] = NULL THEN Nil
                                       ELSE Typed(types[i].kind, left[i])]
         /\ DecodeCursor(Cursor, Len(order)) # Failed
<1> DEFINE elems == [i \in DOMAIN Key |-> ToCursorElem(Key[i])]
           bound(i) == IF left[i] = NULL THEN Nil ELSE Typed(types[i].kind, left[i])
           vals == [i \in DOMAIN elems |-> FromCursorElem(elems[i])]
<1>1. PICK n \in 1..MaxTerms : DOMAIN order = 1..n /\ Len(order) = n
  BY KeyOf
<1>2. \A i \in 1..n : /\ elems[i] \in Elems /\ elems[i].v # Failed
                       /\ FromCursorElem(elems[i]) = bound(i)
  BY <1>1, KeyOf, ElemOf
<1>3. \A i \in 1..n : bound(i) \in Bindings
  <2> SUFFICES ASSUME NEW i \in 1..n PROVE bound(i) \in Bindings
    OBVIOUS
  <2>1. left[i] # NULL => left[i] \in Int /\ types[i].kind \in Kinds
    BY <1>1, KeyOf, CursorsAssumption DEF Type
  <2> QED BY <2>1 DEF Bindings, Nil, Typed
<1>4. elems \in [1..n -> Elems] /\ elems # Failed
  BY <1>1, <1>2, KeyOf, KeysetCasesAssumption
<1>5. Cursor = elems
  BY <1>1, <1>2, KeyOf, ErrorsAreNoValues DEF Cursor, EncodeCursor
<1>6. vals = [i \in DOMAIN Key |-> bound(i)]
  BY <1>1, <1>2, KeyOf
<1>7. Len(elems) = Len(order)
  BY <1>1, <1>4, KeysetCasesAssumption, LenProperties, elems \in Seq(Elems)
<1>8. \A i \in DOMAIN vals : vals[i] # Failed
  BY <1>1, <1>2, <1>3, KeyOf, ErrorsAreNoValues
<1>9. DecodeCursor(elems, Len(order)) = vals
  BY <1>7, <1>8 DEF DecodeCursor
<1>10. vals # Failed
  <2>1. [i \in DOMAIN Key |-> bound(i)] \in [1..n -> Bindings]
    BY <1>1, <1>3, KeyOf
  <2> QED BY <1>6, <2>1, KeysetCasesAssumption
<1> QED BY <1>4, <1>5, <1>6, <1>9, <1>10

\* A page resumes at the row it ended with: the cursor of a portable key binds
\* that key's own values, each of its own type (encodeCursor, decodeCursor).
THEOREM CursorsBindTheirRow == Spec => []CursorBindsItsRow
<1>1. CasesInv => CursorBindsItsRow
  BY CursorBinds DEF CursorBindsItsRow
<1> QED BY <1>1, CasesInvariant, PTL

\* From a row's cursor, of columns of any types, the seek predicate admits the
\* rows declared past the row, whichever way the columns are sorted by then.
THEOREM CursorsSeekPastTheirRow == Spec => []CursorSeeksPastItsRow
<1>1. CasesInv => CursorSeeksPastItsRow
  <2> DEFINE bound == DecodeCursor(Cursor, Len(order))
             at == [i \in DOMAIN bound |-> bound[i].cell]
  <2> SUFFICES ASSUME CasesInv, \A i \in DOMAIN Key : Portable(Key[i])
               PROVE  /\ bound # Failed
                      /\ \A now \in [DOMAIN order -> OrderTerm] :
                            (\A i \in DOMAIN now :
                                NULL \in {left[i], right[i]} => now[i].nulls # "default") =>
                            /\ KeysetCond(now, at, FALSE, right) = "true" <=> Precedes(now, left, right)
                            /\ KeysetCond(now, at, TRUE, right) = "true" <=> Precedes(now, right, left)
    BY DEF CursorSeeksPastItsRow
  <2>1. bound # Failed
    BY CursorBinds
  <2>2. at = left
    <3>1. /\ DOMAIN bound = DOMAIN left
          /\ \A i \in DOMAIN left : bound[i] = IF left[i] = NULL THEN Nil
                                               ELSE Typed(types[i].kind, left[i])
      BY CursorBinds, KeyOf
    <3>2. \A i \in DOMAIN left : bound[i].cell = left[i]
      BY <3>1 DEF Nil, Typed
    <3> HIDE DEF bound
    <3>3. left = [i \in DOMAIN left |-> left[i]]
      BY DEF CasesInv, IsRow
    <3> QED BY <3>1, <3>2, <3>3
  <2> HIDE DEF bound, at
  <2>3. ASSUME NEW now \in [DOMAIN order -> OrderTerm],
               \A i \in DOMAIN now :
                  NULL \in {left[i], right[i]} => now[i].nulls # "default"
        PROVE  now \in Ordering /\ IsKey(now, left) /\ IsKey(now, right)
    <3>1. now \in Ordering
      BY RowsAreKeys, KeysetCasesAssumption DEF CasesInv, Ordering
    <3>2. IsKey(now, left) /\ IsKey(now, right)
      BY <2>3 DEF CasesInv, IsRow, IsKey
    <3> QED BY <3>1, <3>2
  <2> QED BY <2>1, <2>2, <2>3, KeysetCondDeclared
<1> QED BY <1>1, CasesInvariant, PTL
=============================================================================
