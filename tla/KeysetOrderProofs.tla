------------------------- MODULE KeysetOrderProofs --------------------------
(***************************************************************************)
(* The three orders of a keyset page are one: what OrderBy declares, what  *)
(* the emitted ORDER BY sorts by in every dialect, and what the emitted    *)
(* seek predicate cuts by, forward and backward - for orderings of any     *)
(* length and any integer values.                                          *)
(***************************************************************************)
EXTENDS KeysetOrder, WellFoundedInduction, TLAPS

Ordering == Seq(OrderTerm)
Cell     == Int \cup {NULL}

\* A key an ordering is meant for: NULL only where a placement is declared.
IsKey(o, k) == /\ k \in [DOMAIN o -> Cell]
               /\ \A i \in DOMAIN o : o[i].nulls = "default" => k[i] # NULL

-----------------------------------------------------------------------------
(* One term.                                                               *)

\* What one ORDER BY term sorts by is what it declares, in every dialect.
LEMMA TermLTDeclared ==
  ASSUME NEW d \in Dialects, NEW t \in OrderTerm, NEW a \in Cell, NEW b \in Cell,
         t.nulls = "default" => a # NULL /\ b # NULL
  PROVE  TermLT(d, t, a, b) <=> ColumnBefore(t, a, b)
<1> USE NullIsNoValue DEF Cell, OrderTerm, NullsPos, Dialects
<1> USE DEF TermLT, ColumnBefore, OrderClause, SortKeyLT, DefaultNulls
<1>1. CASE t.nulls = "default"
  BY <1>1
<1>2. CASE t.nulls # "default" /\ d # "mysql"
  BY <1>2
<1>3. CASE t.nulls # "default" /\ d = "mysql"
  BY <1>3
<1> QED BY <1>1, <1>2, <1>3

\* afterCompare admits exactly the values on the far side of the boundary.
LEMMA AfterCompareDeclared ==
  ASSUME NEW t \in OrderTerm, NEW v \in Cell, NEW x \in Cell,
         t.nulls = "default" => v # NULL /\ x # NULL
  PROVE  /\ ~NoBranch(t, v, FALSE) /\ AfterCompare(t, v, FALSE, x) = "true"
               <=> ColumnBefore(t, v, x)
         /\ ~NoBranch(t, v, TRUE) /\ AfterCompare(t, v, TRUE, x) = "true"
               <=> ColumnBefore(t, x, v)
<1> USE NullIsNoValue DEF Cell, OrderTerm, NullsPos, Or3, Decided
<1> USE DEF AfterCompare, NoBranch, Placement, FlipNulls, ColumnBefore
<1> USE DEF SqlGt, SqlLt, SqlIsNull, SqlIsNotNull
<1>1. CASE t.nulls = "default"
  BY <1>1
<1>2. CASE t.nulls = "first"
  BY <1>2
<1>3. CASE t.nulls = "last"
  BY <1>3
<1> QED BY <1>1, <1>2, <1>3

\* Reversing a term's direction and NULL placement reverses what it declares.
LEMMA ReverseTerm ==
  ASSUME NEW t \in OrderTerm, NEW a \in Cell, NEW b \in Cell
  PROVE  LET r == [desc |-> ~t.desc, nulls |-> FlipNulls(t.nulls)]
         IN  /\ r \in OrderTerm
             /\ r.nulls = "default" <=> t.nulls = "default"
             /\ ColumnBefore(r, a, b) <=> ColumnBefore(t, b, a)
BY NullIsNoValue DEF Cell, OrderTerm, NullsPos, FlipNulls, ColumnBefore

\* A term orders its values strictly, and totally where NULL is placed.
LEMMA ColumnBeforeStrict ==
  ASSUME NEW t \in OrderTerm, NEW a \in Cell, NEW b \in Cell, NEW c \in Cell
  PROVE  /\ ~ColumnBefore(t, a, a)
         /\ ColumnBefore(t, a, b) => ~ColumnBefore(t, b, a)
         /\ ColumnBefore(t, a, b) /\ ColumnBefore(t, b, c) => ColumnBefore(t, a, c)
         /\ (t.nulls = "default" => a # NULL /\ b # NULL) =>
               a = b \/ ColumnBefore(t, a, b) \/ ColumnBefore(t, b, a)
BY NullIsNoValue DEF Cell, OrderTerm, NullsPos, ColumnBefore

-----------------------------------------------------------------------------
(* Whole orderings.                                                        *)

\* A non-empty set of naturals has a least member.
LEMMA LeastIndex ==
  ASSUME NEW S \in SUBSET Nat, S # {}
  PROVE  \E i \in S : \A j \in S : i <= j
<1> DEFINE R == {p \in Nat \X Nat : p[1] < p[2]}
<1>1. IsWellFoundedOn(R, Nat)
  BY NatLessThanWellFounded DEF OpToRel
<1> HIDE DEF R
<1>2. PICK i \in S : \A j \in S : ~(<<j, i>> \in R)
  BY <1>1, WFMin
<1>3. \A j \in S : ~(j < i)
  BY <1>2 DEF R
<1> QED BY <1>3

\* The declared order is a strict total order on the keys it is meant for.
THEOREM PrecedesIrreflexive ==
  ASSUME NEW o \in Ordering, NEW a, IsKey(o, a)
  PROVE  ~Precedes(o, a, a)
<1> SUFFICES ASSUME NEW i \in DOMAIN o, ColumnBefore(o[i], a[i], a[i]) PROVE FALSE
  BY DEF Precedes
<1>1. o[i] \in OrderTerm /\ a[i] \in Cell
  BY DEF Ordering, IsKey
<1> QED BY <1>1, ColumnBeforeStrict

THEOREM PrecedesTransitive ==
  ASSUME NEW o \in Ordering, NEW a, NEW b, NEW c,
         IsKey(o, a), IsKey(o, b), IsKey(o, c),
         Precedes(o, a, b), Precedes(o, b, c)
  PROVE  Precedes(o, a, c)
<1>1. PICK i \in DOMAIN o : /\ \A l \in 1..(i - 1) : a[l] = b[l]
                            /\ ColumnBefore(o[i], a[i], b[i])
  BY DEF Precedes
<1>2. PICK j \in DOMAIN o : /\ \A l \in 1..(j - 1) : b[l] = c[l]
                            /\ ColumnBefore(o[j], b[j], c[j])
  BY DEF Precedes
<1>3. i \in Nat /\ j \in Nat /\ i >= 1 /\ j >= 1
  BY DEF Ordering
<1>4. o[i] \in OrderTerm /\ a[i] \in Cell /\ b[i] \in Cell /\ c[i] \in Cell
  BY DEF Ordering, IsKey
<1>5. CASE i < j
  <2>1. b[i] = c[i] /\ \A l \in 1..(i - 1) : a[l] = c[l]
    BY <1>1, <1>2, <1>3, <1>5
  <2> QED BY <1>1, <2>1 DEF Precedes
<1>6. CASE j < i
  <2>1. a[j] = b[j] /\ \A l \in 1..(j - 1) : a[l] = c[l]
    BY <1>1, <1>2, <1>3, <1>6
  <2> QED BY <1>2, <2>1 DEF Precedes
<1>7. CASE i = j
  <2>1. ColumnBefore(o[i], a[i], c[i])
    BY <1>1, <1>2, <1>4, <1>7, ColumnBeforeStrict
  <2>2. \A l \in 1..(i - 1) : a[l] = c[l]
    BY <1>1, <1>2, <1>7
  <2> QED BY <2>1, <2>2 DEF Precedes
<1> QED BY <1>3, <1>5, <1>6, <1>7

THEOREM PrecedesTotal ==
  ASSUME NEW o \in Ordering, NEW a, NEW b, IsKey(o, a), IsKey(o, b), a # b
  PROVE  Precedes(o, a, b) \/ Precedes(o, b, a)
<1> DEFINE S == {i \in DOMAIN o : a[i] # b[i]}
<1>1. S # {}
  BY DEF IsKey
<1>2. S \in SUBSET Nat
  BY DEF Ordering
<1>3. PICK i \in S : \A j \in S : i <= j
  BY <1>1, <1>2, LeastIndex
<1>4. i \in DOMAIN o /\ a[i] # b[i]
  OBVIOUS
<1>5. \A l \in 1..(i - 1) : a[l] = b[l]
  <2> SUFFICES ASSUME NEW l \in 1..(i - 1) PROVE a[l] = b[l]
    OBVIOUS
  <2>1. l \in DOMAIN o /\ ~(i <= l)
    BY <1>4 DEF Ordering
  <2> QED BY <2>1, <1>3
<1>6. ColumnBefore(o[i], a[i], b[i]) \/ ColumnBefore(o[i], b[i], a[i])
  <2>1. o[i] \in OrderTerm /\ a[i] \in Cell /\ b[i] \in Cell
    BY <1>4 DEF Ordering, IsKey
  <2>2. o[i].nulls = "default" => a[i] # NULL /\ b[i] # NULL
    BY <1>4 DEF IsKey
  <2> QED BY <1>4, <2>1, <2>2, ColumnBeforeStrict
<1> QED BY <1>4, <1>5, <1>6 DEF Precedes

\* The emitted ORDER BY sorts by the declared order, in every dialect.
THEOREM KeyLTDeclared ==
  ASSUME NEW d \in Dialects, NEW o \in Ordering, NEW a, NEW b,
         IsKey(o, a), IsKey(o, b)
  PROVE  KeyLT(d, o, a, b) <=> Precedes(o, a, b)
<1>1. ASSUME NEW i \in DOMAIN o
      PROVE  TermLT(d, o[i], a[i], b[i]) <=> ColumnBefore(o[i], a[i], b[i])
  <2>1. o[i] \in OrderTerm /\ a[i] \in Cell /\ b[i] \in Cell
    BY DEF Ordering, IsKey
  <2>2. o[i].nulls = "default" => a[i] # NULL /\ b[i] # NULL
    BY DEF IsKey
  <2> QED BY <2>1, <2>2, TermLTDeclared
<1> QED BY <1>1, Zenon DEF KeyLT, Precedes

\* The reversed ORDER BY of a backward page is the declared order backward.
THEOREM ReverseOrderDeclared ==
  ASSUME NEW d \in Dialects, NEW o \in Ordering, NEW a, NEW b,
         IsKey(o, a), IsKey(o, b)
  PROVE  KeyLT(d, ReverseOrder(o), a, b) <=> Precedes(o, b, a)
<1> DEFINE r == ReverseOrder(o)
<1>1. /\ DOMAIN r = DOMAIN o
      /\ \A i \in DOMAIN o : r[i] = [desc |-> ~o[i].desc,
                                     nulls |-> FlipNulls(o[i].nulls)]
  BY DEF ReverseOrder
<1>2. ASSUME NEW i \in DOMAIN o
      PROVE  /\ r[i] \in OrderTerm
             /\ r[i].nulls = "default" <=> o[i].nulls = "default"
             /\ ColumnBefore(r[i], a[i], b[i]) <=> ColumnBefore(o[i], b[i], a[i])
  <2>1. o[i] \in OrderTerm /\ a[i] \in Cell /\ b[i] \in Cell
    BY DEF Ordering, IsKey
  <2> QED BY <1>1, <2>1, ReverseTerm
<1> HIDE DEF r
<1>3. r \in Ordering
  <2>1. PICK n \in Nat : DOMAIN o = 1..n
    BY DEF Ordering
  <2>2. r = [i \in 1..n |-> r[i]]
    BY <1>1, <2>1 DEF r, ReverseOrder
  <2>3. r \in [1..n -> OrderTerm]
    BY <1>2, <2>1, <2>2
  <2> QED BY <2>3 DEF Ordering
<1>4. IsKey(r, a) /\ IsKey(r, b)
  BY <1>1, <1>2 DEF IsKey
<1>5. KeyLT(d, r, a, b) <=> Precedes(r, a, b)
  BY <1>3, <1>4, KeyLTDeclared
<1>6. Precedes(r, a, b) <=> Precedes(o, b, a)
  BY <1>1, <1>2, Zenon DEF Precedes
<1> QED BY <1>5, <1>6 DEF r

\* The seek predicate admits a row exactly when the declared order puts it
\* past the boundary, in either direction; a NULL anywhere never makes it
\* unknown where the row must be admitted.
THEOREM KeysetCondDeclared ==
  ASSUME NEW o \in Ordering, NEW v, NEW k, IsKey(o, v), IsKey(o, k)
  PROVE  /\ KeysetCond(o, v, FALSE, k) = "true" <=> Precedes(o, v, k)
         /\ KeysetCond(o, v, TRUE, k) = "true" <=> Precedes(o, k, v)
<1>1. ASSUME NEW before \in BOOLEAN
      PROVE  KeysetCond(o, v, before, k) = "true" <=>
               \E i \in DOMAIN o :
                  /\ ~NoBranch(o[i], v[i], before)
                  /\ AfterCompare(o[i], v[i], before, k[i]) = "true"
                  /\ \A j \in 1..(i - 1) : NullEq(k[j], v[j]) = "true"
  <2> DEFINE Branches == {i \in DOMAIN o : ~NoBranch(o[i], v[i], before)}
             Parts(i) == {NullEq(k[j], v[j]) : j \in 1..(i - 1)}
                         \cup {AfterCompare(o[i], v[i], before, k[i])}
  <2>1. KeysetCond(o, v, before, k) = Or3({And3(Parts(i)) : i \in Branches})
    BY DEF KeysetCond
  <2>2. ASSUME NEW i \in DOMAIN o
        PROVE  And3(Parts(i)) = "true" <=> \A p \in Parts(i) : p = "true"
    <3>1. ASSUME NEW p \in Parts(i) PROVE p \in Truth
      BY DEF Truth, NullEq, AfterCompare, SqlEq, SqlGt, SqlLt, SqlIsNull,
             SqlIsNotNull, Decided, Or3
    <3> HIDE DEF Parts
    <3> QED BY <3>1 DEF And3, Truth
  <2>3. \A S : Or3(S) = "true" <=> "true" \in S
    BY DEF Or3
  <2>4. KeysetCond(o, v, before, k) = "true" <=>
          \E i \in Branches : And3(Parts(i)) = "true"
    <3> HIDE DEF Branches, Parts
    <3> QED BY <2>1, <2>3
  <2> QED BY <2>2, <2>4
<1>2. ASSUME NEW j \in DOMAIN o
      PROVE  NullEq(k[j], v[j]) = "true" <=> v[j] = k[j]
  BY DEF IsKey, NullEq, SqlEq, SqlIsNull, Decided
<1>3. ASSUME NEW i \in DOMAIN o
      PROVE  (\A j \in 1..(i - 1) : NullEq(k[j], v[j]) = "true")
               <=> \A j \in 1..(i - 1) : v[j] = k[j]
  <2>1. \A j \in 1..(i - 1) : j \in DOMAIN o
    BY DEF Ordering
  <2> QED BY <1>2, <2>1
<1>4. ASSUME NEW i \in DOMAIN o
      PROVE  /\ ~NoBranch(o[i], v[i], FALSE)
                /\ AfterCompare(o[i], v[i], FALSE, k[i]) = "true"
                  <=> ColumnBefore(o[i], v[i], k[i])
             /\ ~NoBranch(o[i], v[i], TRUE)
                /\ AfterCompare(o[i], v[i], TRUE, k[i]) = "true"
                  <=> ColumnBefore(o[i], k[i], v[i])
  <2>1. o[i] \in OrderTerm /\ v[i] \in Cell /\ k[i] \in Cell
    BY DEF Ordering, IsKey
  <2>2. o[i].nulls = "default" => v[i] # NULL /\ k[i] # NULL
    BY DEF IsKey
  <2> QED BY <2>1, <2>2, AfterCompareDeclared
<1>5. KeysetCond(o, v, FALSE, k) = "true" <=> Precedes(o, v, k)
  BY <1>1, <1>3, <1>4 DEF Precedes
<1>6. KeysetCond(o, v, TRUE, k) = "true" <=> Precedes(o, k, v)
  BY <1>1, <1>3, <1>4 DEF Precedes
<1> QED BY <1>5, <1>6
=============================================================================
