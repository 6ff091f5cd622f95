---------------------------- MODULE OffsetProofs ----------------------------
(***************************************************************************)
(* Proofs about offset paging, for any table, arguments and interleaving.  *)
(***************************************************************************)
EXTENDS OffsetServer, FiniteSetTheorems, TLAPS

LEMMA WrapInRange ==
    ASSUME NEW x \in Int, -(MaxInt + 1) <= x, x <= MaxInt
    PROVE  Wrap(x) = x
<1> DEFINE m == 2 * (MaxInt + 1)
           y == x + MaxInt + 1
<1>1. /\ m \in Nat \ {0} /\ y \in Int /\ 0 <= y /\ y < m
      /\ Wrap(x) = (y % m) - (MaxInt + 1) /\ x = y - (MaxInt + 1)
  BY PaginateAssumption DEF Wrap
<1>2. \A a \in Int, b \in Nat \ {0} : 0 <= a /\ a < b => a % b = a
  OBVIOUS
<1> QED
  <2> HIDE DEF m, y
  <2> QED BY <1>1, <1>2, PaginateAssumption

\* Numbers an int can hold with one to spare, so that After, and the row fetched
\* beyond a page, do not wrap around, and a table it can count.
Countable == /\ \A n \in Numbers : -MaxInt <= n /\ n < MaxInt
             /\ Cardinality(Rows) <= MaxInt

-----------------------------------------------------------------------------
(* Paginate.                                                               *)

\* Arguments Paginate returns a window for.
Windowed(p) == p \in Params(Numbers) /\ ~Contradictory(p) /\ ~FetchesNothing(p)

LEMMA ParamsTypes ==
    ASSUME NEW p, p \in Params(Numbers)
    PROVE  /\ p.before \in Int \cup {Nil} /\ p.after \in Int \cup {Nil}
           /\ p.first \in Int \cup {Nil} /\ p.last \in Int \cup {Nil}
           /\ p.total \in BOOLEAN
           /\ {p.before, p.after, p.first, p.last} \subseteq Numbers \cup {Nil}
           /\ Nil \notin Int
BY OffsetListAssumption, PaginateAssumption DEF Params

LEMMA FirstOffsetIs ==
    ASSUME Countable, NEW p, p \in Params(Numbers)
    PROVE  /\ FirstOffset(p) \in 0..MaxInt
           /\ FirstOffset(p) = IF p.after # Nil /\ p.after >= 0 THEN p.after + 1 ELSE 0
<1>1. ASSUME p.after # Nil, p.after >= 0
      PROVE  Wrap(p.after + 1) = p.after + 1 /\ p.after + 1 \in 0..MaxInt
  <2>1. p.after \in Int /\ p.after < MaxInt
    BY <1>1, ParamsTypes DEF Countable
  <2> QED BY <1>1, <2>1, WrapInRange, PaginateAssumption
<1> QED BY <1>1, PaginateAssumption DEF FirstOffset

\* With a Before: a window that starts at or after After and ends by Before.
LEMMA WindowUnderBefore ==
    ASSUME Countable, NEW p, Windowed(p), p.before # Nil
    PROVE  LET size == IF p.first # Nil THEN p.first
                       ELSE IF p.last # Nil THEN p.last ELSE 0
               o == IF p.last # Nil /\ FirstOffset(p) = 0 /\ p.before > size
                    THEN p.before - size ELSE FirstOffset(p)
           IN  /\ size \in Nat /\ o \in Nat /\ o < p.before /\ o <= MaxInt
               /\ p.before \in Nat /\ p.before < MaxInt /\ size < MaxInt
               /\ (size = 0) <=> (p.first = Nil /\ p.last = Nil)
               /\ Window(p) = [limit |-> IF size = 0 \/ p.before - o < size
                                         THEN p.before - o ELSE size,
                               offset |-> o]
<1> DEFINE f == FirstOffset(p)
           size == IF p.first # Nil THEN p.first ELSE IF p.last # Nil THEN p.last ELSE 0
           o == IF p.last # Nil /\ f = 0 /\ p.before > size THEN p.before - size ELSE f
<1>1. f \in 0..MaxInt
  BY FirstOffsetIs DEF Windowed
<1>2. /\ p.before \in Int /\ p.before > f /\ p.before < MaxInt
  BY ParamsTypes, <1>1 DEF Windowed, FetchesNothing, Countable
<1>3. /\ size \in Nat /\ size < MaxInt
      /\ (size = 0) <=> (p.first = Nil /\ p.last = Nil)
  BY ParamsTypes, PaginateAssumption DEF Windowed, FetchesNothing, Contradictory, Countable
<1>4. o \in Nat /\ o < p.before /\ o <= MaxInt
  <2> HIDE DEF f, size
  <2> QED BY <1>1, <1>2, <1>3, PaginateAssumption DEF Windowed, FetchesNothing
<1>5. Wrap(p.before - o) = p.before - o
  <2> HIDE DEF o
  <2> QED BY <1>2, <1>4, WrapInRange, PaginateAssumption
<1>6. Window(p) = [limit |-> IF size = 0 \/ Wrap(p.before - o) < size
                             THEN Wrap(p.before - o) ELSE size,
                   offset |-> o]
  BY DEF Window
<1> QED BY <1>1, <1>2, <1>3, <1>4, <1>5, <1>6

\* Without one: the First rows after After, the Last of all, or all after After.
LEMMA WindowAlone ==
    ASSUME NEW p, Windowed(p), p.before = Nil
    PROVE  Window(p) = [limit |-> IF p.last # Nil THEN -p.last
                                  ELSE IF p.first # Nil THEN p.first ELSE 0,
                        offset |-> FirstOffset(p)]
BY ParamsTypes, PaginateAssumption DEF Window, Windowed, Contradictory

\* The window List asks the database for, when it takes the table to hold n rows.
Asks(p, n) == Resolve(Window(p), n)

LEMMA WindowResolved ==
    ASSUME Countable, NEW p, Windowed(p), NEW n \in Nat, n <= MaxInt
    PROVE  /\ Asks(p, n) = [limit |-> Asks(p, n).limit, offset |-> Asks(p, n).offset]
           /\ Asks(p, n).limit \in Nat /\ Asks(p, n).limit < MaxInt
           /\ Asks(p, n).offset \in Nat
           /\ Asks(p, n).limit > 0 <=> {p.first, p.last, p.before} # {Nil}
           /\ NeedsTotal(p) <=> p.last # Nil /\ p.before = Nil
           /\ ~NeedsTotal(p) => Asks(p, n) = Window(p)
           /\ NeedsTotal(p) => /\ Asks(p, n).limit = p.last
                               /\ Asks(p, n).offset = IF n - p.last > FirstOffset(p)
                                                      THEN n - p.last ELSE FirstOffset(p)
<1>0. FirstOffset(p) \in Nat
  BY FirstOffsetIs, PaginateAssumption DEF Windowed
<1>1. CASE p.before # Nil
  <2> DEFINE w == Window(p)
  <2>1. /\ w = [limit |-> w.limit, offset |-> w.offset]
        /\ w.limit \in Nat /\ w.limit > 0 /\ w.limit < MaxInt /\ w.offset \in Nat
    <3> DEFINE size == IF p.first # Nil THEN p.first
                       ELSE IF p.last # Nil THEN p.last ELSE 0
               o == IF p.last # Nil /\ FirstOffset(p) = 0 /\ p.before > size
                    THEN p.before - size ELSE FirstOffset(p)
    <3>1. /\ size \in Nat /\ o \in Nat /\ o < p.before
          /\ p.before \in Nat /\ p.before < MaxInt /\ size < MaxInt
          /\ w = [limit |-> IF size = 0 \/ p.before - o < size
                            THEN p.before - o ELSE size,
                  offset |-> o]
      BY <1>1, WindowUnderBefore
    <3> HIDE DEF size, o, w
    <3> QED BY <3>1, PaginateAssumption
  <2>2. Asks(p, n) = w /\ ~NeedsTotal(p)
    <3> HIDE DEF w
    <3>1. w = Window(p)  BY DEF w
    <3> QED BY <2>1, <3>1 DEF Asks, Resolve, NeedsTotal, Windowed
  <2> HIDE DEF w
  <2> QED BY <1>1, <2>1, <2>2 DEF w
<1>2. CASE p.before = Nil /\ p.last = Nil
  <2>1. Window(p) = [limit |-> IF p.first # Nil THEN p.first ELSE 0,
                     offset |-> FirstOffset(p)]
    BY <1>2, WindowAlone
  <2>2. p.first # Nil => p.first \in Nat /\ p.first > 0 /\ p.first < MaxInt
    BY ParamsTypes DEF Windowed, Contradictory, FetchesNothing, Countable
  <2>3. Asks(p, n) = Window(p) /\ ~NeedsTotal(p)
    BY <2>1, <2>2 DEF Asks, Resolve, NeedsTotal, Windowed
  <2> QED BY <1>0, <1>2, <2>1, <2>2, <2>3, PaginateAssumption
<1>3. CASE p.before = Nil /\ p.last # Nil
  <2>1. p.last \in Nat /\ p.last > 0 /\ p.last < MaxInt
    BY <1>3, ParamsTypes DEF Windowed, Contradictory, FetchesNothing, Countable
  <2>2. Window(p) = [limit |-> -p.last, offset |-> FirstOffset(p)]
    BY <1>3, WindowAlone
  <2>3. Wrap(n + (-p.last)) = n - p.last
    <3>1. n - p.last \in Int /\ -(MaxInt + 1) <= n - p.last /\ n - p.last <= MaxInt
          /\ n + (-p.last) = n - p.last
      BY <2>1, PaginateAssumption
    <3> QED BY <3>1, WrapInRange
  <2>4. NeedsTotal(p)
    BY <2>1, <2>2 DEF NeedsTotal, Windowed
  <2>5. Asks(p, n) = [limit |-> p.last,
                      offset |-> IF n - p.last > FirstOffset(p)
                                 THEN n - p.last ELSE FirstOffset(p)]
    BY <2>1, <2>2, <2>3 DEF Asks, Resolve
  <2> QED BY <1>0, <1>3, <2>1, <2>4, <2>5, PaginateAssumption
<1> QED BY <1>1, <1>2, <1>3

-----------------------------------------------------------------------------
(* The page.                                                               *)

\* What Select keeps of the rows fetched, into a slice that held nothing.
Kept(rows, limit) ==
    IF limit > 0 /\ Len(rows) > limit THEN SubSeq(rows, 1, limit) ELSE rows

LEMMA SliceIs ==
    ASSUME NEW w \in Seq(Rows), NEW o \in Nat, NEW l \in Nat
    PROVE  /\ Slice(w, o, l) \in Seq(Rows)
           /\ Len(Slice(w, o, l)) = IF o >= Len(w) THEN 0
                                    ELSE IF o + l < Len(w) THEN l ELSE Len(w) - o
           /\ \A k \in 1..Len(Slice(w, o, l)) : Slice(w, o, l)[k] = w[o + k]
<1> DEFINE b == IF o + l < Len(w) THEN o + l ELSE Len(w)
<1>1. b \in Nat /\ b <= Len(w) /\ Slice(w, o, l) = SubSeq(w, o + 1, b)
  BY DEF Slice
<1> QED BY <1>1

LEMMA FetchedIs ==
    ASSUME Countable, NEW w \in Seq(Rows), NEW l \in Nat, l < MaxInt, NEW o \in Nat,
           NEW rows, rows = Fetched(w, l, o)
    PROVE  /\ rows \in Seq(Rows)
           /\ l > 0 /\ Len(rows) > l <=> l > 0 /\ o + l < Len(w)
           /\ Kept(rows, l) \in Seq(Rows)
           /\ Len(Kept(rows, l)) = IF o >= Len(w) THEN 0
                                   ELSE IF l > 0 /\ o + l < Len(w) THEN l
                                   ELSE Len(w) - o
           /\ \A k \in 1..Len(Kept(rows, l)) : Kept(rows, l)[k] = w[o + k]
<1>1. CASE l > 0
  <2>1. Wrap(l + 1) = l + 1
    BY WrapInRange, PaginateAssumption
  <2>2. rows = Slice(w, o, l + 1)
    BY <1>1, <2>1 DEF Fetched
  <2>3. /\ rows \in Seq(Rows)
        /\ Len(rows) = IF o >= Len(w) THEN 0
                       ELSE IF o + (l + 1) < Len(w) THEN l + 1 ELSE Len(w) - o
        /\ \A k \in 1..Len(rows) : rows[k] = w[o + k]
    <3> DEFINE m == l + 1
    <3>1. m \in Nat /\ rows = Slice(w, o, m)
      BY <2>2
    <3> HIDE DEF m
    <3>2. /\ rows \in Seq(Rows)
          /\ Len(rows) = IF o >= Len(w) THEN 0 ELSE IF o + m < Len(w) THEN m ELSE Len(w) - o
          /\ \A k \in 1..Len(rows) : rows[k] = w[o + k]
      <4>1. /\ Slice(w, o, m) \in Seq(Rows)
            /\ Len(Slice(w, o, m)) = IF o >= Len(w) THEN 0
                                     ELSE IF o + m < Len(w) THEN m ELSE Len(w) - o
            /\ \A k \in 1..Len(Slice(w, o, m)) : Slice(w, o, m)[k] = w[o + k]
        BY <3>1, SliceIs
      <4> QED BY <3>1, <4>1
    <3> QED BY <3>2 DEF m
  <2>4. Len(rows) > l <=> o + l < Len(w)
    BY <2>3
  <2>5. CASE Len(rows) > l
    <3>1. Kept(rows, l) = SubSeq(rows, 1, l) /\ l <= Len(rows)
      BY <1>1, <2>3, <2>5 DEF Kept
    <3>2. /\ Kept(rows, l) \in Seq(Rows) /\ Len(Kept(rows, l)) = l
          /\ \A k \in 1..l : Kept(rows, l)[k] = rows[k]
      BY <2>3, <3>1
    <3>3. \A k \in 1..l : Kept(rows, l)[k] = w[o + k]
      <4>1. \A k \in 1..l : k \in 1..Len(rows)
        BY <2>3, <3>1
      <4> QED BY <2>3, <3>2, <4>1
    <3>4. Len(w) \in Nat /\ o < Len(w) /\ o + l < Len(w)
      BY <2>4, <2>5
    <3> QED BY <1>1, <2>3, <2>5, <3>2, <3>3, <3>4
  <2>6. CASE ~(Len(rows) > l)
    BY <1>1, <2>3, <2>4, <2>6 DEF Kept
  <2> QED BY <2>5, <2>6
<1>2. CASE l = 0
  <2>1. Kept(rows, l) = rows
    BY <1>2 DEF Kept
  <2>2. CASE o > 0
    <3> DEFINE m == Len(w)
    <3>1. m \in Nat /\ rows = Slice(w, o, m)
      BY <1>2, <2>2 DEF Fetched
    <3>2. /\ rows \in Seq(Rows)
          /\ Len(rows) = IF o >= m THEN 0 ELSE IF o + m < m THEN m ELSE m - o
          /\ \A k \in 1..Len(rows) : rows[k] = w[o + k]
      <4> HIDE DEF m
      <4>1. /\ rows \in Seq(Rows)
            /\ Len(rows) = IF o >= Len(w) THEN 0 ELSE IF o + m < Len(w) THEN m ELSE Len(w) - o
            /\ \A k \in 1..Len(rows) : rows[k] = w[o + k]
        <5>1. /\ Slice(w, o, m) \in Seq(Rows)
              /\ Len(Slice(w, o, m)) = IF o >= Len(w) THEN 0
                                       ELSE IF o + m < Len(w) THEN m ELSE Len(w) - o
              /\ \A k \in 1..Len(Slice(w, o, m)) : Slice(w, o, m)[k] = w[o + k]
          BY <3>1, SliceIs
        <5> QED BY <3>1, <5>1
      <4> QED BY <4>1 DEF m
    <3> QED BY <1>2, <2>1, <2>2, <3>1, <3>2
  <2>3. CASE o = 0
    BY <1>2, <2>1, <2>3 DEF Fetched
  <2> QED BY <2>2, <2>3
<1> QED BY <1>1, <1>2

-----------------------------------------------------------------------------
(* The page described.                                                     *)

LEMMA EligibleIs ==
    ASSUME Countable, NEW p, Windowed(p), NEW n \in Nat, NEW i \in 0..(n - 1)
    PROVE  i \in Eligible(p, n) <=> /\ FirstOffset(p) <= i
                                    /\ p.before = Nil \/ i < p.before
BY FirstOffsetIs, ParamsTypes DEF Eligible, Windowed

\* The rows of the range before row i, and those after it.
LEMMA RowsAround ==
    ASSUME Countable, NEW p, Windowed(p), NEW n \in Nat, NEW i \in Eligible(p, n),
           NEW end \in Int,
           end = IF p.before = Nil \/ p.before > n THEN n ELSE p.before
    PROVE  /\ i \in 0..(n - 1) /\ FirstOffset(p) <= i /\ i < end
           /\ Cardinality({j \in Eligible(p, n) : j < i}) = i - FirstOffset(p)
           /\ Cardinality({j \in Eligible(p, n) : j > i}) = end - 1 - i
<1> DEFINE f == FirstOffset(p)
<1>1. f \in Nat
  BY FirstOffsetIs, PaginateAssumption DEF Windowed
<1>2. i \in 0..(n - 1) /\ Eligible(p, n) \subseteq 0..(n - 1)
  BY DEF Eligible
<1>3. p.before \in Int \cup {Nil} /\ Nil \notin Int
  BY ParamsTypes DEF Windowed
<1>4. \A j \in 0..(n - 1) : j \in Eligible(p, n) <=> f <= j /\ j < end
  <2> TAKE j \in 0..(n - 1)
  <2>1. j \in Eligible(p, n) <=> /\ FirstOffset(p) <= j
                                 /\ p.before = Nil \/ j < p.before
    BY EligibleIs
  <2>2. j < end <=> p.before = Nil \/ j < p.before
    BY <1>3
  <2> QED BY <2>1, <2>2
<1>5. f <= i /\ i < end
  BY <1>2, <1>4
<1>6. {j \in Eligible(p, n) : j < i} = f..(i - 1)
  <2> HIDE DEF f
  <2> QED BY <1>1, <1>2, <1>4, <1>5
<1>7. {j \in Eligible(p, n) : j > i} = (i + 1)..(end - 1)
  <2>1. end <= n
    BY <1>3
  <2> HIDE DEF f
  <2> QED BY <1>1, <1>2, <1>4, <1>5, <2>1
<1>8. Cardinality(f..(i - 1)) = i - f
  <2> HIDE DEF f
  <2>1. Cardinality(f..(i - 1)) = IF f > i - 1 THEN 0 ELSE (i - 1) - f + 1
    <3> DEFINE b == i - 1
    <3>1. b \in Int  BY <1>2
    <3> HIDE DEF b
    <3>2. Cardinality(f..b) = IF f > b THEN 0 ELSE b - f + 1
      BY <1>1, <3>1, FS_Interval
    <3> QED BY <3>2 DEF b
  <2> QED BY <1>1, <1>2, <1>5, <2>1
<1>9. Cardinality((i + 1)..(end - 1)) = end - 1 - i
  <2>1. Cardinality((i + 1)..(end - 1))
          = IF i + 1 > end - 1 THEN 0 ELSE (end - 1) - (i + 1) + 1
    <3> DEFINE a == i + 1
               b == end - 1
    <3>1. a \in Int /\ b \in Int  BY <1>2
    <3> HIDE DEF a, b
    <3>2. Cardinality(a..b) = IF a > b THEN 0 ELSE b - a + 1
      BY <3>1, FS_Interval
    <3> QED BY <3>2 DEF a, b
  <2> QED BY <1>2, <1>5, <2>1
<1> QED BY <1>2, <1>5, <1>6, <1>7, <1>8, <1>9

\* The arguments whose window is the one they describe: see PageIsDescribed.
Measurable(p, n) == p.last = Nil \/ p.before = Nil
                       \/ (FirstOffset(p) = 0 /\ p.before <= n)

LEMMA ChosenIs ==
    ASSUME Countable, NEW p, Windowed(p), NEW n \in Nat, n <= MaxInt,
           Measurable(p, n), NEW i \in 0..(n - 1)
    PROVE  i \in Chosen(p, n) <=>
              /\ Asks(p, n).offset <= i
              /\ Asks(p, n).limit > 0 => i < Asks(p, n).offset + Asks(p, n).limit
<1> DEFINE f == FirstOffset(p)
           end == IF p.before = Nil \/ p.before > n THEN n ELSE p.before
<1>1. f \in Nat
  BY FirstOffsetIs, PaginateAssumption DEF Windowed
<1>2. /\ p.before \in Int \cup {Nil} /\ p.first \in Int \cup {Nil}
      /\ p.last \in Int \cup {Nil} /\ Nil \notin Int
      /\ p.first = Nil \/ p.last = Nil
      /\ p.first # Nil => p.first > 0
      /\ p.last # Nil => p.last > 0
  BY ParamsTypes DEF Windowed, Contradictory, FetchesNothing
<1>3. end \in Int /\ end <= n
  BY <1>2
<1>4. i \in Eligible(p, n) <=> f <= i /\ i < end
  <2>1. i \in Eligible(p, n) <=> /\ FirstOffset(p) <= i
                                 /\ p.before = Nil \/ i < p.before
    BY EligibleIs
  <2>2. i < end <=> p.before = Nil \/ i < p.before
    BY <1>2
  <2> HIDE DEF end
  <2> QED BY <2>1, <2>2
<1>5. i \in Chosen(p, n) <=> /\ f <= i /\ i < end
                             /\ p.first # Nil => i - f < p.first
                             /\ p.last # Nil => end - 1 - i < p.last
  <2>1. i \in Eligible(p, n) =>
           /\ Cardinality({j \in Eligible(p, n) : j < i}) = i - f
           /\ Cardinality({j \in Eligible(p, n) : j > i}) = end - 1 - i
    <3> HAVE i \in Eligible(p, n)
    <3> QED BY <1>3, RowsAround
  <2> QED BY <1>4, <2>1 DEF Chosen
<1>6. CASE p.before = Nil
  <2>1. end = n
    BY <1>6
  <2>2. CASE p.last # Nil
    <3>1. Asks(p, n).limit = p.last
          /\ Asks(p, n).offset = IF n - p.last > f THEN n - p.last ELSE f
      BY <1>6, <2>2, WindowResolved
    <3> HIDE DEF f, end
    <3> QED BY <1>1, <1>2, <1>5, <2>1, <2>2, <3>1
  <2>3. CASE p.last = Nil
    <3>1. Asks(p, n) = [limit |-> IF p.first # Nil THEN p.first ELSE 0, offset |-> f]
      BY <1>6, <2>3, WindowResolved, WindowAlone
    <3> HIDE DEF f, end
    <3> QED BY <1>1, <1>2, <1>5, <2>1, <2>3, <3>1
  <2> QED BY <2>2, <2>3
<1>7. CASE p.before # Nil
  <2> DEFINE size == IF p.first # Nil THEN p.first ELSE IF p.last # Nil THEN p.last ELSE 0
             o == IF p.last # Nil /\ f = 0 /\ p.before > size THEN p.before - size ELSE f
  <2>1. /\ Asks(p, n) = [limit |-> IF size = 0 \/ p.before - o < size
                                   THEN p.before - o ELSE size,
                         offset |-> o]
        /\ o < p.before /\ o \in Nat /\ size \in Nat /\ p.before \in Nat
        /\ (size = 0) <=> (p.first = Nil /\ p.last = Nil)
    BY <1>7, WindowResolved, WindowUnderBefore
  <2>2. i < end <=> i < p.before
    BY <1>2, <1>7
  <2>3. CASE p.last # Nil
    <3>1. f = 0 /\ p.before <= n /\ end = p.before /\ size = p.last /\ p.first = Nil
      BY <1>2, <1>7, <2>3 DEF Measurable
    <3> HIDE DEF f, end, size
    <3> QED BY <1>1, <1>2, <1>5, <2>1, <2>2, <2>3, <3>1 DEF o
  <2>4. CASE p.last = Nil
    <3>1. o = f /\ size = IF p.first # Nil THEN p.first ELSE 0
      BY <2>4
    <3> HIDE DEF f, end, size, o
    <3> QED BY <1>1, <1>2, <1>5, <2>1, <2>2, <2>4, <3>1
  <2> QED BY <2>3, <2>4
<1> QED BY <1>6, <1>7

-----------------------------------------------------------------------------
(* Types.                                                                  *)

LEMMA WrapType == ASSUME NEW x \in Int PROVE Wrap(x) \in Int
<1> DEFINE m == 2 * (MaxInt + 1)
           y == x + MaxInt + 1
<1>1. m \in Nat \ {0} /\ y \in Int /\ Wrap(x) = (y % m) - (MaxInt + 1)
      /\ MaxInt \in Nat
  BY PaginateAssumption DEF Wrap
<1> HIDE DEF m, y
<1>2. y % m \in Int
  BY <1>1
<1> QED BY <1>1, <1>2

LEMMA FirstOffsetType ==
    ASSUME NEW p \in Params(Numbers) PROVE FirstOffset(p) \in Int
<1>1. p.after # Nil => p.after \in Int
  BY ParamsTypes
<1>2. p.after # Nil => Wrap(p.after + 1) \in Int
  <2> HAVE p.after # Nil
  <2>1. p.after + 1 \in Int  BY <1>1
  <2> QED BY <2>1, WrapType
<1> QED BY <1>2 DEF FirstOffset

LEMMA WindowType ==
    ASSUME NEW p \in Params(Numbers), NEW n \in Nat
    PROVE  Asks(p, n).limit \in Int /\ Asks(p, n).offset \in Int
<1> DEFINE size == IF p.first # Nil THEN p.first ELSE IF p.last # Nil THEN p.last ELSE 0
           o == IF p.last # Nil /\ FirstOffset(p) = 0 /\ p.before > size
                THEN p.before - size ELSE FirstOffset(p)
           w == Window(p)
<1>1. size \in Int /\ FirstOffset(p) \in Int
  BY ParamsTypes, FirstOffsetType
<1>2. w = IF p.before # Nil
          THEN [limit |-> IF size = 0 \/ Wrap(p.before - o) < size
                          THEN Wrap(p.before - o) ELSE size,
                offset |-> o]
          ELSE [limit |-> IF p.last # Nil THEN -size ELSE size,
                offset |-> FirstOffset(p)]
  BY DEF Window
<1>3. w.limit \in Int /\ w.offset \in Int
  <2>1. CASE p.before # Nil
    <3>1. p.before \in Int
      BY <2>1, ParamsTypes
    <3>2. o \in Int
      <4> HIDE DEF size
      <4> QED BY <1>1, <3>1
    <3>3. Wrap(p.before - o) \in Int
      <4> HIDE DEF o
      <4>1. p.before - o \in Int  BY <3>1, <3>2
      <4> QED BY <4>1, WrapType
    <3> HIDE DEF size, o, w
    <3> QED BY <1>1, <1>2, <2>1, <3>2, <3>3
  <2>2. CASE p.before = Nil
    <3> HIDE DEF size, o, w
    <3> QED BY <1>1, <1>2, <2>2
  <2> QED BY <2>1, <2>2
<1> HIDE DEF w
<1>4. Wrap(n + w.limit) \in Int
  <2>1. n + w.limit \in Int  BY <1>3
  <2> QED BY <2>1, WrapType
<1>5. Asks(p, n) = IF w.limit >= 0 THEN w
                   ELSE [limit |-> -w.limit,
                         offset |-> IF Wrap(n + w.limit) > w.offset
                                    THEN Wrap(n + w.limit) ELSE w.offset]
  BY DEF w, Asks, Resolve
<1> QED BY <1>3, <1>4, <1>5

LEMMA FetchedType ==
    ASSUME NEW w \in Seq(Rows), NEW l \in Int, NEW o \in Int
    PROVE  Fetched(w, l, o) \in Seq(Rows)
<1>1. \A x, y \in Nat : Slice(w, x, y) \in Seq(Rows)
  BY SliceIs
<1>2. Wrap(l + 1) \in Int /\ Len(w) \in Nat
  <2>1. l + 1 \in Int  OBVIOUS
  <2> QED BY <2>1, WrapType
<1> DEFINE x == IF o < 0 THEN 0 ELSE o
           y == IF Wrap(l + 1) < 0 THEN Len(w) ELSE Wrap(l + 1)
<1>3. x \in Nat /\ y \in Nat
  BY <1>2
<1>4. Fetched(w, l, o) = IF l > 0 THEN Slice(w, x, y)
                         ELSE IF o > 0 THEN Slice(w, o, Len(w)) ELSE w
  BY DEF Fetched
<1> HIDE DEF x, y
<1>5. o > 0 => o \in Nat
  OBVIOUS
<1> QED BY <1>1, <1>2, <1>3, <1>4, <1>5

LEMMA ViewType ==
    ASSUME TypeOK
    PROVE  /\ View \subseteq Rows
           /\ Cardinality(View) \in Nat /\ Cardinality(View) <= Cardinality(Rows)
<1>1. View \in SUBSET Rows /\ IsFiniteSet(Rows)
  BY OffsetListAssumption DEF TypeOK, View
<1> QED BY <1>1, FS_Subset, FS_CardinalityType

LEMMA OrderedType ==
    ASSUME TypeOK, NEW w \in Ordered(View)
    PROVE  /\ w \in Seq(Rows) /\ Len(w) = Cardinality(View)
           /\ \A i, j \in DOMAIN w : i < j => w[i] < w[j]
<1>1. w \in [1..Cardinality(View) -> View] /\ Lists(w, View)
  BY DEF Ordered
<1> QED BY <1>1, ViewType DEF Lists

LEMMA BindPageType ==
    ASSUME NEW u, ~BindPageFails(u)
    PROVE  BindPage(u, Nil) \in Params(Numbers)
<1>1. \A k \in {"first", "last", "after", "before"} :
         Number(u, k, Nil) \in Numbers \cup {Nil}
  BY OffsetServerAssumption DEF BindPageFails, Unread, Number
<1>2. WantsTotal(u) \in BOOLEAN
  BY OffsetServerAssumption DEF WantsTotal, Truthy
<1> QED BY <1>1, <1>2 DEF BindPage, Params

\* A step of the server is one of List or of its surroundings, or turns down a
\* query string.
LEMMA ServerStep ==
    ASSUME ServerNext
    PROVE  \/ \E p \in Params(Numbers) : Start(p) \/ Panic(p)
           \/ PreCount \/ Select \/ Recount \/ Fail \/ Take
           \/ \E T \in SUBSET (db \cup Rows) : Write(T)
           \/ \E u : pc = "idle" /\ Reject(u)
<1>1. ASSUME NEW u, Handle(u)
      PROVE  \E p \in Params(Numbers) : Start(p) \/ Panic(p)
  BY <1>1, BindPageType DEF Handle, CallList
<1> QED BY <1>1 DEF ServerNext, Request, Work, Insert, Delete

LEMMA ReplyType ==
    /\ NoInfo \in Infos
    /\ \A p \in Params(Numbers), i \in Infos, d \in Seq(Rows) :
          [ok |-> TRUE, params |-> p, info |-> i, rows |-> d] \in Replies
BY DEF NoInfo, Infos, Replies

LEMMA InitTypes == Init => TypeOK
BY OffsetListAssumption, ReplyType DEF Init, TypeOK, NoParams, Params, Replies

LEMMA StartTypes ==
    ASSUME TypeOK, NEW p \in Params(Numbers), Start(p) \/ Panic(p)
    PROVE  TypeOK'
<1>1. CASE Panic(p)
  BY <1>1 DEF Panic, TypeOK, Replies
<1>2. CASE Start(p)
  <2>1. /\ params' = p /\ p \in Params(Numbers) /\ Nil \in {p.first, p.last}
        /\ {p.first, p.last} \subseteq Nat \cup {Nil}
    BY <1>2, ParamsTypes DEF Start, Contradictory
  <2>2. /\ db' = db /\ isolated' = isolated /\ dest' = dest /\ had' = dest
        /\ snap' \subseteq Rows /\ at' = at /\ calm' = calm
        /\ info' \in {info, NoInfo}
        /\ pc' \in {"count", "select", "done"}
        /\ \/ reply' = reply
           \/ reply' = [ok |-> TRUE, params |-> p, info |-> NoInfo, rows |-> dest]
    BY <1>2 DEF Start, Finish, TypeOK
  <2> QED BY <2>1, <2>2, ReplyType DEF TypeOK
<1> QED BY <1>1, <1>2

LEMMA PreCountTypes == ASSUME TypeOK, PreCount PROVE TypeOK'
<1> DEFINE i == [info EXCEPT !.total = Cardinality(View)]
<1>1. i \in Infos
  BY ViewType DEF TypeOK, Infos
<1>2. /\ db' = db /\ isolated' = isolated /\ params' = params /\ dest' = dest
      /\ had' = had /\ snap' = snap /\ at' = at /\ calm' = calm
      /\ info' \in {i, NoInfo} /\ pc' \in {"select", "done"}
      /\ \/ reply' = reply
         \/ reply' = [ok |-> TRUE, params |-> params, info |-> i, rows |-> dest]
  BY DEF PreCount, Finish
<1> HIDE DEF i
<1> QED BY <1>1, <1>2, ReplyType DEF TypeOK

LEMMA RecountTypes == ASSUME TypeOK, Recount PROVE TypeOK'
<1> DEFINE i == [info EXCEPT !.total = Cardinality(View)]
<1>1. i \in Infos
  BY ViewType DEF TypeOK, Infos
<1>2. /\ db' = db /\ isolated' = isolated /\ params' = params /\ dest' = dest
      /\ had' = had /\ snap' = snap /\ at' = at /\ calm' = calm
      /\ info' = NoInfo /\ pc' = "done"
      /\ reply' = [ok |-> TRUE, params |-> params, info |-> i, rows |-> dest]
  BY DEF Recount, Finish
<1> HIDE DEF i
<1> QED BY <1>1, <1>2, ReplyType DEF TypeOK

\* What the SELECT leaves: w is the table in order, rows what was fetched.
LEMMA SelectLeaves ==
    ASSUME TypeOK, Select
    PROVE  \E w \in Ordered(View) :
              LET win == Asks(params, info.total)
                  rows == Fetched(w, win.limit, win.offset)
                  truncated == win.limit > 0 /\ Len(rows) > win.limit
                  i == [total |-> IF ~NeedsTotal(params) /\ params.total /\ rows # << >>
                                  THEN Cardinality(View) ELSE info.total,
                        offset |-> win.offset, truncated |-> truncated]
              IN  /\ dest' = IF truncated THEN SubSeq(dest \o rows, 1, win.limit)
                             ELSE dest \o rows
                  /\ at' = w
                  /\ \/ /\ ~NeedsTotal(params) /\ params.total /\ rows = << >>
                        /\ pc' = "recount" /\ info' = i /\ reply' = reply
                     \/ /\ ~(~NeedsTotal(params) /\ params.total /\ rows = << >>)
                        /\ pc' = "done" /\ info' = NoInfo
                        /\ reply' = [ok |-> TRUE, params |-> params, info |-> i,
                                     rows |-> dest']
                  /\ UNCHANGED <<db, isolated, params, had, snap, calm>>
<1>1. PICK w \in Ordered(View) :
          LET counted == NeedsTotal(params)
              win == Resolve(Window(params), info.total)
              rows == Fetched(w, win.limit, win.offset)
              truncated == win.limit > 0 /\ Len(rows) > win.limit
              i == [total |-> IF ~counted /\ params.total /\ rows # << >>
                              THEN Cardinality(View) ELSE info.total,
                    offset |-> win.offset, truncated |-> truncated]
          IN  /\ dest' = IF truncated THEN SubSeq(dest \o rows, 1, win.limit)
                         ELSE dest \o rows
              /\ at' = w
              /\ IF ~counted /\ params.total /\ rows = << >>
                 THEN pc' = "recount" /\ info' = i /\ UNCHANGED <<db, isolated, reply>>
                 ELSE Finish(params, i, dest')
  BY DEF Select
<1>2. UNCHANGED <<params, had, snap, calm>>
  BY DEF Select
<1> WITNESS w \in Ordered(View)
<1> QED BY <1>1, <1>2 DEF Finish, Asks

LEMMA SelectTypes == ASSUME TypeOK, Select PROVE TypeOK'
<1>1. PICK w \in Ordered(View) :
              LET win == Asks(params, info.total)
                  rows == Fetched(w, win.limit, win.offset)
                  truncated == win.limit > 0 /\ Len(rows) > win.limit
                  i == [total |-> IF ~NeedsTotal(params) /\ params.total /\ rows # << >>
                                  THEN Cardinality(View) ELSE info.total,
                        offset |-> win.offset, truncated |-> truncated]
              IN  /\ dest' = IF truncated THEN SubSeq(dest \o rows, 1, win.limit)
                             ELSE dest \o rows
                  /\ at' = w
                  /\ \/ /\ ~NeedsTotal(params) /\ params.total /\ rows = << >>
                        /\ pc' = "recount" /\ info' = i /\ reply' = reply
                     \/ /\ ~(~NeedsTotal(params) /\ params.total /\ rows = << >>)
                        /\ pc' = "done" /\ info' = NoInfo
                        /\ reply' = [ok |-> TRUE, params |-> params, info |-> i,
                                     rows |-> dest']
                  /\ UNCHANGED <<db, isolated, params, had, snap, calm>>
  BY SelectLeaves
<1> DEFINE win == Asks(params, info.total)
           l == win.limit
           o == win.offset
           rows == Fetched(w, l, o)
           truncated == l > 0 /\ Len(rows) > l
           i == [total |-> IF ~NeedsTotal(params) /\ params.total /\ rows # << >>
                           THEN Cardinality(View) ELSE info.total,
                 offset |-> o, truncated |-> truncated]
<1>2. l \in Int /\ o \in Int
  BY WindowType DEF TypeOK, Infos
<1>3. w \in Seq(Rows)
  BY OrderedType
<1> HIDE DEF l, o
<1>4. rows \in Seq(Rows)
  BY <1>2, <1>3, FetchedType
<1> HIDE DEF rows
<1>5. i \in Infos
  BY <1>2, ViewType DEF TypeOK, Infos
<1>6. (IF truncated THEN SubSeq(dest \o rows, 1, l) ELSE dest \o rows) \in Seq(Rows)
  <2>1. dest \o rows \in Seq(Rows) /\ Len(dest \o rows) = Len(dest) + Len(rows)
    BY <1>4 DEF TypeOK
  <2> DEFINE d == dest \o rows
  <2>2. truncated => 1 <= l /\ l <= Len(d) /\ Len(d) \in Nat
    <3> HAVE truncated
    <3>1. Len(dest) \in Nat /\ Len(rows) \in Nat
      BY <1>4 DEF TypeOK
    <3> QED BY <1>2, <2>1, <3>1
  <2> HIDE DEF d
  <2>3. truncated => SubSeq(d, 1, l) \in Seq(Rows)
    <3> HAVE truncated
    <3>1. d \in Seq(Rows)  BY <2>1 DEF d
    <3> QED BY <1>2, <2>2, <3>1
  <2> QED BY <2>1, <2>3 DEF d
<1> HIDE DEF truncated, i
<1>7. /\ dest' \in Seq(Rows) /\ at' = w
      /\ pc' \in {"recount", "done"} /\ info' \in {i, NoInfo}
      /\ \/ reply' = reply
         \/ reply' = [ok |-> TRUE, params |-> params, info |-> i, rows |-> dest']
      /\ db' = db /\ isolated' = isolated /\ params' = params /\ had' = had
      /\ snap' = snap /\ calm' = calm
  BY <1>1, <1>6 DEF i, truncated, rows, l, o
<1> QED BY <1>3, <1>5, <1>7, ReplyType DEF TypeOK

LEMMA FailTypes == ASSUME TypeOK, Fail PROVE TypeOK'
<1>1. /\ pc' = "done" /\ info' = NoInfo /\ reply' = reply
      /\ UNCHANGED <<db, isolated, params, had, snap, at, calm>>
  BY DEF Fail
<1>2. dest' \in Seq(Rows)
  <2>1. CASE UNCHANGED dest
    BY <2>1 DEF TypeOK
  <2>2. ASSUME NEW w \in Ordered(View),
               NEW n \in 1..Len(Fetched(w, Asks(params, info.total).limit,
                                           Asks(params, info.total).offset)),
               dest' = dest \o SubSeq(Fetched(w, Asks(params, info.total).limit,
                                              Asks(params, info.total).offset), 1, n)
        PROVE  dest' \in Seq(Rows)
    <3> DEFINE l == Asks(params, info.total).limit
               o == Asks(params, info.total).offset
               rows == Fetched(w, l, o)
    <3>1. l \in Int /\ o \in Int /\ w \in Seq(Rows)
      BY WindowType, OrderedType DEF TypeOK, Infos
    <3>2. rows \in Seq(Rows)
      <4> HIDE DEF l, o
      <4> QED BY <3>1, FetchedType
    <3>3. n \in 1..Len(rows) /\ dest' = dest \o SubSeq(rows, 1, n)
      BY <2>2
    <3> HIDE DEF rows
    <3>4. SubSeq(rows, 1, n) \in Seq(Rows)
      BY <3>2, <3>3
    <3> QED BY <3>3, <3>4 DEF TypeOK
  <2> QED BY <2>1, <2>2 DEF Fail, Asks
<1> QED BY <1>1, <1>2, ReplyType DEF TypeOK

LEMMA OtherTypes ==
    ASSUME TypeOK, \/ Take \/ UNCHANGED vars
                   \/ \E T \in SUBSET (db \cup Rows) : Write(T)
                   \/ \E u : pc = "idle" /\ Reject(u)
    PROVE  TypeOK'
<1>1. CASE Take
  BY <1>1 DEF Take, TypeOK, NoParams, Params, Replies
<1>2. ASSUME NEW T \in SUBSET (db \cup Rows), Write(T) PROVE TypeOK'
  BY <1>2 DEF Write, TypeOK
<1>3. ASSUME NEW u, Reject(u) PROVE TypeOK'
  BY <1>3 DEF Reject, TypeOK
<1>4. CASE UNCHANGED vars
  BY <1>4 DEF vars, TypeOK
<1> QED BY <1>1, <1>2, <1>3, <1>4

\* Types, and that a call past Paginate's checks has arguments that agree, for
\* any table, query strings and interleaving with other sessions.
THEOREM OffsetTypes == ServerSpec => []TypeOK
<1>1. TypeOK /\ [ServerNext]_vars => TypeOK'
  <2> SUFFICES ASSUME TypeOK, [ServerNext]_vars PROVE TypeOK'
    OBVIOUS
  <2>1. CASE ServerNext
    BY <2>1, ServerStep, StartTypes, PreCountTypes, SelectTypes, RecountTypes,
       FailTypes, OtherTypes
  <2> QED BY <2>1, OtherTypes
<1> QED BY <1>1, InitTypes, PTL DEF ServerSpec

-----------------------------------------------------------------------------
(* What is true of a call on its way to its page.                          *)

\* Page d with information i is what a SELECT of table w gives, whose window was
\* worked out for n rows.
Taken(p, i, d, w, n) ==
    /\ Windowed(p) /\ n \in 0..MaxInt
    /\ w \in Seq(Rows) /\ Len(w) <= MaxInt
    /\ \A j, k \in DOMAIN w : j < k => w[j] < w[k]
    /\ i.offset = Asks(p, n).offset
    /\ i.truncated <=> /\ Asks(p, n).limit > 0
                       /\ Len(Fetched(w, Asks(p, n).limit, Asks(p, n).offset))
                             > Asks(p, n).limit
    /\ d = Kept(Fetched(w, Asks(p, n).limit, Asks(p, n).offset), Asks(p, n).limit)

Snapshot == isolated \/ calm

Working ==
    /\ pc # "done" /\ ~ReuseDest => dest = << >>
    /\ pc # "done" => reply = NoReply
    /\ pc # "recount" => info.total <= Cardinality(Rows)
    /\ pc = "count" => NeedsTotal(params)
    /\ pc \in {"select", "recount"} => Windowed(params)

Measured ==
    /\ pc = "select" /\ NeedsTotal(params) /\ Snapshot => info.total = Cardinality(View)
    /\ pc = "recount" =>
          /\ ~NeedsTotal(params)
          /\ Snapshot => Len(at) = Cardinality(View)
          /\ ~ReuseDest => \E n \in 0..MaxInt : Taken(params, info, dest, at, n)

Replied ==
    /\ AnsweredAfresh =>
          \E n \in 0..MaxInt : /\ Taken(reply.params, reply.info, reply.rows, at, n)
                               /\ OneTable /\ NeedsTotal(reply.params) => n = Len(at)
    /\ TotalFitsPage

PageInv == TypeOK /\ Working /\ Measured /\ Replied

\* The page of a SELECT is the one its arguments describe.
LEMMA TakenIsDescribed ==
    ASSUME Countable, NEW p, NEW i, NEW d, NEW w, NEW n, Taken(p, i, d, w, n),
           NeedsTotal(p) => n = Len(w), Measurable(p, Len(w))
    PROVE  Lists(d, Described(p, w))
<1> DEFINE m == Len(w)
           l == Asks(p, m).limit
           o == Asks(p, m).offset
           rows == Fetched(w, l, o)
<1>1. /\ Windowed(p) /\ n \in Nat /\ n <= MaxInt /\ m \in Nat /\ m <= MaxInt
      /\ w \in Seq(Rows) /\ \A j, k \in DOMAIN w : j < k => w[j] < w[k]
  BY PaginateAssumption DEF Taken
<1>2. Asks(p, n) = Asks(p, m)
  <2>1. CASE NeedsTotal(p)
    BY <2>1
  <2>2. CASE ~NeedsTotal(p)
    <3> HIDE DEF m
    <3>1. Asks(p, n) = Window(p)
      BY <1>1, <2>2, WindowResolved
    <3>2. Asks(p, m) = Window(p)
      BY <1>1, <2>2, WindowResolved
    <3> QED BY <3>1, <3>2
  <2> QED BY <2>1, <2>2
<1>3. d = Kept(rows, l)
  BY <1>2 DEF Taken
<1>4. l \in Nat /\ l < MaxInt /\ o \in Nat
  <2> HIDE DEF m
  <2> QED BY <1>1, WindowResolved
<1>5. /\ d \in Seq(Rows)
      /\ Len(d) = IF o >= m THEN 0 ELSE IF l > 0 /\ o + l < m THEN l ELSE m - o
      /\ \A k \in 1..Len(d) : d[k] = w[o + k]
  <2> HIDE DEF l, o
  <2>1. /\ Kept(rows, l) \in Seq(Rows)
        /\ Len(Kept(rows, l)) = IF o >= Len(w) THEN 0
                                ELSE IF l > 0 /\ o + l < Len(w) THEN l
                                ELSE Len(w) - o
        /\ \A k \in 1..Len(Kept(rows, l)) : Kept(rows, l)[k] = w[o + k]
    BY <1>1, <1>4, FetchedIs
  <2> QED BY <1>3, <2>1
<1>6. \A k \in 0..(m - 1) : k \in Chosen(p, m) <=> /\ o <= k
                                                   /\ l > 0 => k < o + l
  <2> HIDE DEF m
  <2> QED BY <1>1, ChosenIs DEF m
<1>7. Chosen(p, m) \subseteq 0..(m - 1)
  BY DEF Chosen, Eligible
<1> HIDE DEF l, o, rows
<1>8. \A k \in 1..Len(d) : /\ o + k \in 1..m /\ (o + k) - 1 \in Chosen(p, m)
                           /\ o + k = ((o + k) - 1) + 1
  <2> TAKE k \in 1..Len(d)
  <2> HIDE DEF m
  <2>1. o + k <= m /\ (l > 0 => k <= l)
    BY <1>1, <1>4, <1>5
  <2>2. (o + k) - 1 \in 0..(m - 1) /\ o <= (o + k) - 1
        /\ (l > 0 => (o + k) - 1 < o + l) /\ o + k = ((o + k) - 1) + 1
    BY <1>1, <1>4, <2>1
  <2> QED BY <1>1, <1>4, <1>6, <2>1, <2>2
<1>9. \A c \in Chosen(p, m) : /\ (c + 1) - o \in 1..Len(d)
                              /\ o + ((c + 1) - o) = c + 1
  <2> TAKE c \in Chosen(p, m)
  <2> HIDE DEF m
  <2>1. c \in 0..(m - 1) /\ o <= c /\ (l > 0 => c < o + l)
    BY <1>6, <1>7
  <2> QED BY <1>1, <1>4, <1>5, <2>1
<1>10. {d[k] : k \in DOMAIN d} = {w[c + 1] : c \in Chosen(p, m)}
  <2>1. DOMAIN d = 1..Len(d)
    BY <1>5
  <2>2. \A k \in 1..Len(d) : d[k] \in {w[c + 1] : c \in Chosen(p, m)}
    <3> TAKE k \in 1..Len(d)
    <3>1. d[k] = w[o + k]
      BY <1>5
    <3> DEFINE c == (o + k) - 1
    <3>2. c \in Chosen(p, m) /\ o + k = c + 1
      BY <1>8
    <3> HIDE DEF c, m
    <3> QED BY <3>1, <3>2
  <2>3. \A c \in Chosen(p, m) : w[c + 1] \in {d[k] : k \in 1..Len(d)}
    <3> TAKE c \in Chosen(p, m)
    <3> DEFINE k == (c + 1) - o
    <3>1. k \in 1..Len(d) /\ o + k = c + 1
      BY <1>9
    <3>2. d[k] = w[o + k]
      <4> HIDE DEF k
      <4> QED BY <1>5, <3>1
    <3> HIDE DEF k, m
    <3> QED BY <3>1, <3>2
  <2> QED BY <2>1, <2>2, <2>3
<1>11. \A j, k \in DOMAIN d : j < k => d[j] < d[k]
  <2> TAKE j, k \in DOMAIN d
  <2> HAVE j < k
  <2>1. j \in 1..Len(d) /\ k \in 1..Len(d)
    BY <1>5
  <2>2. d[j] = w[o + j] /\ d[k] = w[o + k]
    BY <1>5, <2>1
  <2>3. o + j \in DOMAIN w /\ o + k \in DOMAIN w /\ o + j < o + k
    BY <1>1, <1>4, <1>5, <1>8, <2>1
  <2> QED BY <1>1, <2>2, <2>3
<1> QED BY <1>10, <1>11 DEF Lists, Described

\* Its information fits it: see InfoFitsPage.
Fits(p, i, d, w) ==
    /\ d # << >> => i.offset \in 0..(Len(w) - 1) /\ w[i.offset + 1] = d[1]
    /\ i.truncated <=> /\ {p.first, p.last, p.before} # {Nil}
                       /\ i.offset + Len(d) < Len(w)

LEMMA TakenFits ==
    ASSUME Countable, NEW p, NEW i, NEW d, NEW w, NEW n, Taken(p, i, d, w, n)
    PROVE  Fits(p, i, d, w)
<1> DEFINE m == Len(w)
           l == Asks(p, n).limit
           o == Asks(p, n).offset
           rows == Fetched(w, l, o)
<1>1. /\ Windowed(p) /\ n \in Nat /\ n <= MaxInt /\ m \in Nat
      /\ w \in Seq(Rows)
      /\ i.offset = o /\ (i.truncated <=> l > 0 /\ Len(rows) > l)
      /\ d = Kept(rows, l)
  BY PaginateAssumption DEF Taken
<1>2. /\ l \in Nat /\ l < MaxInt /\ o \in Nat
      /\ l > 0 <=> {p.first, p.last, p.before} # {Nil}
  BY <1>1, WindowResolved
<1> HIDE DEF l, o
<1>3. /\ rows \in Seq(Rows)
      /\ (l > 0 /\ Len(rows) > l) <=> (l > 0 /\ o + l < m)
      /\ Kept(rows, l) \in Seq(Rows)
      /\ Len(Kept(rows, l)) = IF o >= m THEN 0 ELSE IF l > 0 /\ o + l < m THEN l ELSE m - o
      /\ \A k \in 1..Len(Kept(rows, l)) : Kept(rows, l)[k] = w[o + k]
  <2>1. /\ rows \in Seq(Rows)
        /\ l > 0 /\ Len(rows) > l <=> l > 0 /\ o + l < Len(w)
        /\ Kept(rows, l) \in Seq(Rows)
        /\ Len(Kept(rows, l)) = IF o >= Len(w) THEN 0
                                ELSE IF l > 0 /\ o + l < Len(w) THEN l
                                ELSE Len(w) - o
        /\ \A k \in 1..Len(Kept(rows, l)) : Kept(rows, l)[k] = w[o + k]
    BY <1>1, <1>2, FetchedIs
  <2> QED BY <2>1
<1> HIDE DEF rows
<1>4. d = << >> <=> Len(d) = 0
  BY <1>1, <1>3
<1>5. d # << >> => o < m /\ d[1] = w[o + 1]
  <2> HAVE d # << >>
  <2>1. Len(d) \in Nat /\ Len(d) > 0
    BY <1>1, <1>3, <1>4
  <2>2. 1 \in 1..Len(d)
    BY <2>1
  <2> HIDE DEF m
  <2> QED BY <1>1, <1>2, <1>3, <2>1, <2>2
<1>6. i.truncated <=> {p.first, p.last, p.before} # {Nil} /\ o + Len(d) < m
  <2> DEFINE B == {p.first, p.last, p.before} # {Nil}
  <2>1. l > 0 <=> B
    BY <1>2
  <2> HIDE DEF m, B
  <2>2. l > 0 /\ Len(rows) > l <=> B /\ o + Len(d) < m
    BY <1>1, <1>2, <1>3, <2>1
  <2>3. i.truncated <=> l > 0 /\ Len(rows) > l
    BY <1>1
  <2> QED BY <2>2, <2>3 DEF B
<1>7. d # << >> => i.offset \in 0..(Len(w) - 1) /\ w[i.offset + 1] = d[1]
  BY <1>1, <1>2, <1>5
<1>8. i.truncated <=> {p.first, p.last, p.before} # {Nil} /\ i.offset + Len(d) < Len(w)
  BY <1>1, <1>6
<1> QED BY <1>7, <1>8 DEF Fits

LEMMA InitPage == Init => PageInv
<1> SUFFICES ASSUME Init PROVE PageInv
  OBVIOUS
<1>1. TypeOK
  BY InitTypes
<1>2. Cardinality(Rows) \in Nat
  BY OffsetListAssumption, FS_CardinalityType
<1>3. Working /\ Measured
  BY <1>2 DEF Init, Working, Measured, NoInfo
<1>4. ~Answered
  BY DEF Init, NoReply, Answered
<1> QED BY <1>1, <1>3, <1>4 DEF PageInv, Replied, AnsweredAfresh, TotalFitsPage

LEMMA StartPage ==
    ASSUME PageInv, NEW p \in Params(Numbers), Start(p) \/ Panic(p)
    PROVE  PageInv'
<1>1. TypeOK'
  BY StartTypes DEF PageInv
<1>2. Cardinality(Rows) \in Nat /\ pc = "idle"
  BY OffsetListAssumption, FS_CardinalityType DEF Start, Panic
<1>3. CASE Panic(p)
  <2>1. ~Answered'
    BY <1>3 DEF Panic, Panicked, Answered
  <2>2. Working' /\ Measured'
    BY <1>2, <1>3 DEF PageInv, Panic, Working, Measured
  <2> QED BY <1>1, <2>1, <2>2 DEF PageInv, Replied, AnsweredAfresh, TotalFitsPage
<1>4. CASE Start(p) /\ FetchesNothing(p) /\ ~NeedsTotal(p)
  <2>1. ~Answered'
    BY <1>4 DEF Start, Finish, Answered
  <2>2. pc' = "done" /\ info' = NoInfo
    BY <1>4 DEF Start, Finish
  <2>3. Working' /\ Measured'
    BY <1>2, <2>2 DEF Working, Measured, NoInfo
  <2> QED BY <1>1, <2>1, <2>3 DEF PageInv, Replied, AnsweredAfresh, TotalFitsPage
<1>5. CASE Start(p) /\ ~(FetchesNothing(p) /\ ~NeedsTotal(p))
  <2>1. /\ params' = p /\ dest' = dest /\ info' = info /\ reply' = reply
        /\ pc' = IF NeedsTotal(p) THEN "count" ELSE "select"
        /\ ~Contradictory(p)
    BY <1>5 DEF Start
  <2>2. reply = NoReply
    BY <1>2 DEF PageInv, Working
  <2>3. ~Answered'
    BY <2>1, <2>2 DEF NoReply, Answered
  <2>4. Working' /\ Measured'
    BY <1>2, <1>5, <2>1, <2>2 DEF PageInv, Working, Measured, Windowed
  <2> QED BY <1>1, <2>3, <2>4 DEF PageInv, Replied, AnsweredAfresh, TotalFitsPage
<1> QED BY <1>3, <1>4, <1>5

LEMMA PreCountPage ==
    ASSUME PageInv, PreCount
    PROVE  PageInv'
<1>1. TypeOK' /\ TypeOK
  BY PreCountTypes DEF PageInv
<1>2. /\ Cardinality(Rows) \in Nat /\ Cardinality(View) \in Nat
      /\ Cardinality(View) <= Cardinality(Rows)
  BY <1>1, OffsetListAssumption, FS_CardinalityType, ViewType
<1>3. CASE FetchesNothing(params)
  <2>1. pc' = "done" /\ info' = NoInfo /\ ~Answered'
    BY <1>3 DEF PreCount, Finish, Answered
  <2>2. Working' /\ Measured'
    BY <1>2, <2>1 DEF Working, Measured, NoInfo
  <2> QED BY <1>1, <2>1, <2>2 DEF PageInv, Replied, AnsweredAfresh, TotalFitsPage
<1>4. CASE ~FetchesNothing(params)
  <2>1. /\ pc = "count" /\ pc' = "select" /\ reply' = reply /\ dest' = dest
        /\ info' = [info EXCEPT !.total = Cardinality(View)]
        /\ params' = params /\ isolated' = isolated /\ snap' = snap /\ db' = db
    BY <1>4 DEF PreCount
  <2>2. info'.total = Cardinality(View)
    BY <1>1, <2>1 DEF TypeOK, Infos
  <2>3. View' = View
    BY <2>1 DEF View
  <2>4. reply = NoReply /\ ~Answered'
    BY <2>1 DEF PageInv, Working, NoReply, Answered
  <2>5. ~Contradictory(params)
    BY <1>1, ParamsTypes DEF TypeOK, Contradictory
  <2>6. Working'
    BY <1>1, <1>2, <1>4, <2>1, <2>2, <2>4, <2>5 DEF PageInv, Working, Windowed, TypeOK
  <2>7. Measured'
    BY <2>1, <2>2, <2>3 DEF Measured
  <2> QED BY <1>1, <2>4, <2>6, <2>7 DEF PageInv, Replied, AnsweredAfresh, TotalFitsPage
<1> QED BY <1>3, <1>4

LEMMA SelectPage ==
    ASSUME Countable, PageInv, Select
    PROVE  PageInv'
<1>1. PICK w \in Ordered(View) :
              LET win == Asks(params, info.total)
                  rows == Fetched(w, win.limit, win.offset)
                  truncated == win.limit > 0 /\ Len(rows) > win.limit
                  i == [total |-> IF ~NeedsTotal(params) /\ params.total /\ rows # << >>
                                  THEN Cardinality(View) ELSE info.total,
                        offset |-> win.offset, truncated |-> truncated]
              IN  /\ dest' = IF truncated THEN SubSeq(dest \o rows, 1, win.limit)
                             ELSE dest \o rows
                  /\ at' = w
                  /\ \/ /\ ~NeedsTotal(params) /\ params.total /\ rows = << >>
                        /\ pc' = "recount" /\ info' = i /\ reply' = reply
                     \/ /\ ~(~NeedsTotal(params) /\ params.total /\ rows = << >>)
                        /\ pc' = "done" /\ info' = NoInfo
                        /\ reply' = [ok |-> TRUE, params |-> params, info |-> i,
                                     rows |-> dest']
                  /\ UNCHANGED <<db, isolated, params, had, snap, calm>>
  BY SelectLeaves DEF PageInv
<1> DEFINE n == info.total
           l == Asks(params, n).limit
           o == Asks(params, n).offset
           rows == Fetched(w, l, o)
           truncated == l > 0 /\ Len(rows) > l
           i == [total |-> IF ~NeedsTotal(params) /\ params.total /\ rows # << >>
                           THEN Cardinality(View) ELSE n,
                 offset |-> o, truncated |-> truncated]
<1>2. TypeOK' /\ TypeOK
  BY SelectTypes DEF PageInv
<1>3. /\ Cardinality(Rows) \in Nat /\ Cardinality(View) \in Nat
      /\ Cardinality(View) <= Cardinality(Rows)
  BY <1>2, OffsetListAssumption, FS_CardinalityType, ViewType
<1>4. /\ w \in Seq(Rows) /\ Len(w) = Cardinality(View)
      /\ \A j, k \in DOMAIN w : j < k => w[j] < w[k]
  BY <1>2, OrderedType
<1>5. /\ pc = "select" /\ Windowed(params) /\ reply = NoReply
      /\ ~ReuseDest => dest = << >>
      /\ n <= Cardinality(Rows)
      /\ NeedsTotal(params) /\ Snapshot => n = Len(w)
  BY <1>4 DEF Select, PageInv, Working, Measured
<1>6. n \in 0..MaxInt /\ Len(w) <= MaxInt
  <2>1. n \in Nat  BY <1>2 DEF TypeOK, Infos
  <2> QED BY <1>3, <1>4, <1>5, <2>1, PaginateAssumption DEF Countable
<1>7. rows \in Seq(Rows) /\ l \in Int
  <2>1. l \in Int /\ o \in Int
    BY <1>2, WindowType DEF TypeOK, Infos
  <2> HIDE DEF l, o
  <2> QED BY <1>4, <2>1, FetchedType
<1> HIDE DEF n, l, o, rows, truncated
<1>8. /\ i.offset = o /\ i.truncated = truncated
      /\ i.total = IF ~NeedsTotal(params) /\ params.total /\ rows # << >>
                   THEN Cardinality(View) ELSE n
  OBVIOUS
<1>9. /\ dest' = IF truncated THEN SubSeq(dest \o rows, 1, l) ELSE dest \o rows
      /\ at' = w
      /\ \/ /\ ~NeedsTotal(params) /\ params.total /\ rows = << >>
            /\ pc' = "recount" /\ info' = i /\ reply' = reply
         \/ /\ ~(~NeedsTotal(params) /\ params.total /\ rows = << >>)
            /\ pc' = "done" /\ info' = NoInfo
            /\ reply' = [ok |-> TRUE, params |-> params, info |-> i, rows |-> dest']
      /\ db' = db /\ isolated' = isolated /\ params' = params /\ snap' = snap
      /\ calm' = calm
  BY <1>1 DEF n, l, o, rows, truncated
<1> HIDE DEF i
<1>10. ~ReuseDest => dest' = Kept(rows, l)
  <2> HAVE ~ReuseDest
  <2>1. dest \o rows = rows
    BY <1>5, <1>7
  <2> QED BY <1>9, <2>1 DEF Kept, truncated
<1>11. ~ReuseDest => Taken(params, i, dest', w, n)
  BY <1>4, <1>5, <1>6, <1>8, <1>10 DEF Taken, truncated, rows, l, o
<1>12. View' = View /\ Snapshot' = Snapshot
  BY <1>9 DEF View, Snapshot
<1>13. CASE pc' = "recount"
  <2>1. /\ ~NeedsTotal(params) /\ params.total /\ info' = i /\ reply' = NoReply
    BY <1>5, <1>9, <1>13
  <2>2. ~Answered'
    BY <2>1 DEF NoReply, Answered
  <2>3. Working'
    <3>1. rows = << >> => Kept(rows, l) = << >>
      BY <1>7 DEF Kept
    <3>2. rows = << >>
      BY <1>9, <1>13
    <3> QED BY <1>5, <1>9, <1>10, <1>13, <2>1, <3>1, <3>2 DEF Working
  <2>4. Measured'
    BY <1>4, <1>6, <1>9, <1>11, <1>12, <1>13, <2>1 DEF Measured
  <2> QED BY <1>2, <2>2, <2>3, <2>4 DEF PageInv, Replied, AnsweredAfresh, TotalFitsPage
<1>14. CASE pc' = "done"
  <2>1. /\ ~(~NeedsTotal(params) /\ params.total /\ rows = << >>) /\ info' = NoInfo
        /\ reply'.params = params /\ reply'.info = i /\ reply'.rows = dest'
    <3>1. pc' # "recount"
      BY <1>14
    <3>2. /\ ~(~NeedsTotal(params) /\ params.total /\ rows = << >>) /\ info' = NoInfo
          /\ reply' = [ok |-> TRUE, params |-> params, info |-> i, rows |-> dest']
      BY <1>9, <3>1, Zenon
    <3> QED BY <3>2
  <2>2. Working' /\ Measured'
    BY <1>3, <1>14, <2>1 DEF Working, Measured, NoInfo
  <2>3. AnsweredAfresh' =>
          \E k \in 0..MaxInt :
             /\ Taken(reply'.params, reply'.info, reply'.rows, at', k)
             /\ OneTable' /\ NeedsTotal(reply'.params) => k = Len(at')
    <3> HAVE AnsweredAfresh'
    <3>1. Taken(reply'.params, reply'.info, reply'.rows, at', n)
      BY <1>9, <1>11, <2>1 DEF AnsweredAfresh
    <3>2. OneTable' /\ NeedsTotal(reply'.params) => n = Len(at')
      BY <1>5, <1>9, <2>1 DEF OneTable, Snapshot
    <3> QED BY <1>6, <3>1, <3>2
  <2>4. TotalFitsPage'
    <3> SUFFICES ASSUME AnsweredAfresh', params.total \/ NeedsTotal(params),
                        Snapshot \/ (~NeedsTotal(params) /\ dest' # << >>)
                 PROVE  i.total = Len(w)
      BY <1>9, <2>1 DEF TotalFitsPage, Snapshot
    <3>1. CASE NeedsTotal(params)
      BY <1>5, <1>8, <3>1
    <3>2. CASE ~NeedsTotal(params)
      BY <1>4, <1>8, <2>1, <3>2
    <3> QED BY <3>1, <3>2
  <2> QED BY <1>2, <2>2, <2>3, <2>4 DEF PageInv, Replied
<1> QED BY <1>9, <1>13, <1>14

LEMMA RecountPage ==
    ASSUME Countable, PageInv, Recount
    PROVE  PageInv'
<1> DEFINE i == [info EXCEPT !.total = Cardinality(View)]
<1>1. TypeOK' /\ TypeOK
  BY RecountTypes DEF PageInv
<1>2. Cardinality(Rows) \in Nat
  BY OffsetListAssumption, FS_CardinalityType
<1>3. /\ pc = "recount" /\ pc' = "done" /\ info' = NoInfo
      /\ reply'.params = params /\ reply'.info = i /\ reply'.rows = dest
      /\ at' = at /\ isolated' = isolated /\ calm' = calm
  BY DEF Recount, Finish
<1>4. i.total = Cardinality(View) /\ i.offset = info.offset
      /\ i.truncated = info.truncated
  BY <1>1 DEF TypeOK, Infos
<1> HIDE DEF i
<1>5. Working' /\ Measured'
  BY <1>2, <1>3 DEF Working, Measured, NoInfo
<1>6. /\ ~NeedsTotal(params)
      /\ Snapshot => Len(at) = Cardinality(View)
      /\ ~ReuseDest => \E n \in 0..MaxInt : Taken(params, info, dest, at, n)
  BY <1>3 DEF PageInv, Measured
<1>7. AnsweredAfresh' =>
        \E n \in 0..MaxInt : /\ Taken(reply'.params, reply'.info, reply'.rows, at', n)
                             /\ OneTable' /\ NeedsTotal(reply'.params) => n = Len(at')
  <2> HAVE AnsweredAfresh'
  <2>1. PICK n \in 0..MaxInt : Taken(params, info, dest, at, n)
    BY <1>6 DEF AnsweredAfresh
  <2>2. Taken(params, i, dest, at, n)
    BY <1>4, <2>1 DEF Taken
  <2> QED BY <1>3, <1>6, <2>2
<1>8. TotalFitsPage'
  <2> SUFFICES ASSUME AnsweredAfresh', Snapshot \/ dest # << >>
               PROVE  i.total = Len(at)
    BY <1>3 DEF TotalFitsPage, Snapshot
  <2>1. dest = << >>
    BY <1>3 DEF PageInv, Working, AnsweredAfresh
  <2> QED BY <1>4, <1>6, <2>1
<1> QED BY <1>1, <1>5, <1>7, <1>8 DEF PageInv, Replied

LEMMA FailPage ==
    ASSUME PageInv, Fail
    PROVE  PageInv'
<1>1. TypeOK'
  BY FailTypes DEF PageInv
<1>2. /\ pc' = "done" /\ info' = NoInfo /\ reply' = NoReply
      /\ Cardinality(Rows) \in Nat
  BY OffsetListAssumption, FS_CardinalityType DEF Fail, PageInv, Working
<1>3. Working' /\ Measured' /\ ~Answered'
  BY <1>2 DEF Working, Measured, NoInfo, NoReply, Answered
<1> QED BY <1>1, <1>3 DEF PageInv, Replied, AnsweredAfresh, TotalFitsPage

LEMMA TakePage ==
    ASSUME PageInv, Take
    PROVE  PageInv'
<1>1. TypeOK'
  BY OtherTypes DEF PageInv
<1>2. /\ pc' = "idle" /\ reply' = NoReply /\ info' = info
      /\ ~ReuseDest => dest' = << >>
      /\ pc = "done"
  BY DEF Take
<1>3. Working' /\ Measured' /\ ~Answered'
  BY <1>2 DEF PageInv, Working, Measured, NoReply, Answered
<1> QED BY <1>1, <1>3 DEF PageInv, Replied, AnsweredAfresh, TotalFitsPage

\* A write by another session leaves what the call has, and makes the call
\* disturbed.
LEMMA WritePage ==
    ASSUME PageInv, NEW T \in SUBSET (db \cup Rows), Write(T)
    PROVE  PageInv'
<1>1. TypeOK' /\ TypeOK
  BY OtherTypes DEF PageInv
<1>2. UNCHANGED <<isolated, pc, params, dest, had, info, snap, reply, at>>
  BY DEF Write
<1>3. Snapshot' /\ pc # "idle" => Snapshot /\ View' = View
  BY <1>1, <1>2 DEF Write, Snapshot, View, TypeOK
<1>4. Working'
  BY <1>2 DEF PageInv, Working
<1>5. Measured'
  BY <1>2, <1>3 DEF PageInv, Measured
<1>6. Answered' => Answered /\ pc # "idle"
  BY <1>2 DEF PageInv, Working, Answered, NoReply
<1>7. Replied'
  BY <1>2, <1>3, <1>6
     DEF PageInv, Replied, AnsweredAfresh, TotalFitsPage, OneTable, Snapshot
<1> QED BY <1>1, <1>4, <1>5, <1>7 DEF PageInv

LEMMA StillPage ==
    ASSUME PageInv, UNCHANGED vars \/ \E u : pc = "idle" /\ Reject(u)
    PROVE  PageInv'
<1>1. TypeOK'
  BY OtherTypes DEF PageInv
<1>2. CASE UNCHANGED vars
  <2>1. View' = View /\ Snapshot' = Snapshot
    BY <1>2 DEF vars, View, Snapshot
  <2>2. Working' /\ Measured'
    BY <1>2, <2>1 DEF vars, PageInv, Working, Measured
  <2>3. Replied'
    BY <1>2 DEF vars, PageInv, Replied, AnsweredAfresh, Answered, TotalFitsPage, OneTable
  <2> QED BY <1>1, <2>2, <2>3 DEF PageInv
<1>3. ASSUME NEW u, pc = "idle", Reject(u)
      PROVE  PageInv'
  <2>1. pc' = "done" /\ reply' = NoReply /\ info' = info /\ ~Answered'
    BY <1>3 DEF Reject, PageInv, Working, NoReply, Answered
  <2>2. Working' /\ Measured'
    BY <1>3, <2>1 DEF PageInv, Working, Measured
  <2> QED BY <1>1, <2>1, <2>2 DEF PageInv, Replied, AnsweredAfresh, TotalFitsPage
<1> QED BY <1>1, <1>2, <1>3

-----------------------------------------------------------------------------
(* The theorems.                                                           *)

THEOREM PageInvariant == Countable => (ServerSpec => []PageInv)
<1> SUFFICES ASSUME Countable PROVE ServerSpec => []PageInv
  OBVIOUS
<1>1. PageInv /\ [ServerNext]_vars => PageInv'
  <2> SUFFICES ASSUME PageInv, [ServerNext]_vars PROVE PageInv'
    OBVIOUS
  <2>1. CASE ServerNext
    BY <2>1, ServerStep, StartPage, PreCountPage, SelectPage, RecountPage, FailPage,
       TakePage, WritePage, StillPage
  <2> QED BY <2>1, StillPage
<1> QED BY <1>1, InitPage, PTL DEF ServerSpec

\* The page List returns is the one its PagingParams describe, of the table at
\* its SELECT, but for a Last page under a Before bound past the records or with
\* an After; for any table, requests and interleaving with other sessions, and
\* as long as the numbers do not overflow an int.
THEOREM OffsetPages == Countable => (ServerSpec => []PageIsDescribed)
<1> SUFFICES ASSUME Countable PROVE ServerSpec => []PageIsDescribed
  OBVIOUS
<1>1. PageInv => PageIsDescribed
  <2> SUFFICES ASSUME PageInv, AnsweredAfresh, OneTable,
                      Measurable(reply.params, Len(at))
               PROVE  Lists(reply.rows, Described(reply.params, at))
    BY DEF PageIsDescribed, Measurable
  <2>1. PICK n \in 0..MaxInt :
               /\ Taken(reply.params, reply.info, reply.rows, at, n)
               /\ NeedsTotal(reply.params) => n = Len(at)
    BY DEF PageInv, Replied
  <2> DEFINE p == reply.params
             i == reply.info
             d == reply.rows
  <2> HIDE DEF p, i, d
  <2>2. Taken(p, i, d, at, n) /\ (NeedsTotal(p) => n = Len(at))
        /\ Measurable(p, Len(at))
    BY <2>1 DEF p, i, d
  <2>3. Lists(d, Described(p, at))
    BY <2>2, TakenIsDescribed
  <2> QED BY <2>3 DEF p, d
<1> QED BY <1>1, PageInvariant, PTL

\* Offset and Truncated agree with the page, whatever is written meanwhile.
THEOREM OffsetInfos == Countable => (ServerSpec => []InfoFitsPage)
<1> SUFFICES ASSUME Countable PROVE ServerSpec => []InfoFitsPage
  OBVIOUS
<1>1. PageInv => InfoFitsPage
  <2> SUFFICES ASSUME PageInv, AnsweredAfresh PROVE InfoFitsPage
    BY DEF InfoFitsPage
  <2> DEFINE p == reply.params
             i == reply.info
             d == reply.rows
  <2>1. PICK n \in 0..MaxInt : Taken(p, i, d, at, n)
    BY DEF PageInv, Replied
  <2> HIDE DEF p, i, d
  <2>2. Fits(p, i, d, at)
    BY <2>1, TakenFits
  <2> QED BY <2>2 DEF Fits, InfoFitsPage, p, i, d
<1> QED BY <1>1, PageInvariant, PTL

\* A total that came with the page counts exactly the table the page came from;
\* one from a COUNT of its own does when both see one table.
THEOREM OffsetTotals == Countable => (ServerSpec => []TotalFitsPage)
<1> SUFFICES ASSUME Countable PROVE ServerSpec => []TotalFitsPage
  OBVIOUS
<1>1. PageInv => TotalFitsPage
  BY DEF PageInv, Replied
<1> QED BY <1>1, PageInvariant, PTL
=============================================================================
