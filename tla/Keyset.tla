------------------------------- MODULE Keyset -------------------------------
(***************************************************************************)
(* Keyset pagination (keyset.go): one client walking a query page by page  *)
(* with List in Seek mode, while other sessions write the table.           *)
(*                                                                         *)
(* A call is Seek (building the request), the SELECT, the optional COUNT   *)
(* and the return of the PageInfo; the writers interleave between any two. *)
(* Either statement may fail: the call then returns an error, and the      *)
(* client keeps the PageInfo it had and may ask again.                     *)
(*                                                                         *)
(* The table is the set of keys of the rows that satisfy effectiveCond():  *)
(* a row that is soft-deleted, or edited so that it stops matching, leaves *)
(* it as a deleted row does.  As SeekParams asks, the last column is       *)
(* unique, and only a term with a declared NULL placement may hold NULL.   *)
(***************************************************************************)
EXTENDS KeysetOrder, FiniteSets

CONSTANTS
    Vals,       \* non-NULL values of the columns before the last
    Ids,        \* values of the last, unique column
    Orders,     \* the OrderBy lists considered
    Databases,  \* the dialects considered
    Sizes,      \* SeekParams.Size values a client passes
    Totals,     \* SeekParams.IncludeTotal values a client passes
    Snapshot    \* TRUE: db is a transaction whose statements share a snapshot

OrderWellFormed(o) == o # << >> /\ o[Len(o)].nulls = "default"

ASSUME KeysetAssumption ==
    /\ Vals \subseteq Int /\ Ids \subseteq Int /\ Sizes \subseteq Int
    /\ Orders \subseteq Seq(OrderTerm)
    /\ \A o \in Orders : OrderWellFormed(o)
    /\ Databases \subseteq Dialects
    /\ Totals \subseteq BOOLEAN /\ Snapshot \in BOOLEAN

VARIABLES
    order, dialect,  \* the query: its OrderBy terms and dialect; never change
    db,              \* the table, as the set of its rows' keys
    pc,              \* where the call is: idle, select, count, return
    seek,            \* the request: seekState
    snap,            \* the transaction's snapshot, if it keeps one
    res,             \* keysetResult under construction
    shown,           \* the last PageInfo returned without error
    owed,            \* history: rows the walk still owes, see NothingSkipped
    frontier,        \* history: the furthest row returned in the walk
    pending          \* history: owed, if the call in flight returns

query   == <<order, dialect>>
call    == <<pc, seek, snap, res>>
history == <<owed, frontier, pending>>
vars    == <<query, db, call, shown, history>>

-----------------------------------------------------------------------------
(* Keys, cursors and tables.                                               *)

Column(o, i) == IF i = Len(o) THEN Ids
                ELSE IF o[i].nulls = "default" THEN Vals ELSE Vals \cup {NULL}
Keys(o) == {k \in [1..Len(o) -> Vals \cup Ids \cup {NULL}] :
               \A i \in DOMAIN k : k[i] \in Column(o, i)}
Id(k) == k[Len(k)]

IsTable(T) == /\ IsFiniteSet(T)
              /\ \A a, b \in T : Id(a) = Id(b) => a = b

\* toCursorElem and fromCursorElem on the two kinds of value modelled: a NULL
\* is tagged "0" and carries nothing, an integer is tagged "i".
ToCursorElem(v) == IF v = NULL THEN [t |-> "0", v |-> NULL]
                   ELSE [t |-> "i", v |-> v]
FromCursorElem(e) == IF e.t = "0" THEN NULL ELSE e.v

EncodeCursor(key) == [i \in DOMAIN key |-> ToCursorElem(key[i])]
DecodeCursor(c)   == [i \in DOMAIN c |-> FromCursorElem(c[i])]
NoCursor == << >>      \* the empty string: no order is empty, so no key's cursor

-----------------------------------------------------------------------------
(* The SELECT of one page.                                                 *)

\* The rows the WHERE clause admits.
Admitted(T, s) ==
    {k \in T : s.cursor # NoCursor =>
        KeysetCond(order, DecodeCursor(s.cursor), s.before, k) = "true"}

\* What ORDER BY o LIMIT n may answer over the rows S: rows in order, none
\* twice, and a row left out only when n others do not sort after it.
Answers(o, S, n) ==
    {w \in UNION {[1..m -> S] : m \in 0..n} :
        /\ \A i, j \in DOMAIN w :
              i < j => w[i] # w[j] /\ ~KeyLT(dialect, o, w[j], w[i])
        /\ \A k \in S : (\A i \in DOMAIN w : w[i] # k) =>
              Len(w) = n /\ \A i \in DOMAIN w : ~KeyLT(dialect, o, k, w[i])}

\* Slip: the rows of a backward page are left as they were fetched.
ReverseForgotten(w) == w
Reverse(w) == [i \in DOMAIN w |-> w[Len(w) + 1 - i]]

\* The rows kept of the size+1 fetched, in natural order.
Cut(w, n) == IF Len(w) > n THEN SubSeq(w, 1, n) ELSE w
PageOf(w, s) == IF s.before THEN Reverse(Cut(w, s.size)) ELSE Cut(w, s.size)

PageRows(w) == {w[i] : i \in DOMAIN w}

-----------------------------------------------------------------------------
(* The call.                                                               *)

NoResult == [keys |-> << >>, truncated |-> FALSE, total |-> 0, totalSet |-> FALSE]
NoInfo   == [start |-> NoCursor, end |-> NoCursor, truncated |-> FALSE,
             total |-> 0, totalSet |-> FALSE, before |-> FALSE]
NoSeek   == [cursor |-> NoCursor, before |-> FALSE, size |-> 1, total |-> FALSE]

\* What a client asks for: the cursors are ones it was given, or none.
Requests == [after : {NoCursor, shown.end}, before : {NoCursor, shown.start},
             size : Sizes, total : Totals]

\* Slip: the size is not checked.
SeekAnySize(p) ==
    /\ pc = "idle"
    /\ p.after = NoCursor \/ p.before = NoCursor
    /\ seek' = [cursor |-> IF p.before # NoCursor THEN p.before ELSE p.after,
                before |-> p.before # NoCursor,
                size |-> p.size, total |-> p.total]
    /\ pc' = "select"
    /\ UNCHANGED <<query, db, snap, res, shown, history>>

\* Seek, and the checks of runKeyset that come before any SQL.  A request
\* they refuse returns ErrCompile and changes nothing.
Seek(p) ==
    /\ pc = "idle"
    /\ p.after = NoCursor \/ p.before = NoCursor
    /\ p.size > 0
    /\ seek' = [cursor |-> IF p.before # NoCursor THEN p.before ELSE p.after,
                before |-> p.before # NoCursor,
                size |-> p.size, total |-> p.total]
    /\ pc' = "select"
    /\ UNCHANGED <<query, db, snap, res, shown, history>>

\* runKeyset up to the cursors: fetch size+1 rows past the cursor, in reversed
\* order for a backward page, drop the extra row, restore natural order.
RunSelect ==
    /\ pc = "select"
    /\ \E w \in Answers(IF seek.before THEN ReverseOrder(order) ELSE order,
                        Admitted(db, seek), seek.size + 1) :
          /\ res' = [NoResult EXCEPT !.keys = PageOf(w, seek),
                                     !.truncated = Len(w) > seek.size]
          /\ pending' = (IF seek.cursor = NoCursor THEN db ELSE owed)
                           \ PageRows(PageOf(w, seek))
    /\ snap' = IF Snapshot THEN db ELSE {}
    /\ pc' = IF seek.total THEN "count" ELSE "return"
    /\ UNCHANGED <<query, db, seek, shown, owed, frontier>>

\* Slip: the count runs outside the transaction.
RunCountOutside ==
    /\ pc = "count"
    /\ res' = [res EXCEPT !.total = Cardinality(db), !.totalSet = TRUE]
    /\ pc' = "return"
    /\ UNCHANGED <<query, db, seek, snap, shown, history>>

\* count: the filter's total, without the seek predicate.
RunCount ==
    /\ pc = "count"
    /\ res' = [res EXCEPT !.total = Cardinality(IF Snapshot THEN snap ELSE db),
                          !.totalSet = TRUE]
    /\ pc' = "return"
    /\ UNCHANGED <<query, db, seek, snap, shown, history>>

\* A statement fails: the call returns no PageInfo.
Fail ==
    /\ pc \in {"select", "count"}
    /\ pc' = "idle"
    /\ seek' = NoSeek /\ snap' = {} /\ res' = NoResult /\ pending' = {}
    /\ UNCHANGED <<query, db, shown, owed, frontier>>

Further(a, b) == IF a = NoCursor \/ (b # NoCursor /\ Precedes(order, a, b))
                 THEN b ELSE a
Last(w) == IF w = << >> THEN NoCursor ELSE w[Len(w)]
FrontierAfter == Further(IF seek.cursor = NoCursor THEN NoCursor ELSE frontier,
                         Last(res.keys))

\* listKeyset: the PageInfo of the page.
Return ==
    /\ pc = "return"
    /\ LET cursors == [i \in DOMAIN res.keys |-> EncodeCursor(res.keys[i])]
       IN  shown' = [start |-> IF cursors = << >> THEN NoCursor ELSE cursors[1],
                     end |-> Last(cursors),
                     truncated |-> res.truncated,
                     total |-> res.total, totalSet |-> res.totalSet,
                     before |-> seek.before]
    /\ owed' = pending
    /\ frontier' = FrontierAfter
    /\ pc' = "idle"
    /\ seek' = NoSeek /\ snap' = {} /\ res' = NoResult /\ pending' = {}
    /\ UNCHANGED <<query, db>>

-----------------------------------------------------------------------------
(* The other sessions.                                                     *)

Write(T, lost) ==
    /\ IsTable(T)
    /\ db' = T
    /\ owed' = owed \ lost
    /\ pending' = pending \ lost
    /\ UNCHANGED <<query, call, shown, frontier>>

Insert(k) == k \notin db /\ Write(db \cup {k}, {})
Delete(k) == k \in db /\ Write(db \ {k}, {k})
\* An update that moves a row in the order.
Move(k, m) == k \in db /\ m # k /\ Id(m) = Id(k)
              /\ Write((db \ {k}) \cup {m}, {k})

-----------------------------------------------------------------------------
Init ==
    /\ order \in Orders /\ dialect \in Databases
    /\ db \in {T \in SUBSET Keys(order) : IsTable(T)}
    /\ pc = "idle" /\ seek = NoSeek /\ snap = {} /\ res = NoResult
    /\ shown = NoInfo
    /\ owed = {} /\ frontier = NoCursor /\ pending = {}

Call == \/ \E p \in Requests : Seek(p)
        \/ RunSelect \/ RunCount \/ Fail \/ Return
Writer == \E k \in Keys(order) :
             Insert(k) \/ Delete(k) \/ \E m \in Keys(order) : Move(k, m)

Next == Call \/ Writer

Spec == Init /\ [][Next]_vars

-----------------------------------------------------------------------------
(* Properties.                                                             *)

Cursors(o) == {NoCursor} \cup {EncodeCursor(k) : k \in Keys(o)}

\* Types, and that the table never holds two rows with one key, a request that
\* reached SQL has a positive size, and only rows still there are owed.
TypeOK ==
    /\ order \in Orders /\ dialect \in Databases
    /\ db \subseteq Keys(order) /\ IsTable(db)
    /\ snap \subseteq Keys(order) /\ IsTable(snap)
    /\ pc \in {"idle", "select", "count", "return"}
    /\ seek \in [cursor : Cursors(order), before : BOOLEAN,
                 size : Nat \ {0}, total : BOOLEAN]
    /\ res \in [keys : Seq(Keys(order)), truncated : BOOLEAN,
                total : Nat, totalSet : BOOLEAN]
    /\ shown \in [start : Cursors(order), end : Cursors(order),
                  truncated : BOOLEAN, total : Nat, totalSet : BOOLEAN,
                  before : BOOLEAN]
    /\ owed \subseteq db /\ pending \subseteq db
    /\ frontier \in {NoCursor} \cup Keys(order)

\* A row that was there when the walk's first page was read, and has not been
\* written since, is returned before the walk gets past it: whatever pages are
\* re-read, walked back over or lost to errors, no such row is left behind.
NothingSkipped ==
    \A k \in owed : frontier # NoCursor /\ Precedes(order, frontier, k)

\* Truncated = false on a forward page means the walk is complete: every row
\* there from its first page on has been returned (PageInfo.Truncated).
ExhaustedMeansAllSeen ==
    ~shown.before /\ ~shown.truncated => owed = {}

\* No cursor is ahead of the frontier.
Behind(c) ==
    c # NoCursor => /\ frontier # NoCursor
                    /\ \/ DecodeCursor(c) = frontier
                       \/ Precedes(order, DecodeCursor(c), frontier)
CursorsBehind ==
    /\ Behind(shown.start) /\ Behind(shown.end)
    /\ pc # "idle" => Behind(seek.cursor)
    /\ seek.before => seek.cursor # NoCursor
\* A page being returned moves the frontier past every row it does not owe.
PageInFlight ==
    pc \in {"count", "return"} =>
        /\ \A k \in pending :
              FrontierAfter # NoCursor /\ Precedes(order, FrontierAfter, k)
        /\ \A k \in PageRows(res.keys) :
              k = FrontierAfter \/ Precedes(order, k, FrontierAfter)
        /\ ~seek.before /\ ~res.truncated => pending = {}
\* The frontier is the furthest row the client or a call in flight knows of, and
\* every row still owed is past it: what makes the two above inductive, between
\* the SELECT and the return of a page as well as between calls.
WalkInv == NothingSkipped /\ ExhaustedMeansAllSeen /\ CursorsBehind /\ PageInFlight

\* The state of Pager that a state of Keyset stands for.
Asked == IF pc = "idle" THEN [nothing |-> TRUE]
         ELSE [from |-> DecodeCursor(seek.cursor), back |-> seek.before,
               size |-> seek.size]
Got   == IF pc \notin {"count", "return"} THEN [nothing |-> TRUE]
         ELSE [rows |-> res.keys, more |-> res.truncated]
Seen  == [first |-> DecodeCursor(shown.start), last |-> DecodeCursor(shown.end),
          more |-> shown.truncated]
P == INSTANCE Pager WITH table <- db, asked <- Asked, got <- Got, seen <- Seen
\* Keyset paging, with its SQL predicate, reversed fetch, extra row and encoded
\* cursors, shows what Pager promises: the page is the window of the declared
\* order next to the row of the cursor, and Truncated says if more follow there.
ImplementsPager == P!Spec

\* With both statements in one snapshot, the total and the page agree: the
\* total counts every returned row and, when Truncated, one more at least.
TotalCoversPage ==
    Snapshot /\ pc = "return" /\ res.totalSet =>
        Len(res.keys) + (IF res.truncated THEN 1 ELSE 0) <= res.total
=============================================================================
