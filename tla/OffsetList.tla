----------------------------- MODULE OffsetList -----------------------------
(***************************************************************************)
(* Offset pagination (List in query.go over Paginate): one client calling  *)
(* List while other sessions write the table.  A call is up to two         *)
(* statements: a COUNT first when the page is measured from the end, then  *)
(* the SELECT with the window total in it, or else a COUNT after it when   *)
(* the page came back empty.  Any of them may fail.                        *)
(*                                                                         *)
(* A row is its position in the ordering; the table is a set of rows, and  *)
(* the SELECT sees them sorted.                                            *)
(***************************************************************************)
EXTENDS Paginate, Sequences, FiniteSets

CONSTANTS
    Rows,       \* the rows there can be, as positions in the ordering
    Numbers,    \* the numbers a client passes in PagingParams
    Database,   \* the dialect
    Isolation,  \* whether db is a transaction whose statements share a snapshot
    ReuseDest,  \* TRUE: the client passes the slice it already has rows in
    MaxHeld     \* bound: the most rows such a slice holds at a call

ASSUME OffsetListAssumption ==
    /\ Rows \subseteq Int /\ IsFiniteSet(Rows) /\ Numbers \subseteq Int
    /\ Database \in {"postgres", "mysql", "sqlite"}
    /\ Isolation \subseteq BOOLEAN /\ ReuseDest \in BOOLEAN
    /\ MaxHeld \in Nat

VARIABLES
    db,      \* the table
    isolated,  \* db is a transaction that keeps a snapshot; never changes
    pc,      \* idle, count (before), select, recount (after), done
    params,  \* PagingParams of the call
    dest,    \* the client's slice
    had,     \* history: what it held when the call began
    info,    \* PageInfo under construction
    snap,    \* the transaction's snapshot
    reply,   \* what the last call returned
    at,      \* history: the table in order, at the call's SELECT
    calm     \* history: no write since the call began

vars == <<db, isolated, pc, params, dest, had, info, snap, reply, at, calm>>

NoParams == [before |-> Nil, after |-> Nil, first |-> Nil, last |-> Nil,
             total |-> FALSE]
NoInfo   == [total |-> 0, offset |-> 0, truncated |-> FALSE]
NoReply  == [ok |-> FALSE]
Panicked == [ok |-> FALSE, panic |-> TRUE]

\* Slip: a statement runs outside the transaction.
ViewLatest == db
View == IF isolated THEN snap ELSE db

-----------------------------------------------------------------------------
(* The SELECT.                                                             *)

\* The rows w are those of S, each once, in order.
Lists(w, S) == /\ \A i, j \in DOMAIN w : i < j => w[i] < w[j]
               /\ {w[i] : i \in DOMAIN w} = S

\* The table as SELECT ... ORDER BY goes through it.
Ordered(T) == {w \in [1..Cardinality(T) -> T] : Lists(w, T)}

Slice(w, offset, limit) ==
    SubSeq(w, offset + 1, IF offset + limit < Len(w) THEN offset + limit ELSE Len(w))

\* buildSelect: limit+1 rows from offset, every row from offset when there is
\* no limit, or every row.  A negative LIMIT or OFFSET is refused, except that
\* SQLite reads the one as none and the other as zero.
Refused(limit, offset) ==
    Database # "sqlite" /\ limit > 0 /\ (Wrap(limit + 1) < 0 \/ offset < 0)
\* Slip: no extra row is fetched.
FetchedExactly(w, limit, offset) ==
    IF limit > 0 THEN Slice(w, IF offset < 0 THEN 0 ELSE offset, limit)
    ELSE IF offset > 0 THEN Slice(w, offset, Len(w))
    ELSE w
Fetched(w, limit, offset) ==
    IF limit > 0
    THEN Slice(w, IF offset < 0 THEN 0 ELSE offset,
               IF Wrap(limit + 1) < 0 THEN Len(w) ELSE Wrap(limit + 1))
    ELSE IF offset > 0 THEN Slice(w, offset, Len(w))
    ELSE w

-----------------------------------------------------------------------------
(* The call.                                                               *)

Finish(p, i, d) ==
    /\ pc' = "done"
    /\ reply' = [ok |-> TRUE, params |-> p, info |-> i, rows |-> d]
    /\ info' = NoInfo
    /\ UNCHANGED <<db, isolated>>

\* Paginate panics: arguments that contradict are taken for a programming error.
Panic(p) ==
    /\ pc = "idle"
    /\ Contradictory(p)
    /\ pc' = "done" /\ reply' = Panicked
    /\ UNCHANGED <<db, isolated, params, dest, had, info, snap, at, calm>>

Start(p) ==
    /\ pc = "idle"
    /\ ~Contradictory(p)
    /\ params' = p
    /\ had' = dest
    /\ snap' = IF isolated THEN db ELSE {}
    /\ IF FetchesNothing(p) /\ ~NeedsTotal(p)
       THEN Finish(p, NoInfo, dest)
       ELSE /\ pc' = IF NeedsTotal(p) THEN "count" ELSE "select"
            /\ UNCHANGED <<db, isolated, info, reply>>
    /\ UNCHANGED <<dest, at, calm>>

CallList(p) == Start(p) \/ Panic(p)

\* The COUNT that comes first: of the page measured from the end, or all there
\* is to do for an empty one.
PreCount ==
    /\ pc = "count"
    /\ LET i == [info EXCEPT !.total = Cardinality(View)]
       IN  IF FetchesNothing(params)
           THEN Finish(params, i, dest)
           ELSE pc' = "select" /\ info' = i /\ UNCHANGED <<db, isolated, reply>>
    /\ UNCHANGED <<params, dest, had, snap, at, calm>>

\* selectRows, the trimming of the extra row, and the window total.
Select ==
    /\ pc = "select"
    /\ \E w \in Ordered(View) :
          LET counted == NeedsTotal(params)
              win == Resolve(Window(params), info.total)
              rows == Fetched(w, win.limit, win.offset)
              truncated == win.limit > 0 /\ Len(rows) > win.limit
              i == [total |-> IF ~counted /\ params.total /\ rows # << >>
                              THEN Cardinality(View) ELSE info.total,
                    offset |-> win.offset, truncated |-> truncated]
          IN  /\ ~Refused(win.limit, win.offset)
              /\ dest' = IF truncated THEN SubSeq(dest \o rows, 1, win.limit)
                         ELSE dest \o rows
              /\ at' = w
              /\ IF ~counted /\ params.total /\ rows = << >>
                 THEN pc' = "recount" /\ info' = i /\ UNCHANGED <<db, isolated, reply>>
                 ELSE Finish(params, i, dest')
    /\ UNCHANGED <<params, had, snap, calm>>

\* Slip: an empty page is not counted.
RecountSkipped ==
    /\ pc = "recount"
    /\ Finish(params, info, dest)
    /\ UNCHANGED <<params, dest, had, snap, at, calm>>
\* The COUNT of a page that came back empty, and so without the window total.
Recount ==
    /\ pc = "recount"
    /\ Finish(params, [info EXCEPT !.total = Cardinality(View)], dest)
    /\ UNCHANGED <<params, dest, had, snap, at, calm>>

\* A statement fails, the SELECT possibly after it delivered some rows.
Fail ==
    /\ pc \in {"count", "select", "recount"}
    /\ pc' = "done" /\ info' = NoInfo /\ UNCHANGED reply
    /\ \/ UNCHANGED dest
       \/ /\ pc = "select"
          /\ \E w \in Ordered(View) :
                LET win == Resolve(Window(params), info.total)
                    rows == Fetched(w, win.limit, win.offset)
                IN  /\ ~Refused(win.limit, win.offset)
                    /\ \E n \in 1..Len(rows) : dest' = dest \o SubSeq(rows, 1, n)
    /\ UNCHANGED <<db, isolated, params, had, snap, at, calm>>

\* The client is done with the answer, and keeps or drops the slice.
Take ==
    /\ pc = "done"
    /\ pc' = "idle"
    /\ dest' = IF ReuseDest /\ Len(dest) <= MaxHeld THEN dest ELSE << >>
    /\ params' = NoParams /\ had' = << >> /\ snap' = {} /\ reply' = NoReply
    /\ at' = << >> /\ calm' = TRUE
    /\ UNCHANGED <<db, isolated, info>>

-----------------------------------------------------------------------------
Write(T) ==
    /\ db' = T /\ calm' = (pc = "idle")
    /\ UNCHANGED <<isolated, pc, params, dest, had, info, snap, reply, at>>
Insert(r) == r \notin db /\ Write(db \cup {r})
Delete(r) == r \in db /\ Write(db \ {r})

Init ==
    /\ db \in SUBSET Rows /\ isolated \in Isolation
    /\ pc = "idle" /\ params = NoParams /\ dest = << >> /\ had = << >>
    /\ info = NoInfo
    /\ snap = {} /\ reply = NoReply /\ at = << >> /\ calm = TRUE

Work == \/ PreCount \/ Select \/ Recount \/ Fail \/ Take
        \/ \E r \in Rows : Insert(r) \/ Delete(r)
Next == (\E p \in Params(Numbers) : CallList(p)) \/ Work

Spec == Init /\ [][Next]_vars

-----------------------------------------------------------------------------
(* Properties.                                                             *)

Infos   == [total : Nat, offset : Int, truncated : BOOLEAN]
Replies == {NoReply, Panicked} \cup [ok : {TRUE}, params : Params(Numbers),
                                     info : Infos, rows : Seq(Rows)]

\* Types, and that a call past Paginate's checks has arguments that agree.
TypeOK ==
    /\ db \subseteq Rows /\ snap \subseteq Rows /\ at \in Seq(Rows)
    /\ isolated \in BOOLEAN
    /\ pc \in {"idle", "count", "select", "recount", "done"}
    /\ params \in Params(Numbers) /\ Nil \in {params.first, params.last}
    /\ {params.first, params.last} \subseteq Nat \cup {Nil}
    /\ dest \in Seq(Rows) /\ had \in Seq(Rows)
    /\ info \in Infos /\ reply \in Replies /\ calm \in BOOLEAN

\* What PagingParams describes: the positions after After and before Before,
\* and of those the First ones or the Last ones.
Eligible(p, n) == {i \in 0..(n - 1) : /\ p.after = Nil \/ i > p.after
                                      /\ p.before = Nil \/ i < p.before}
Chosen(p, n) ==
    {i \in Eligible(p, n) :
        /\ p.first # Nil => Cardinality({j \in Eligible(p, n) : j < i}) < p.first
        /\ p.last # Nil => Cardinality({j \in Eligible(p, n) : j > i}) < p.last}
Described(p, w) == {w[i + 1] : i \in Chosen(p, Len(w))}

\* The table the page came from is also the one its window was computed for.
OneTable == isolated \/ calm \/ ~NeedsTotal(reply.params)
Answered == reply.ok /\ ~FetchesNothing(reply.params)
\* The same, into a slice that held nothing.
AnsweredAfresh == Answered /\ ~ReuseDest

\* The page List returns is the one PagingParams describes, of the table at
\* the SELECT - except that a Last page under a Before bound is right only when
\* that bound falls within the records and no After is given: it is worked out
\* without knowing where the records end.
PageIsDescribed ==
    AnsweredAfresh /\ OneTable =>
        LET p == reply.params
        IN  p.last = Nil \/ p.before = Nil
               \/ (FirstOffset(p) = 0 /\ p.before <= Len(at))
            => Lists(reply.rows, Described(p, at))

\* PageInfo agrees with the page, all taken from one table: Offset is the
\* position of the first row and Truncated is whether a limit cut rows off.
InfoFitsPage ==
    AnsweredAfresh =>
        LET i == reply.info
            p == reply.params
            n == Len(at)
        IN  /\ reply.rows # << >> =>
                  i.offset \in 0..(n - 1) /\ at[i.offset + 1] = reply.rows[1]
            /\ i.truncated <=> /\ {p.first, p.last, p.before} # {Nil}
                               /\ i.offset + Len(reply.rows) < n

\* The window total counts exactly the table the page came from, whatever is
\* written meanwhile; a total from a COUNT of its own does so only when both
\* statements see one table.
TotalFitsPage ==
    /\ AnsweredAfresh
    /\ reply.params.total \/ NeedsTotal(reply.params)
    /\ isolated \/ calm \/ (~NeedsTotal(reply.params) /\ reply.rows # << >>)
    => reply.info.total = Len(at)

\* First and Last bound the page from the start or the end of the range
\* (PagingParams).
LastIsFromTheEnd ==
    Answered /\ calm => Lists(reply.rows, Described(reply.params, at))

\* Of the limit+1 rows fetched only the extra one is dropped (List).
OnlyExtraRowDropped ==
    Answered /\ calm /\ reply.info.truncated =>
        Len(reply.rows) = Len(had) + Resolve(Window(reply.params), reply.info.total).limit
=============================================================================
