---------------------------- MODULE PageRequests ------------------------------
(***************************************************************************)
(* The paging arguments of an HTTP request (BindPage and BindSeek in       *)
(* bind.go).  A query string gives each parameter in it the sequence of    *)
(* its raw values, as url.Values does; what strconv reads in a raw value   *)
(* is given.                                                               *)
(***************************************************************************)
EXTENDS Sequences

CONSTANTS
    Atoi,       \* strconv.Atoi: the raw values it accepts, each with its integer
    ParseBool,  \* strconv.ParseBool, likewise
    Absent      \* in place of a raw value: the parameter is not there

\* The first value of a parameter.
First(u, key) == IF key \in DOMAIN u /\ u[key] # << >> THEN u[key][1] ELSE Absent

Truthy(raw) == raw \in DOMAIN ParseBool /\ ParseBool[raw]
WantsTotal(u) == IF First(u, "total") # Absent THEN Truthy(First(u, "total"))
                 ELSE Truthy(First(u, "include_total"))

Unread(u, keys) == \E k \in keys : First(u, k) \notin DOMAIN Atoi \cup {Absent}
Number(u, key, none) == IF First(u, key) = Absent THEN none ELSE Atoi[First(u, key)]

\* BindPage: PagingParams, with none for an argument that is absent.
BindPageFails(u) == Unread(u, {"first", "last", "after", "before"})
BindPage(u, none) ==
    [first |-> Number(u, "first", none), last |-> Number(u, "last", none),
     after |-> Number(u, "after", none), before |-> Number(u, "before", none),
     total |-> WantsTotal(u)]

\* BindSeek: SeekParams, whose zero values stand for what is absent.
BindSeekFails(u) == Unread(u, {"size"})
BindSeek(u, noCursor) ==
    LET cursor(key) == IF First(u, key) = Absent THEN noCursor ELSE First(u, key)
    IN  [after |-> cursor("after"), before |-> cursor("before"),
         size |-> Number(u, "size", 0), total |-> WantsTotal(u)]
=============================================================================
