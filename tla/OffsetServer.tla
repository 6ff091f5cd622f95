---------------------------- MODULE OffsetServer ----------------------------
(***************************************************************************)
(* List behind an HTTP handler such as listArticles of the examples: the   *)
(* paging arguments of each call come from a query string, by BindPage.    *)
(***************************************************************************)
EXTENDS OffsetList, PageRequests

CONSTANT Queries    \* the query strings clients send

ASSUME OffsetServerAssumption ==
    /\ \A r \in DOMAIN Atoi : Atoi[r] \in Numbers
    /\ \A r \in DOMAIN ParseBool : ParseBool[r] \in BOOLEAN

\* The handler answers a query string it cannot read with an error, and calls
\* List with any other.
Reject(u) ==
    /\ BindPageFails(u)
    /\ pc' = "done"
    /\ UNCHANGED <<db, isolated, params, dest, had, info, snap, reply, at, calm>>
Handle(u) == ~BindPageFails(u) /\ CallList(BindPage(u, Nil))

Request == pc = "idle" /\ \E u \in Queries : Handle(u) \/ Reject(u)

ServerNext == Request \/ Work
ServerSpec == Init /\ [][ServerNext]_vars

\* What BindPage returns is safe to pass straight to Query.Page (BindPage).
RequestsDoNotPanic == reply # Panicked
=============================================================================
