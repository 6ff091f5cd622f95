----------------------------- MODULE KeysetWalk -----------------------------
(***************************************************************************)
(* The client keyset paging is meant for: it asks for the first page, and  *)
(* then for the page after EndCursor as long as PageInfo says Truncated,   *)
(* repeating a call that failed.  It asks over HTTP, of a handler such as  *)
(* ArticleFeed of the examples.  Other sessions write all along.           *)
(***************************************************************************)
EXTENDS Keyset, PageRequests

CONSTANTS
    Queries,     \* what the client asks for beside the cursor: query strings
    DefaultSize  \* the page size of a request that gives none

ASSUME KeysetWalkAssumption ==
    /\ DefaultSize \in Nat \ {0}
    /\ \A r \in Queries : /\ {"after", "before"} \cap DOMAIN r = {}
                          /\ ~BindSeekFails(r) /\ Number(r, "size", 0) >= 0

VARIABLES
    asks,    \* what the client asks for; never changes
    more     \* the client's loop condition

walk == <<vars, asks, more>>

\* The request for the next page.
WithAfter(cursor) ==
    IF cursor = NoCursor THEN asks
    ELSE [k \in DOMAIN asks \cup {"after"} |-> IF k = "after" THEN <<cursor>> ELSE asks[k]]

\* Slip: the arguments are passed straight to Seek, as BindSeek's doc allows.
ArticleFeedStraight(req) == BindSeek(req, NoCursor)
\* The handler: an absent size is 0, which Seek refuses, so it sets one.
ArticleFeed(req) ==
    LET p == BindSeek(req, NoCursor)
    IN  IF p.size = 0 THEN [p EXCEPT !.size = DefaultSize] ELSE p

AskNext ==
    /\ more
    /\ Seek(ArticleFeed(WithAfter(shown.end)))
    /\ UNCHANGED <<asks, more>>
Select == RunSelect /\ UNCHANGED <<asks, more>>
Count  == RunCount /\ UNCHANGED <<asks, more>>
Lost   == Fail /\ UNCHANGED <<asks, more>>
Answer == Return /\ more' = res.truncated /\ UNCHANGED asks
Others == Writer /\ UNCHANGED <<asks, more>>

WalkInit == Init /\ asks \in Queries /\ more = TRUE
WalkNext == AskNext \/ Select \/ Count \/ Lost \/ Answer \/ Others

\* The client and List keep going, and a statement that is retried for ever
\* is not refused for ever.  Nothing is asked of the writers.
WalkSpec ==
    /\ WalkInit /\ [][WalkNext]_walk
    /\ WF_walk(AskNext) /\ WF_walk(Answer)
    /\ SF_walk(Select) /\ SF_walk(Count)

\* The walk ends, however the table changes under it: every page moves the
\* cursor strictly on, and a page that is not Truncated is the last.
WalkEnds == <>(~more)
=============================================================================
