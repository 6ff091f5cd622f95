----------------------------- MODULE Connection ------------------------------
(***************************************************************************)
(* The Relay connection (connection.go): the shape ListConnection gives    *)
(* the page that runKeyset found, where List gives it a PageInfo.          *)
(*                                                                         *)
(* A call is that of module Keyset, up to its return; what it returns is a *)
(* function of the request and the page, so no state is added.             *)
(***************************************************************************)
EXTENDS Keyset

\* Slip: the two flags do not swap on a backward page.
ConnectionUnswapped(s, r) ==
    [edges |-> [i \in DOMAIN r.keys |-> [node |-> r.keys[i],
                                         cursor |-> EncodeCursor(r.keys[i])]],
     hasNext |-> r.truncated, hasPrevious |-> s.cursor # NoCursor,
     totalCount |-> IF r.totalSet THEN r.total ELSE -1]
\* Slip: a page is taken to exist only where the page found ran over.
ConnectionOneSided(s, r) ==
    [edges |-> [i \in DOMAIN r.keys |-> [node |-> r.keys[i],
                                         cursor |-> EncodeCursor(r.keys[i])]],
     hasNext |-> ~s.before /\ r.truncated, hasPrevious |-> s.before /\ r.truncated,
     totalCount |-> IF r.totalSet THEN r.total ELSE -1]
\* The connection for a request s and the page r.  In the paging direction the
\* extra row says if a page follows; the other way, that there was a cursor.
ConnectionOf(s, r) ==
    [edges |-> [i \in DOMAIN r.keys |-> [node |-> r.keys[i],
                                         cursor |-> EncodeCursor(r.keys[i])]],
     hasNext |-> IF s.before THEN s.cursor # NoCursor ELSE r.truncated,
     hasPrevious |-> IF s.before THEN r.truncated ELSE s.cursor # NoCursor,
     totalCount |-> IF r.totalSet THEN r.total ELSE -1]

-----------------------------------------------------------------------------
(* Properties, at the instant the page is read.                            *)

\* The connection of the page RunSelect finds.
Conn == ConnectionOf(seek', res')
Nodes == {Conn.edges[i].node : i \in DOMAIN Conn.edges}

\* Row k is beyond the end, or the start, of the page.
PastEnd(k)   == \A r \in Nodes : Precedes(order, r, k)
PastStart(k) == \A r \in Nodes : Precedes(order, k, r)

\* No page is denied: a row that matches and is not on the page is past an end
\* of it whose flag is up, whatever was written since the cursor was issued.
\* So a client that follows hasNextPage, or hasPreviousPage, never stops short.
NoPageDenied ==
    [][RunSelect => \A k \in db \ Nodes :
          \/ PastEnd(k) /\ Conn.hasNext
          \/ PastStart(k) /\ Conn.hasPrevious]_vars

\* No page is promised that is not there: a flag is up only if a row is past
\* that end.  In the paging direction always; the other way, where the flag says
\* only that there was a cursor, while the row the cursor came from is there.
NoPageInvented ==
    [][RunSelect =>
          LET stands == DecodeCursor(seek.cursor) \in db
          IN  /\ Conn.hasNext /\ (seek.before => stands)
                   => \E k \in db \ Nodes : PastEnd(k)
              /\ Conn.hasPrevious /\ (~seek.before => stands)
                   => \E k \in db \ Nodes : PastStart(k)]_vars
=============================================================================
