------------------------------- MODULE ReadPages ----------------------------
(***************************************************************************)
(* readEventsPage: a walk over the events of a set of streams, one bounded *)
(* page per call, while transactions append.                               *)
(*                                                                         *)
(* The first call captures a boundary, the highest visible position and    *)
(* the MVCC snapshot; every cursor carries it on, and every page is read   *)
(* by a new statement that filters on it.  The store keeps nothing between *)
(* calls, so one walk stands for any number of them.                       *)
(***************************************************************************)
EXTENDS Integers, Sequences, FiniteSets, FiniteSetsExt

CONSTANTS
  Transactions,  \* appending transactions
  Streams,
  Limits,        \* page sizes a caller asks for
  MaxPosition    \* bound: events inserted

ASSUME ReadPagesAssumption ==
  /\ Limits \subseteq Nat \ {0}
  /\ MaxPosition \in Nat

VARIABLES
  events,   \* the event inserted at each position: [stream, tx]
  xid,      \* transaction id; 0 before the first write of the transaction
  status,   \* "running", "committed" or "rolledBack"
  phase,    \* of the walk: "new", "captured", "between" or "done"
  request,  \* [streams, order] of the walk
  boundary, \* [watermark, xmax, inProgress]
  cursor,   \* position of the last row of the last page; 0 if there is none
  pages,    \* the pages returned: [cursor, limit, rows]; rows is a set of positions
  expected  \* history: the matching events visible when the walk began

walk == <<phase, request, boundary, cursor, pages, expected>>
wvars == <<events, xid, status, walk>>

Requests == [streams : SUBSET Streams, order : {"asc", "desc"}]
Positions == 1..Len(events)

WInit ==
  /\ events = <<>>
  /\ xid = [t \in Transactions |-> 0]
  /\ status = [t \in Transactions |-> "running"]
  /\ phase = "new"
  /\ request \in Requests
  /\ boundary = [watermark |-> 0, xmax |-> 1, inProgress |-> {}]
  /\ cursor = 0
  /\ pages = <<>>
  /\ expected = {}

-----------------------------------------------------------------------------
(* Appends.                                                                *)

\* The first write of a transaction gives it its id.  It need not be an event:
\* an append may wait for locks after it.
AssignXid(t) ==
  /\ status[t] = "running"
  /\ xid[t] = 0
  /\ xid' = [xid EXCEPT ![t] = 1 + Max({xid[u] : u \in Transactions})]
  /\ UNCHANGED <<events, status, walk>>

\* One event into stream s, under the lock its transaction holds on the stream.
Insert(t, s) ==
  /\ status[t] = "running"
  /\ xid[t] # 0
  /\ Len(events) < MaxPosition
  /\ \A p \in Positions :
       events[p].stream = s => events[p].tx = t \/ status[events[p].tx] # "running"
  /\ events' = Append(events, [stream |-> s, tx |-> t])
  /\ UNCHANGED <<xid, status, walk>>

EndTransaction(t) ==
  /\ status[t] = "running"
  /\ xid[t] # 0
  /\ \E outcome \in {"committed", "rolledBack"} :
       status' = [status EXCEPT ![t] = outcome]
  /\ UNCHANGED <<events, xid, walk>>

-----------------------------------------------------------------------------
(* The walk.                                                               *)

Committed == {p \in Positions : status[events[p].tx] = "committed"}

\* ORDER BY global_position, in the direction of the walk.
Before(p, q, order) == IF order = "asc" THEN p < q ELSE q < p

\* ORDER BY ... LIMIT n.
FirstRows(S, order, n) ==
  {p \in S : Cardinality({q \in S : Before(q, p, order)}) < n}

LastRow(S, order) == CHOOSE p \in S : \A q \in S \ {p} : Before(q, p, order)

\* The transactions that have ended, up to the largest id among them, and those
\* that were still running when it was given out.
LastEnded == Max({0} \cup {xid[t] : t \in {u \in Transactions : status[u] # "running"}})
InProgress ==
  {xid[t] : t \in {u \in Transactions : status[u] = "running" /\ xid[u] \in 1..LastEnded}}

\* pg_current_snapshot() and the highest position, in one statement.
CurrentBoundary ==
  [watermark  |-> Max({0} \cup Committed),
   xmax       |-> 1 + LastEnded,
   inProgress |-> InProgress]

\* Mutant: a page read with the watermark alone.
VisibleInBoundary_WatermarkOnly(p) == TRUE

\* pg_visible_in_snapshot(event.txid, snapshot).
VisibleInBoundary(p) ==
  LET id == xid[events[p].tx] IN id < boundary.xmax /\ id \notin boundary.inProgress

\* The rows after cursor c, in the order of the walk.
After(p, c) == c = 0 \/ Before(c, p, request.order)

\* Mutant: no further row to tell that there is a next page.
Lookahead_None(limit) == limit

\* The limit a page is read with: one row more than it shows.
Lookahead(limit) == limit + 1

\* The events of stream s that the walk is about.
Matching(s) ==
  {p \in Committed : /\ events[p].stream = s
                     /\ p <= boundary.watermark
                     /\ VisibleInBoundary(p)}

\* The page query: the first rows of each stream, and of those the first rows.
PageRows(c, limit) ==
  LET Of(s) == {p \in Matching(s) : After(p, c)}
      perStream == UNION {FirstRows(Of(s), request.order, Lookahead(limit)) :
                            s \in request.streams}
  IN  FirstRows(perStream, request.order, Lookahead(limit))

PageShown(c, limit) == FirstRows(PageRows(c, limit), request.order, limit)

ReturnPage(limit) ==
  LET rows == PageRows(cursor, limit)
      shown == PageShown(cursor, limit)
  IN  /\ pages' = Append(pages, [cursor |-> cursor, limit |-> limit, rows |-> shown])
      /\ IF Cardinality(rows) > limit
         THEN phase' = "between" /\ cursor' = LastRow(shown, request.order)
         ELSE phase' = "done" /\ UNCHANGED cursor

\* No streams asked for: an empty page, no query.
StartEmpty ==
  /\ phase = "new"
  /\ request.streams = {}
  /\ phase' = "done"
  /\ UNCHANGED <<events, xid, status, request, boundary, cursor, pages, expected>>

CaptureBoundary ==
  /\ phase = "new"
  /\ request.streams # {}
  /\ phase' = "captured"
  /\ boundary' = CurrentBoundary
  /\ expected' = {p \in Committed : events[p].stream \in request.streams}
  /\ UNCHANGED <<events, xid, status, request, cursor, pages>>

FirstPage(limit) ==
  /\ phase = "captured"
  /\ ReturnPage(limit)
  /\ UNCHANGED <<events, xid, status, request, boundary, expected>>

\* A cursor is good for the streams and the order it was made with.
Accepts(asked) == asked = request

\* The next call, which may pass another limit, or other streams or another
\* order, which InvalidArgumentError refuses.
NextPage(asked, limit) ==
  /\ phase = "between"
  /\ Accepts(asked)
  /\ asked.streams # {}
  /\ request' = asked
  /\ ReturnPage(limit)
  /\ UNCHANGED <<events, xid, status, boundary, expected>>

-----------------------------------------------------------------------------
WNext ==
  \/ \E t \in Transactions :
       \/ AssignXid(t)
       \/ \E s \in Streams : Insert(t, s)
       \/ EndTransaction(t)
  \/ StartEmpty
  \/ CaptureBoundary
  \/ \E limit \in Limits :
       \/ FirstPage(limit)
       \/ \E asked \in Requests : NextPage(asked, limit)

WSpec == WInit /\ [][WNext]_wvars

-----------------------------------------------------------------------------
(* Properties.                                                             *)

\* What the walk has read.
Walked == UNION {pages[i].rows : i \in DOMAIN pages}

\* The pages of a walk, one after the other, are the matching events that were
\* committed when the walk began, none skipped, in order and none twice, all of
\* them once there is no next page.  Transactions that were in progress then may
\* commit events at lower positions meanwhile and change nothing.
WalkReadsTheBoundary ==
  /\ Walked \subseteq expected
  /\ \A p \in Walked : \A q \in expected : Before(q, p, request.order) => q \in Walked
  /\ \A i, j \in DOMAIN pages : i < j =>
       \A p \in pages[i].rows : \A q \in pages[j].rows : Before(p, q, request.order)
  /\ phase = "done" => Walked = expected

\* A cursor is stable: whoever passes it again, at any later time, gets the page
\* it gave before.
CursorsRepeat ==
  \A i \in DOMAIN pages : PageShown(pages[i].cursor, pages[i].limit) = pages[i].rows

=============================================================================
