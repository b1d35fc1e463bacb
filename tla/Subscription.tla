----------------------------- MODULE Subscription ---------------------------
(***************************************************************************)
(* subscribe(): the catch-up loop of a subscriber and the LISTEN/NOTIFY    *)
(* waker it sleeps in, over a connection pool shared by the process.       *)
(*                                                                         *)
(* The log is what SafeWatermark shows consumers of it: positions in       *)
(* flight, visible positions, and a certificate that moves to the highest  *)
(* visible position only while nothing is in flight.  A commit notifies    *)
(* the connections that listen at that moment; a rollback notifies nobody. *)
(***************************************************************************)
EXTENDS Integers, Sequences, FiniteSets

CONSTANTS
  Subscribers,
  PoolSize,     \* connections in the pool; pool.connect waits for a free one
  BatchSize,
  MaxPosition,  \* bound: positions handed out
  MaxDrops,     \* bound: listen connections that fail
  MaxStops      \* bound: subscriptions that end and are resumed

ASSUME SubscriptionAssumption ==
  /\ IsFiniteSet(Subscribers)
  /\ PoolSize \in Nat /\ BatchSize \in Nat \ {0}
  /\ MaxPosition \in Nat /\ MaxDrops \in Nat /\ MaxStops \in Nat

VARIABLES
  (* The log. *)
  lastValue, inFlight, committed, certified,
  matching,    \* positions whose event passes the subscriptions' filter
  (* The pool and failures so far. *)
  free,        \* connections nobody has checked out
  drops, stops,
  (* subscribe() and pumpBatch(), per subscriber. *)
  step,        \* what it does next
  cursor,      \* events up to here are done with
  watermark,   \* the bound of the running pump
  batch,       \* rows read and not yielded yet
  caughtUp,    \* the batch was short
  aborted,     \* its AbortSignal
  delivered,   \* positions yielded, in order, over all its resumptions
  (* NotifyWaker, per subscriber. *)
  listening,   \* this.client is set
  pending      \* a notification arrived while nobody waited

logVars  == <<lastValue, inFlight, committed, certified, matching>>
poolVars == <<free, drops, stops>>
pumpVars == <<cursor, watermark, batch, caughtUp, delivered>>
wakerVars == <<listening, pending>>
vars == <<logVars, poolVars, step, pumpVars, aborted, wakerVars>>

Positions == 1..MaxPosition

TypeOK ==
  /\ lastValue \in 0..MaxPosition /\ certified \in 0..lastValue
  /\ inFlight \subseteq 1..lastValue /\ committed \subseteq 1..lastValue
  /\ matching \subseteq Positions
  /\ free \in Nat /\ drops \in Nat /\ stops \in Nat
  /\ step \in [Subscribers ->
       {"top", "connectPump", "certify", "read", "yield", "wait", "connectListen", "listen",
        "checkPending", "waiting", "sleep", "close", "done"}]
  /\ cursor \in [Subscribers -> Nat] /\ watermark \in [Subscribers -> Nat]
  /\ batch \in [Subscribers -> SUBSET Positions]
  /\ delivered \in [Subscribers -> Seq(Positions)]
  /\ caughtUp \in [Subscribers -> BOOLEAN] /\ aborted \in [Subscribers -> BOOLEAN]
  /\ listening \in [Subscribers -> BOOLEAN] /\ pending \in [Subscribers -> BOOLEAN]

Init ==
  /\ lastValue = 0 /\ inFlight = {} /\ committed = {} /\ certified = 0
  /\ matching \in SUBSET Positions
  /\ free = PoolSize /\ drops = 0 /\ stops = 0
  /\ step = [s \in Subscribers |-> "top"]
  /\ cursor = [s \in Subscribers |-> 0]
  /\ watermark = [s \in Subscribers |-> 0]
  /\ batch = [s \in Subscribers |-> {}]
  /\ caughtUp = [s \in Subscribers |-> FALSE]
  /\ aborted = [s \in Subscribers |-> FALSE]
  /\ delivered = [s \in Subscribers |-> <<>>]
  /\ listening = [s \in Subscribers |-> FALSE]
  /\ pending = [s \in Subscribers |-> FALSE]

Goto(s, next) == step' = [step EXCEPT ![s] = next]

-----------------------------------------------------------------------------
(* Writers, one transaction per position.                                  *)

InsertEvent ==
  /\ lastValue < MaxPosition
  /\ lastValue' = lastValue + 1
  /\ inFlight' = inFlight \cup {lastValue + 1}
  /\ UNCHANGED <<committed, certified, matching, poolVars, step, pumpVars, aborted, wakerVars>>

\* this.signal() at the subscribers S: a waiting one goes on, another remembers.
Signal(S) ==
  /\ step' = [s \in Subscribers |->
               IF s \in S /\ step[s] = "waiting" THEN "top" ELSE step[s]]
  /\ pending' = [s \in Subscribers |->
                  IF s \in S THEN step[s] # "waiting" ELSE pending[s]]

\* COMMIT delivers the transaction's pg_notify.
CommitEvent(p) ==
  /\ p \in inFlight
  /\ inFlight' = inFlight \ {p}
  /\ committed' = committed \cup {p}
  /\ Signal({s \in Subscribers : listening[s]})
  /\ UNCHANGED <<lastValue, certified, matching, poolVars, pumpVars, aborted, listening>>

RollbackEvent(p) ==
  /\ p \in inFlight
  /\ inFlight' = inFlight \ {p}
  /\ UNCHANGED <<lastValue, committed, certified, matching, poolVars, step,
                 pumpVars, aborted, wakerVars>>

-----------------------------------------------------------------------------
(* The loop of subscribe() and pumpBatch().                                *)

\* Mutant: the loop does not look at the signal.
LoopTop_IgnoresAbort(s) ==
  /\ step[s] = "top"
  /\ Goto(s, "connectPump")
  /\ UNCHANGED <<logVars, poolVars, pumpVars, aborted, wakerVars>>

\* while (!signal?.aborted)
LoopTop(s) ==
  /\ step[s] = "top"
  /\ Goto(s, IF aborted[s] THEN "close" ELSE "connectPump")
  /\ UNCHANGED <<logVars, poolVars, pumpVars, aborted, wakerVars>>

Connect(s, from, to) ==
  /\ step[s] = from
  /\ free > 0
  /\ free' = free - 1
  /\ Goto(s, to)
  /\ UNCHANGED <<logVars, drops, stops, pumpVars, aborted, wakerVars>>

ConnectPump(s) == Connect(s, "connectPump", "certify")

\* computeSafeWatermark returns w: the highest visible position if nothing is in
\* flight, and the last certified one otherwise.
IsCertificate(w) ==
  IF inFlight = {} THEN \A p \in committed \cup {certified} : p <= w ELSE w = certified

CertifyPump(s) ==
  /\ step[s] = "certify"
  /\ \E w \in committed \cup {certified} :
       /\ IsCertificate(w)
       /\ certified' = w
       /\ watermark' = [watermark EXCEPT ![s] = w]
       /\ IF w <= cursor[s]
          THEN /\ free' = free + 1
               /\ caughtUp' = [caughtUp EXCEPT ![s] = TRUE]
               /\ Goto(s, "wait")
          ELSE /\ Goto(s, "read")
               /\ UNCHANGED <<free, caughtUp>>
  /\ UNCHANGED <<lastValue, inFlight, committed, matching, drops, stops,
                 cursor, batch, delivered, aborted, wakerVars>>

\* Mutant: the read is not bounded by the certificate.
Readable_Unbounded(s) == {p \in committed \cap matching : p > cursor[s]}

\* global_position > cursor AND global_position <= watermark AND the filter.
Readable(s) == {p \in committed \cap matching : p > cursor[s] /\ p <= watermark[s]}

FirstOf(S) == {p \in S : Cardinality({q \in S : q <= p}) <= BatchSize}

ReadPump(s) ==
  LET rows == FirstOf(Readable(s)) IN
  /\ step[s] = "read"
  /\ free' = free + 1
  /\ batch' = [batch EXCEPT ![s] = rows]
  /\ caughtUp' = [caughtUp EXCEPT ![s] = Cardinality(rows) < BatchSize]
  /\ Goto(s, IF rows = {} THEN "wait" ELSE "yield")
  /\ UNCHANGED <<logVars, drops, stops, cursor, watermark, delivered, aborted, wakerVars>>

\* One row is yielded; the cursor follows the rows, never the certificate.  After
\* the last one the loop waits if the batch was short, and pumps again if not.
Yield(s) ==
  /\ step[s] = "yield"
  /\ \E p \in batch[s] :
       /\ \A q \in batch[s] : p <= q
       /\ delivered' = [delivered EXCEPT ![s] = Append(@, p)]
       /\ cursor' = [cursor EXCEPT ![s] = p]
       /\ batch' = [batch EXCEPT ![s] = @ \ {p}]
       /\ Goto(s, IF batch[s] # {p} THEN "yield" ELSE IF caughtUp[s] THEN "wait" ELSE "top")
  /\ UNCHANGED <<logVars, poolVars, watermark, caughtUp, aborted, wakerVars>>

-----------------------------------------------------------------------------
(* NotifyWaker.wait.                                                       *)

Wait(s) ==
  /\ step[s] = "wait"
  /\ Goto(s, CASE aborted[s] -> "top"
               [] ~aborted[s] /\ listening[s] -> "checkPending"
               [] ~aborted[s] /\ ~listening[s] -> "connectListen")
  /\ UNCHANGED <<logVars, poolVars, pumpVars, aborted, wakerVars>>

ConnectListen(s) == Connect(s, "connectListen", "listen")

\* LISTEN succeeds, and this.client is set.
Listen(s) ==
  /\ step[s] = "listen"
  /\ listening' = [listening EXCEPT ![s] = TRUE]
  /\ Goto(s, "checkPending")
  /\ UNCHANGED <<logVars, poolVars, pumpVars, aborted, pending>>

\* LISTEN fails: wait() falls back to a sleep.  Nobody releases the connection.
\* If it broke down, its "error" handler has run as well.
ListenFails(s) ==
  /\ step[s] = "listen"
  /\ drops < MaxDrops
  /\ drops' = drops + 1
  /\ Goto(s, "sleep")
  /\ \E broken \in BOOLEAN : pending' = [pending EXCEPT ![s] = @ \/ broken]
  /\ UNCHANGED <<logVars, free, stops, pumpVars, aborted, listening>>

\* The "error" handler: the client is forgotten, not released, and the waiter is
\* woken to poll.
ListenConnectionDrops(s) ==
  /\ listening[s]
  /\ drops < MaxDrops
  /\ drops' = drops + 1
  /\ listening' = [listening EXCEPT ![s] = FALSE]
  /\ Signal({s})
  /\ UNCHANGED <<logVars, free, stops, pumpVars, aborted>>

\* A pending notification returns at once; otherwise the promise is created.
CheckPending(s) ==
  /\ step[s] = "checkPending"
  /\ pending' = [pending EXCEPT ![s] = FALSE]
  /\ Goto(s, IF pending[s] THEN "top" ELSE "waiting")
  /\ UNCHANGED <<logVars, poolVars, pumpVars, aborted, listening>>

\* Mutant: the timer of wait() is missing.
TimerFires_SleepOnly(s) ==
  /\ step[s] = "sleep"
  /\ Goto(s, "top")
  /\ UNCHANGED <<logVars, poolVars, pumpVars, aborted, wakerVars>>

\* The poll interval is over, in wait() or in the fallback sleep.
TimerFires(s) ==
  /\ step[s] \in {"waiting", "sleep"}
  /\ Goto(s, "top")
  /\ pending' = [pending EXCEPT ![s] = IF step[s] = "waiting" THEN FALSE ELSE @]
  /\ UNCHANGED <<logVars, poolVars, pumpVars, aborted, listening>>

-----------------------------------------------------------------------------
(* The end of a subscription, and its resumption.                          *)

\* The consumer aborts.  Only the promise and the sleep listen to the signal: an
\* abort during ensureListening or a pump is noticed at the next check.
Abort(s) ==
  /\ step[s] \notin {"close", "done"}
  /\ ~aborted[s]
  /\ stops < MaxStops
  /\ stops' = stops + 1
  /\ aborted' = [aborted EXCEPT ![s] = TRUE]
  /\ step' = [step EXCEPT ![s] = IF @ \in {"waiting", "sleep"} THEN "top" ELSE @]
  /\ pending' = [pending EXCEPT ![s] = IF step[s] = "waiting" THEN FALSE ELSE @]
  /\ UNCHANGED <<logVars, free, drops, pumpVars, listening>>

\* The consumer breaks out of its loop at a yield, or a query of the pump throws:
\* either way the finally block closes the waker.
StopSubscription(s) ==
  /\ step[s] \in {"certify", "read", "yield"}
  /\ stops < MaxStops
  /\ stops' = stops + 1
  /\ free' = free + IF step[s] = "yield" THEN 0 ELSE 1
  /\ Goto(s, "close")
  /\ UNCHANGED <<logVars, drops, pumpVars, aborted, wakerVars>>

\* Mutant: close() does not give the listen connection back.
Close_KeepsConnection(s) ==
  /\ step[s] = "close"
  /\ listening' = [listening EXCEPT ![s] = FALSE]
  /\ Goto(s, "done")
  /\ UNCHANGED <<logVars, poolVars, pumpVars, aborted, pending>>

\* close(): UNLISTEN and release, if the client is still known.
Close(s) ==
  /\ step[s] = "close"
  /\ free' = free + IF listening[s] THEN 1 ELSE 0
  /\ listening' = [listening EXCEPT ![s] = FALSE]
  /\ Goto(s, "done")
  /\ UNCHANGED <<logVars, drops, stops, pumpVars, aborted, pending>>

\* The last position the consumer has handled.
LastDelivered(s) == IF delivered[s] = <<>> THEN 0 ELSE delivered[s][Len(delivered[s])]

\* The consumer subscribes again from there.
Resume(s) ==
  /\ step[s] = "done"
  /\ Goto(s, "top")
  /\ cursor' = [cursor EXCEPT ![s] = LastDelivered(s)]
  /\ watermark' = [watermark EXCEPT ![s] = 0]
  /\ batch' = [batch EXCEPT ![s] = {}]
  /\ caughtUp' = [caughtUp EXCEPT ![s] = FALSE]
  /\ aborted' = [aborted EXCEPT ![s] = FALSE]
  /\ pending' = [pending EXCEPT ![s] = FALSE]
  /\ UNCHANGED <<logVars, poolVars, delivered, listening>>

-----------------------------------------------------------------------------
PumpStep(s) == LoopTop(s) \/ ConnectPump(s) \/ CertifyPump(s) \/ ReadPump(s) \/ Yield(s)

WakerStep(s) ==
  Wait(s) \/ ConnectListen(s) \/ Listen(s) \/ CheckPending(s) \/ TimerFires(s)

Failure(s) ==
  ListenFails(s) \/ ListenConnectionDrops(s) \/ Abort(s) \/ StopSubscription(s)

SubscriberStep(s) == PumpStep(s) \/ WakerStep(s) \/ Close(s) \/ Resume(s)

Next ==
  \/ InsertEvent
  \/ \E p \in Positions : CommitEvent(p) \/ RollbackEvent(p)
  \/ \E s \in Subscribers : SubscriberStep(s) \/ Failure(s)

Spec == Init /\ [][Next]_vars

\* Queries return, timers fire, the consumer takes its events and resumes, and
\* transactions end; the pool serves its waiters in order.
FairSpec ==
  /\ Spec
  /\ \A s \in Subscribers : SF_vars(SubscriberStep(s))
  /\ \A p \in Positions : WF_vars(CommitEvent(p) \/ RollbackEvent(p))

-----------------------------------------------------------------------------
(* Properties.                                                             *)

OD(s) == INSTANCE OrderedDelivery WITH
  MaxPos <- MaxPosition, log <- committed, excused <- Positions \ matching,
  frontier <- LastDelivered(s), delivered <- delivered[s]

\* Every subscriber is yielded every matching event once and in order, across
\* late commits, dropped connections, aborts and resumption from its last event.
YieldsEachEventOnceInOrder ==
  /\ \A s \in Subscribers : OD(s)!Init
  /\ [][\A s \in Subscribers : [OD(s)!Next]_(OD(s)!vars)]_vars

\* A committed matching event is yielded in the end: no wake-up that is lost, or
\* never sent because the last open transaction rolled back, leaves it behind.
EventuallyYielded ==
  \A s \in Subscribers : \A p \in Positions :
    (p \in committed \cap matching) ~> (\E i \in DOMAIN delivered[s] : delivered[s][i] = p)

\* A subscription that is aborted ends.
AbortEnds == \A s \in Subscribers : aborted[s] ~> step[s] = "done"

\* Connections that are neither free nor in use by a subscriber are the ones of
\* failed listeners: nothing else is ever lost to the pool.
Listeners == {s \in Subscribers : listening[s]}
Querying  == {s \in Subscribers : step[s] \in {"certify", "read", "listen"}}
OnlyDropsLoseConnections ==
  free + Cardinality(Listeners) + Cardinality(Querying) + drops = PoolSize

\* create-notify-waker.ts says of drops that the listener is "transparently
\* re-established" and that polling is "guaranteeing eventual delivery".  The
\* dropped connections stay checked out, until the pool has none left to poll with.
DeliversDespiteDrops == EventuallyYielded
=============================================================================
