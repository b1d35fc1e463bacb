---------------------------- MODULE AppendStream ----------------------------
(***************************************************************************)
(* Appending to streams: EventStore.append, lockStream and withTransaction *)
(* over appendToStream, with optimistic concurrency and idempotency keys.  *)
(*                                                                         *)
(* A client runs transactions of one or more appends.  Every SQL statement *)
(* that reads or locks something another transaction may change is a step. *)
(* PostgreSQL runs them at READ COMMITTED: a statement sees the committed  *)
(* rows of that moment and its own transaction's.  A transaction may be    *)
(* rolled back between any two statements (an error, a lost connection, a  *)
(* crash), and a client may repeat any request, having lost the answer.    *)
(*                                                                         *)
(* The UNIQUE constraint on (stream_id, stream_version) is left out:       *)
(* GapFreeVersions shows that the code never relies on it.                 *)
(***************************************************************************)
EXTENDS Integers

CONSTANTS
  Clients,      \* connections running append transactions
  Streams,      \* stream ids
  Keys,         \* idempotency keys
  NoKey,        \* an append without idempotency key
  NoStream,     \* no call is running
  Bodies,       \* payloads: [events |-> how many, topics |-> outboxTopics given]
  NoBody,       \* what lockStream appends
  ExpectedVersions, \* the expectedVersion values callers pass
  Nobody,       \* an advisory lock that is not held
  MaxPosition,  \* bound: positions handed out by the BIGSERIAL
  MaxAppends    \* bound: appends and lockStream calls in one transaction

ASSUME AppendStreamAssumption ==
  /\ NoKey \notin Keys
  /\ NoStream \notin Streams
  /\ NoBody \notin Bodies
  /\ Nobody \notin Clients
  /\ \A b \in Bodies : b.events \in Nat \ {0} /\ b.topics \in BOOLEAN
  /\ ExpectedVersions \subseteq Nat \cup {-1}
  /\ MaxPosition \in Nat
  /\ MaxAppends \in Nat

VARIABLES
  (* Committed tables. *)
  rows,        \* events: [stream, version, pos, key, body]
  keys,        \* idempotency_keys: [key, stream, body, from, to]
  outbox,      \* outbox: event_global_pos of its rows
  lastValue,   \* the BIGSERIAL behind global_position; never rolled back
  (* Locks. *)
  streamLock,  \* streamLock[s]: holder of the stream's advisory lock
  (* Per client: its transaction, and the append it is executing. *)
  tx,          \* uncommitted rows, keys and outbox rows, and calls made so far
  pc,          \* the statement it runs next
  req,         \* AppendInput of the running append
  current,     \* stream version that validateVersion read
  result,      \* [from, to] of the append that returned last
  (* History. *)
  expired      \* positions whose idempotency record was cleaned up

tables == <<rows, keys, outbox, expired>>
vars == <<tables, lastValue, streamLock, tx, pc, req, current, result>>

Versions  == 0..MaxPosition
Positions == 1..MaxPosition

Requests ==
  [stream : Streams, key : Keys \cup {NoKey}, body : Bodies]

\* computeRequestHash covers the events and the topics and nothing else.
requestHash(r) == r.body

Rows == [stream : Streams, version : Positions, pos : Positions,
         key : Keys \cup {NoKey}, body : Bodies]

KeyRecords == [key : Keys, stream : Streams, body : Bodies,
               from : Positions, to : Positions]

EmptyTx == [rows |-> {}, keys |-> {}, outbox |-> {}, calls |-> 0]
OnlyLock(s) == [stream |-> s, key |-> NoKey, body |-> NoBody]
NoRequest == OnlyLock(NoStream)
NoResult == [from |-> 0, to |-> 0]

TypeOK ==
  /\ rows \subseteq Rows
  /\ keys \subseteq KeyRecords
  /\ outbox \subseteq Positions
  /\ expired \subseteq Positions
  /\ lastValue \in 0..MaxPosition
  /\ streamLock \in [Streams -> Clients \cup {Nobody}]
  /\ tx \in [Clients -> [rows : SUBSET Rows, keys : SUBSET KeyRecords,
                         outbox : SUBSET Positions, calls : 0..MaxAppends]]
  /\ pc \in [Clients -> {"idle", "open", "lockStream", "lock", "checkKey",
                         "validate", "insert", "recordKey", "failed", "aborted"}]
  /\ req \in [Clients -> Requests \cup {OnlyLock(s) : s \in Streams \cup {NoStream}}]
  /\ current \in [Clients -> Versions]
  /\ result \in [Clients -> [from : Versions, to : Versions]]

Init ==
  /\ rows = {} /\ keys = {} /\ outbox = {} /\ expired = {}
  /\ lastValue = 0
  /\ streamLock = [s \in Streams |-> Nobody]
  /\ tx = [c \in Clients |-> EmptyTx]
  /\ pc = [c \in Clients |-> "idle"]
  /\ req = [c \in Clients |-> NoRequest]
  /\ current = [c \in Clients |-> 0]
  /\ result = [c \in Clients |-> NoResult]

-----------------------------------------------------------------------------
(* What a statement of client c sees, and what it has to wait for.         *)

VisibleRows(c) == rows \cup tx[c].rows
VisibleKeys(c) == keys \cup tx[c].keys

\* v is COALESCE(MAX(stream_version), 0) over the rows R of stream s.
IsStreamVersion(v, s, R) ==
  /\ v = 0 \/ \E r \in R : r.stream = s /\ r.version = v
  /\ \A r \in R : r.stream = s => r.version <= v

\* An INSERT waits while another open transaction has inserted the same key.
KeyHolders(c) ==
  {d \in Clients \ {c} : \E k \in tx[d].keys : k.key = req[c].key}

WaitsFor(c, d) ==
  \/ /\ pc[c] \in {"lock", "lockStream"}
     /\ d = streamLock[req[c].stream]
     /\ d \notin {c, Nobody}
  \/ /\ pc[c] = "recordKey"
     /\ d \in KeyHolders(c)

\* The clients of S wait for each other in a cycle, or in several.
Deadlocked(S) ==
  /\ \A c \in S : \E d \in S : WaitsFor(c, d)
  /\ \A d \in S : \E c \in S : WaitsFor(c, d)

-----------------------------------------------------------------------------
(* Transactions.                                                           *)

\* Mutant: the stream lock is session-scoped and outlives the transaction.
EndTx_SessionLock(c) ==
  /\ tx' = [tx EXCEPT ![c] = EmptyTx]
  /\ pc' = [pc EXCEPT ![c] = "idle"]
  /\ req' = [req EXCEPT ![c] = NoRequest]
  /\ current' = [current EXCEPT ![c] = 0]
  /\ result' = [result EXCEPT ![c] = NoResult]
  /\ UNCHANGED streamLock

\* Ending a transaction drops its locks and everything the client held of it.
EndTx(c) ==
  /\ streamLock' = [s \in Streams |-> IF streamLock[s] = c THEN Nobody ELSE streamLock[s]]
  /\ tx' = [tx EXCEPT ![c] = EmptyTx]
  /\ pc' = [pc EXCEPT ![c] = "idle"]
  /\ req' = [req EXCEPT ![c] = NoRequest]
  /\ current' = [current EXCEPT ![c] = 0]
  /\ result' = [result EXCEPT ![c] = NoResult]

\* COMMIT: everything at once.  Whether the client hears of it changes nothing
\* here, since any client may send any request again.
Commit(c) ==
  /\ pc[c] = "open"
  /\ rows' = rows \cup tx[c].rows
  /\ keys' = keys \cup tx[c].keys
  /\ outbox' = outbox \cup tx[c].outbox
  /\ EndTx(c)
  /\ UNCHANGED <<expired, lastValue>>

\* ROLLBACK of inTransaction when the append threw, or because the connection
\* is lost at any point.
Rollback(c) ==
  /\ pc[c] # "idle"
  /\ EndTx(c)
  /\ UNCHANGED <<tables, lastValue>>

\* The running call throws.
Fail(c, step) ==
  /\ pc' = [pc EXCEPT ![c] = step]
  /\ req' = [req EXCEPT ![c] = NoRequest]
  /\ result' = [result EXCEPT ![c] = NoResult]

\* An error thrown by the code itself leaves the transaction usable: a caller
\* of withTransaction may catch it and go on.  After an SQL error it may not.
CatchError(c) ==
  /\ pc[c] = "failed"
  /\ pc' = [pc EXCEPT ![c] = "open"]
  /\ UNCHANGED <<tables, lastValue, streamLock, tx, req, current, result>>

\* PostgreSQL's deadlock detector fails the statement of one waiter of a cycle.
DeadlockDetected(c) ==
  /\ \E S \in SUBSET Clients : c \in S /\ Deadlocked(S)
  /\ Fail(c, "aborted")
  /\ UNCHANGED <<tables, lastValue, streamLock, tx, current>>

-----------------------------------------------------------------------------
(* lockStream and appendToStream, statement by statement.                  *)

\* The first call of a transaction comes right after its BEGIN.
Call(c, r, step) ==
  /\ pc[c] \in {"idle", "open"}
  /\ tx[c].calls < MaxAppends
  /\ tx' = [tx EXCEPT ![c].calls = @ + 1]
  /\ req' = [req EXCEPT ![c] = r]
  /\ pc' = [pc EXCEPT ![c] = step]
  /\ result' = [result EXCEPT ![c] = NoResult]
  /\ current' = [current EXCEPT ![c] = 0]
  /\ UNCHANGED <<tables, lastValue, streamLock>>

StartAppend(c) == \E r \in Requests : Call(c, r, "lock")
StartLockStream(c) == \E s \in Streams : Call(c, OnlyLock(s), "lockStream")

\* Mutant: a try-lock whose answer nobody looks at.
AcquireStreamLock_NoWait(c) ==
  /\ pc[c] \in {"lock", "lockStream"}
  /\ streamLock' = [streamLock EXCEPT ![req[c].stream] = IF @ = Nobody THEN c ELSE @]
  /\ pc' = [pc EXCEPT ![c] = IF @ = "lock" THEN "checkKey" ELSE "open"]
  /\ req' = [req EXCEPT ![c] = IF pc[c] = "lock" THEN @ ELSE NoRequest]
  /\ UNCHANGED <<tables, lastValue, tx, current, result>>

\* pg_advisory_xact_lock on the stream: waits for another transaction that
\* holds it, and is granted again to the one that already does.
AcquireStreamLock(c) ==
  /\ pc[c] \in {"lock", "lockStream"}
  /\ streamLock[req[c].stream] \in {Nobody, c}
  /\ streamLock' = [streamLock EXCEPT ![req[c].stream] = c]
  /\ pc' = [pc EXCEPT ![c] = IF @ = "lock" THEN "checkKey" ELSE "open"]
  /\ req' = [req EXCEPT ![c] = IF pc[c] = "lock" THEN @ ELSE NoRequest]
  /\ UNCHANGED <<tables, lastValue, tx, current, result>>

\* Mutant: the payload hash is not compared.
Conflicts_StreamOnly(k, r) == k.stream # r.stream

\* The record conflicts with the request: another stream or another payload.
Conflicts(k, r) == k.stream # r.stream \/ k.body # requestHash(r)

\* checkIdempotencyKey: a known key answers with the recorded result, before
\* and instead of the version check.
CheckIdempotencyKey(c) ==
  /\ pc[c] = "checkKey"
  /\ \/ /\ \A k \in VisibleKeys(c) : k.key # req[c].key
        /\ pc' = [pc EXCEPT ![c] = "validate"]
        /\ UNCHANGED <<req, result>>
     \/ \E k \in VisibleKeys(c) :
          /\ k.key = req[c].key
          /\ IF Conflicts(k, req[c])
             THEN Fail(c, "failed")
             ELSE /\ pc' = [pc EXCEPT ![c] = "open"]
                  /\ result' = [result EXCEPT ![c] = [from |-> k.from, to |-> k.to]]
                  /\ UNCHANGED req
  /\ UNCHANGED <<tables, lastValue, streamLock, tx, current>>

\* -1 expects a new stream, 0 checks nothing, n expects exactly version n.  The
\* caller's expectedVersion is chosen here, where alone it is looked at.
VersionMatches(expected, v) ==
  (expected = -1 => v = 0) /\ (expected > 0 => v = expected)

ValidateVersion(c) ==
  /\ pc[c] = "validate"
  /\ \E v \in Versions, expected \in ExpectedVersions :
       /\ IsStreamVersion(v, req[c].stream, VisibleRows(c))
       /\ IF VersionMatches(expected, v)
          THEN /\ pc' = [pc EXCEPT ![c] = "insert"]
               /\ current' = [current EXCEPT ![c] = v]
               /\ UNCHANGED <<req, result>>
          ELSE /\ Fail(c, "failed")
               /\ UNCHANGED current
  /\ UNCHANGED <<tables, lastValue, streamLock, tx>>

\* Mutant: the rows of a chunk are inserted in an order the statement does not fix.
NewRows_Unordered(c) ==
  {[stream |-> req[c].stream, version |-> current[c] + i,
    pos |-> lastValue + req[c].body.events + 1 - i,
    key |-> req[c].key, body |-> req[c].body] : i \in 1..req[c].body.events}

\* The rows of the running append: consecutive versions, ascending positions.
NewRows(c) ==
  {[stream |-> req[c].stream, version |-> current[c] + i, pos |-> lastValue + i,
    key |-> req[c].key, body |-> req[c].body] : i \in 1..req[c].body.events}

\* buildOutboxRows: one row per event, when the append names topics.
OutboxRows(c) == {r.pos : r \in {x \in NewRows(c) : x.body.topics}}

AppendedRange(c) ==
  [from |-> current[c] + 1, to |-> current[c] + req[c].body.events]

SequenceExhausted(c) == lastValue + req[c].body.events > MaxPosition

\* Mutant: the outbox rows are written on another connection than the events.
InsertEvents_OutboxOnPool(c) ==
  /\ pc[c] = "insert"
  /\ IF SequenceExhausted(c)
     THEN /\ Fail(c, "aborted")
          /\ UNCHANGED <<lastValue, tx, outbox>>
     ELSE /\ lastValue' = lastValue + req[c].body.events
          /\ tx' = [tx EXCEPT ![c].rows = @ \cup NewRows(c)]
          /\ outbox' = outbox \cup OutboxRows(c)
          /\ result' = [result EXCEPT ![c] = AppendedRange(c)]
          /\ pc' = [pc EXCEPT ![c] = IF req[c].key = NoKey THEN "open" ELSE "recordKey"]
          /\ UNCHANGED req
  /\ UNCHANGED <<rows, keys, expired, streamLock, current>>

\* insertEventChunks and writeOutbox: both only touch the open transaction.
\* nextval fails once the sequence has reached its maximum.
InsertEvents(c) ==
  /\ pc[c] = "insert"
  /\ IF SequenceExhausted(c)
     THEN /\ Fail(c, "aborted")
          /\ UNCHANGED <<lastValue, tx>>
     ELSE /\ lastValue' = lastValue + req[c].body.events
          /\ tx' = [tx EXCEPT ![c].rows = @ \cup NewRows(c),
                              ![c].outbox = @ \cup OutboxRows(c)]
          /\ result' = [result EXCEPT ![c] = AppendedRange(c)]
          /\ pc' = [pc EXCEPT ![c] = IF req[c].key = NoKey THEN "open" ELSE "recordKey"]
          /\ UNCHANGED req
  /\ UNCHANGED <<tables, streamLock, current>>

NewKey(c) == [key |-> req[c].key, stream |-> req[c].stream, body |-> req[c].body,
              from |-> result[c].from, to |-> result[c].to]

\* Mutant: INSERT ... ON CONFLICT DO NOTHING instead of the 23505 error.
RecordIdempotencyKey_DoNothing(c) ==
  /\ pc[c] = "recordKey"
  /\ KeyHolders(c) = {}
  /\ pc' = [pc EXCEPT ![c] = "open"]
  /\ IF \E k \in VisibleKeys(c) : k.key = req[c].key
     THEN UNCHANGED tx
     ELSE tx' = [tx EXCEPT ![c].keys = @ \cup {NewKey(c)}]
  /\ UNCHANGED <<tables, lastValue, streamLock, req, current, result>>

\* recordIdempotencyKey: the primary key makes a concurrent use of the key wait,
\* and fails it with 23505 when the other transaction has committed.
RecordIdempotencyKey(c) ==
  /\ pc[c] = "recordKey"
  /\ KeyHolders(c) = {}
  /\ IF \E k \in VisibleKeys(c) : k.key = req[c].key
     THEN /\ Fail(c, "aborted")
          /\ UNCHANGED tx
     ELSE /\ pc' = [pc EXCEPT ![c] = "open"]
          /\ tx' = [tx EXCEPT ![c].keys = @ \cup {NewKey(c)}]
          /\ UNCHANGED <<req, result>>
  /\ UNCHANGED <<tables, lastValue, streamLock, current>>

\* cleanupIdempotencyKeys, one expired record: a DELETE of its own transaction.
CleanupIdempotencyKeys ==
  \E k \in keys :
    /\ keys' = keys \ {k}
    /\ expired' = expired \cup {r.pos : r \in {x \in rows : x.key = k.key}}
    /\ UNCHANGED <<rows, outbox, lastValue, streamLock, tx, pc, req, current, result>>

-----------------------------------------------------------------------------
AppendStep(c) ==
  \/ AcquireStreamLock(c)
  \/ CheckIdempotencyKey(c)
  \/ ValidateVersion(c)
  \/ InsertEvents(c)
  \/ RecordIdempotencyKey(c)

Next ==
  \/ \E c \in Clients :
       \/ StartAppend(c)
       \/ StartLockStream(c)
       \/ AppendStep(c)
       \/ Commit(c)
       \/ Rollback(c)
       \/ CatchError(c)
       \/ DeadlockDetected(c)
  \/ CleanupIdempotencyKeys

Spec == Init /\ [][Next]_vars

\* Statements return, and a caller that has nothing left to append ends its
\* transaction one way or the other.
RunsOn(c) ==
  \/ CheckIdempotencyKey(c) \/ ValidateVersion(c) \/ InsertEvents(c)
  \/ Commit(c)
  \/ pc[c] \in {"failed", "aborted"} /\ Rollback(c)

\* PostgreSQL grants a lock to its waiters in turn, so a lock that keeps becoming
\* free is obtained: strong fairness.
Fairness ==
  \A c \in Clients :
    /\ WF_vars(RunsOn(c))
    /\ SF_vars(AcquireStreamLock(c) \/ RecordIdempotencyKey(c))
    /\ WF_vars(DeadlockDetected(c))

FairSpec == Spec /\ Fairness

-----------------------------------------------------------------------------
(* Properties.                                                             *)

\* The committed events of a stream have the versions 1, 2, ... n, each once,
\* whatever appends raced, were rolled back or were repeated.
GapFreeVersions ==
  /\ \A q, r \in rows : (q.stream = r.stream /\ q.version = r.version) => q = r
  /\ \A r \in rows : \A v \in 1..r.version :
       \E q \in rows : q.stream = r.stream /\ q.version = v

\* A reader that follows the global positions meets the events of each stream in
\* the order of their versions.
StreamFollowsLog ==
  \A q, r \in rows :
    (q.stream = r.stream /\ q.version < r.version) => q.pos < r.pos

\* From the version check until the insert that relies on it, nobody else has put
\* a row on the stream, committed or not.
ValidatedVersionHolds ==
  \A c \in Clients : pc[c] = "insert" =>
    \A d \in Clients : \A r \in rows \cup tx[d].rows :
      r.stream = req[c].stream => r.version <= current[c]

\* An idempotency key appends once: the rows written under it, while its record
\* is retained, are the ones the record names, and without a record there are
\* none.  It holds across retries, rollbacks and use on two streams at once.
AppendedOncePerKey ==
  \A k \in Keys :
    LET live == {r \in rows : r.key = k /\ r.pos \notin expired}
        recs == {x \in keys : x.key = k}
    IN  IF recs = {}
        THEN live = {}
        ELSE \E rec \in recs :
               /\ recs = {rec}
               /\ live = {r \in rows : /\ r.stream = rec.stream
                                       /\ r.version \in rec.from .. rec.to}
               /\ rec.to - rec.from + 1 = rec.body.events

\* The range that c was answered with has as many events as it asked for, and they
\* are there, with its key and its payload.
TrueAnswer(c) ==
  /\ result[c].to - result[c].from + 1 = req[c].body.events
  /\ \A v \in result[c].from .. result[c].to :
       \E r \in VisibleRows(c) :
         /\ r.stream = req[c].stream /\ r.version = v
         /\ r.key = req[c].key /\ r.body = req[c].body

\* What append returns, first answer or duplicate, is a range of events with the
\* requested payload that is there to read in the same transaction.
AnswerIsTrue ==
  \A c \in Clients : (pc[c] = "open" /\ result[c] # NoResult) => TrueAnswer(c)

\* The outbox announces exactly the committed events that were given topics.
OutboxMatchesEvents == outbox = {r.pos : r \in {x \in rows : x.body.topics}}

EL == INSTANCE EventLog WITH log <- rows, remembered <- keys, announced <- outbox

\* The transactions of all clients, statement by statement, have the effect of
\* atomic ones: each appends at the versions its streams have when it commits, its
\* keys once, and its outbox rows with its events.
AppendsAtomically == EL!Spec

\* Every transaction ends, although transactions take stream locks and
\* idempotency keys in any order and run into deadlocks.
TransactionsEnd == \A c \in Clients : pc[c] # "idle" ~> pc[c] = "idle"
=============================================================================
