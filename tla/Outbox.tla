-------------------------------- MODULE Outbox ------------------------------
(***************************************************************************)
(* The transactional outbox: relay workers on every replica take disjoint  *)
(* batches of pending rows with FOR UPDATE SKIP LOCKED, hand them to the   *)
(* user's handler, mark them processed and commit; old processed rows are  *)
(* deleted.  The handler publishes to a broker, which no rollback undoes.  *)
(***************************************************************************)
EXTENDS Integers, FiniteSets

CONSTANTS
  Workers,     \* relay workers, each with its own connection
  Nobody,      \* a row that is not locked
  MaxId,       \* bound: outbox ids handed out
  Limit,       \* entries per batch
  MaxFailures  \* bound: failed or crashed batches

ASSUME OutboxAssumption ==
  /\ Nobody \notin Workers
  /\ IsFiniteSet(Workers)
  /\ MaxId \in Nat /\ Limit \in Nat \ {0} /\ MaxFailures \in Nat

VARIABLES
  (* The outbox table. *)
  lastId,      \* last id handed out by its BIGSERIAL
  inserting,   \* ids of rows whose append has not committed yet
  unprocessed, \* visible rows with processed_at IS NULL
  processed,   \* visible rows with processed_at set
  deleted,     \* ids cleanupOutbox has removed
  rowLock,     \* rowLock[i]: worker whose transaction has locked row i
  (* Each worker's run of processOutbox. *)
  pc,
  entries,     \* what its pollOutbox returned
  todo,        \* entries the handler has not published yet
  lost,        \* workers whose connection died while the handler runs on
  (* The broker, and history. *)
  published,   \* published[i]: how often entry i was published
  failures,    \* failed runs so far
  failedWith   \* failedWith[i]: failed runs whose batch contained entry i

table == <<lastId, inserting, unprocessed, processed, deleted>>
workerVars == <<pc, entries, todo, lost>>
history == <<failures, failedWith>>
ovars == <<table, rowLock, workerVars, published, history>>

Ids == 1..MaxId

OTypeOK ==
  /\ lastId \in 0..MaxId
  /\ inserting \subseteq Ids /\ unprocessed \subseteq Ids
  /\ processed \subseteq Ids /\ deleted \subseteq Ids
  /\ rowLock \in [Ids -> Workers \cup {Nobody}]
  /\ pc \in [Workers -> {"idle", "handle", "mark", "commit"}]
  /\ entries \in [Workers -> SUBSET Ids]
  /\ todo \in [Workers -> SUBSET Ids]
  /\ lost \subseteq Workers
  /\ published \in [Ids -> 0 .. 1 + MaxFailures]
  /\ failures \in 0..MaxFailures
  /\ failedWith \in [Ids -> 0..MaxFailures]

OInit ==
  /\ lastId = 0
  /\ inserting = {} /\ unprocessed = {} /\ processed = {} /\ deleted = {}
  /\ rowLock = [i \in Ids |-> Nobody]
  /\ pc = [w \in Workers |-> "idle"]
  /\ entries = [w \in Workers |-> {}]
  /\ todo = [w \in Workers |-> {}]
  /\ lost = {}
  /\ published = [i \in Ids |-> 0]
  /\ failures = 0
  /\ failedWith = [i \in Ids |-> 0]

-----------------------------------------------------------------------------
(* Appends with outboxTopics: their rows become visible in any order.      *)

InsertOutboxRow ==
  /\ lastId < MaxId
  /\ lastId' = lastId + 1
  /\ inserting' = inserting \cup {lastId + 1}
  /\ UNCHANGED <<unprocessed, processed, deleted, rowLock, workerVars, published, history>>

CommitAppend(i) ==
  /\ i \in inserting
  /\ inserting' = inserting \ {i}
  /\ unprocessed' = unprocessed \cup {i}
  /\ UNCHANGED <<lastId, processed, deleted, rowLock, workerVars, published, history>>

RollbackAppend(i) ==
  /\ i \in inserting
  /\ inserting' = inserting \ {i}
  /\ UNCHANGED <<lastId, unprocessed, processed, deleted, rowLock, workerVars,
                 published, history>>

-----------------------------------------------------------------------------
(* processOutbox.                                                          *)

\* Mutant: a plain SELECT, without FOR UPDATE SKIP LOCKED.
Available_NoLock == unprocessed

\* Rows the poll may return: pending, and not locked by another relay.
Available == {i \in unprocessed : rowLock[i] = Nobody}

\* ORDER BY id LIMIT.
Oldest(S) == {i \in S : Cardinality({j \in S : j <= i}) <= Limit}

\* BEGIN; an empty pollOutbox; COMMIT and return 0.
PollEmpty(w) ==
  /\ pc[w] = "idle"
  /\ Available = {}
  /\ UNCHANGED ovars

\* BEGIN; pollOutbox.
PollOutbox(w) ==
  /\ pc[w] = "idle"
  /\ Available # {}
  /\ entries' = [entries EXCEPT ![w] = Oldest(Available)]
  /\ todo' = [todo EXCEPT ![w] = Oldest(Available)]
  /\ rowLock' = [i \in Ids |-> IF i \in Oldest(Available) THEN w ELSE rowLock[i]]
  /\ pc' = [pc EXCEPT ![w] = "handle"]
  /\ UNCHANGED <<table, lost, published, history>>

\* The handler publishes its entries in id order, one broker call each.
Publish(w) ==
  /\ pc[w] = "handle"
  /\ \E i \in todo[w] :
       /\ \A j \in todo[w] : i <= j
       /\ published' = [published EXCEPT ![i] = @ + 1]
       /\ todo' = [todo EXCEPT ![w] = @ \ {i}]
       /\ pc' = [pc EXCEPT ![w] = IF todo[w] = {i} THEN "mark" ELSE "handle"]
  /\ UNCHANGED <<table, rowLock, entries, lost, history>>

\* markOutboxProcessed: still uncommitted.
MarkOutboxProcessed(w) ==
  /\ pc[w] = "mark"
  /\ w \notin lost
  /\ pc' = [pc EXCEPT ![w] = "commit"]
  /\ UNCHANGED <<table, rowLock, entries, todo, lost, published, history>>

\* Mutant: the locks are not dropped because the transaction never ends.
EndRun_LeakedTransaction(w) ==
  /\ pc' = [pc EXCEPT ![w] = "idle"]
  /\ entries' = [entries EXCEPT ![w] = {}]
  /\ todo' = [todo EXCEPT ![w] = {}]
  /\ lost' = lost \ {w}
  /\ UNCHANGED rowLock

EndRun(w) ==
  /\ rowLock' = [i \in Ids |-> IF rowLock[i] = w THEN Nobody ELSE rowLock[i]]
  /\ pc' = [pc EXCEPT ![w] = "idle"]
  /\ entries' = [entries EXCEPT ![w] = {}]
  /\ todo' = [todo EXCEPT ![w] = {}]
  /\ lost' = lost \ {w}

CommitBatch(w) ==
  /\ pc[w] = "commit"
  /\ w \notin lost
  /\ unprocessed' = unprocessed \ entries[w]
  /\ processed' = processed \cup entries[w]
  /\ EndRun(w)
  /\ UNCHANGED <<lastId, inserting, deleted, published, history>>

\* One more failed run of worker w.
CountFailure(w) ==
  /\ w \notin lost
  /\ failures < MaxFailures
  /\ failures' = failures + 1
  /\ failedWith' = [i \in Ids |-> failedWith[i] + IF i \in entries[w] THEN 1 ELSE 0]

\* Mutant: the catch block commits what it has.
FailBatch_MarkAnyway(w) ==
  /\ pc[w] # "idle"
  /\ CountFailure(w)
  /\ unprocessed' = unprocessed \ entries[w]
  /\ processed' = processed \cup entries[w]
  /\ EndRun(w)
  /\ UNCHANGED <<lastId, inserting, deleted, published>>

\* The handler or a query throws, or the worker dies: ROLLBACK.  What was
\* published stays published.
FailBatch(w) ==
  /\ pc[w] # "idle"
  /\ CountFailure(w)
  /\ EndRun(w)
  /\ UNCHANGED <<table, published>>

\* The connection dies and PostgreSQL rolls back at once, but the handler knows
\* nothing of it and goes on publishing entries that others may take by now.
LoseConnection(w) ==
  /\ pc[w] # "idle"
  /\ CountFailure(w)
  /\ rowLock' = [i \in Ids |-> IF rowLock[i] = w THEN Nobody ELSE rowLock[i]]
  /\ lost' = lost \cup {w}
  /\ UNCHANGED <<table, pc, entries, todo, published>>

\* The next query on the dead connection throws.
NoticeLoss(w) ==
  /\ w \in lost
  /\ pc[w] \in {"mark", "commit"}
  /\ EndRun(w)
  /\ UNCHANGED <<table, published, history>>

\* cleanupOutbox: a batch of rows that have been processed long enough.
CleanupOutbox ==
  \E S \in (SUBSET processed) \ {{}} :
    /\ processed' = processed \ S
    /\ deleted' = deleted \cup S
    /\ UNCHANGED <<lastId, inserting, unprocessed, rowLock, workerVars, published, history>>

-----------------------------------------------------------------------------
RelayStep(w) ==
  PollOutbox(w) \/ Publish(w) \/ MarkOutboxProcessed(w) \/ CommitBatch(w) \/ NoticeLoss(w)

ONext ==
  \/ InsertOutboxRow
  \/ \E i \in Ids : CommitAppend(i) \/ RollbackAppend(i)
  \/ \E w \in Workers : PollEmpty(w) \/ RelayStep(w) \/ FailBatch(w) \/ LoseConnection(w)
  \/ CleanupOutbox

OSpec == OInit /\ [][ONext]_ovars

\* A supervisor calls processOutbox in a loop and the handler returns; appends
\* end.  Failures are bounded, so eventually a run is not cut off.
OFairSpec ==
  /\ OSpec
  /\ \A w \in Workers : WF_ovars(RelayStep(w))
  /\ \A i \in Ids : WF_ovars(CommitAppend(i) \/ RollbackAppend(i))

-----------------------------------------------------------------------------
(* Properties.                                                             *)

\* No entry is lost: what is marked processed, or deleted afterwards, has been
\* published, whatever failed in between.
ProcessedWasPublished == \A i \in processed \cup deleted : published[i] > 0

\* However many workers poll, an entry is published again only after a run that
\* contained it has failed: at least once, and once as long as nothing fails.
RepeatedOnlyAfterFailure == \A i \in Ids : published[i] <= 1 + failedWith[i]

\* Every committed entry is published and marked in the end, although a lower id
\* may become visible after higher ones were processed.
EveryEntryProcessed ==
  \A i \in Ids : (i \in unprocessed) ~> (i \in processed \cup deleted)
=============================================================================
