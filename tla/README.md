# A verification model of alvyn

alvyn is a TypeScript library for event sourcing on PostgreSQL. It has no server of its own: any
number of application processes call it, and everything they share is a PostgreSQL schema. What
can go wrong lies between two SQL statements, where another process acts, commits, crashes or
revokes a key. The modules here describe the library at that granularity. Each SQL statement (and
each step of in-process state that a callback can get between) is an action; TLC checks the modules
on small instances, and TLAPS proves the safety of the seven core ones for all instances. Two load
tests that come with the library, programs of several processes themselves, are modelled as well.

Paths below are relative to `src/src/` of the repository, those of the load tests to `src/`.

## 1. The system

| Part | State | Operations | What makes it correct |
|---|---|---|---|
| Watermark (`stream/compute-safe-watermark.ts`, fence trigger in `schema/run-migrations.ts`) | advisory locks, the sequence `projection_safe_watermark` | `computeSafeWatermark`; the trigger on every insert | no event can still appear at or below a certified position |
| Streams (`stream/append-to-stream.ts`, `stream/idempotency.ts`) | `events`, `idempotency_keys`, stream locks | `append`, `lockStream`, `withTransaction`, `cleanupIdempotencyKeys` | gap-free versions, one append per key, truthful answers |
| Outbox (`outbox/`, `stream/outbox-insert.ts`) | `outbox`, row locks | `processOutbox`, `cleanupOutbox` | nothing lost, repetition only after a failure |
| Projections (`projection/`) | `projections` (checkpoints), the user's read model | `runProjection` | every event handled exactly once and in order |
| Subscriptions (`subscription/`) | cursor in process, one LISTEN connection each | `subscribe`, wait, close | every event yielded once and in order, eventually |
| Entity keys (`crypto/`) | `crypto_keys`, configured secrets | `createKey`, lock and rewrap on append, `revokeKey`, `getKey` | a revoked key protects for ever, any other stays usable |
| Paged reads (`stream/read-events-page.ts`) | none; the cursor carries it | `readEventsPage` | a walk sees one state of the log |
| Snapshots (`snapshot/`) | events of the stream itself | maintenance on append, `load` | the same state as a full replay |
| Stream reads (`stream/stream-reader.ts`, `stream/event-row-processor.ts`) | a key cache per load | `load`, `loadFrom`, latest event of a type | uniform decryption |
| Upcasters (`upcaster/`) | a registry per process | `register`, `upcast` | no version skipped, none returned in between |
| Migrations (`schema/`, `setup` in `event-store.ts`) | `schema_version`, the schema's objects, the shared promise of `setup` | `setup`, `migrateEventStore`, verify | applied once, verified, retried after a failure |
| Transactions (`pg-helpers.ts`) | connections of a pool | `withClient`, `inTransaction`, `retryOnConcurrencyError` | everything ends, nothing leaks |
| Load test (`load-tests/execute-load-test.ts`, `worker.ts`, `runner.ts`) | a container, a pool, forked workers, promises and timers | `run`, the worker's operations, verification, cleanup | a passing report is true, a cleanup that ends leaves nothing behind |
| HTTP load test (`load-tests/execute-http-load-test.ts`, `http-server-worker.ts`) | server replicas, lanes of requests, counters | seed, start, benchmark, traffic, verification | each operation recorded once, each deposit stored once |

They interact through the database. An append locks its stream, checks its key and version, locks
entity keys, inserts events (through the trigger, under the shared fence) and outbox rows, records
its idempotency key, maintains snapshots and notifies, all in one transaction. Projections and
subscriptions certify a position first and then read up to it. Readers of encrypted rows look the
keys up in further statements. The load tests use the library through several processes: the first
forks workers that append to its streams and report by messages, the second sends HTTP requests to
replicas that serve an aggregate, and both count what was acknowledged and compare it with the store.

The hard behaviour is therefore: positions that become visible out of order; state read in one
statement and relied on in the next; crashes and lost connections between effects outside the
database and the commit; repeated requests; lost or early notifications; lock cycles;
revocations in the middle of anything; and, in the load tests, a child that exits, hangs or answers
at the moment a deadline passes. `PROJECT.json` lists each hazard at the line where it bites
with the properties that watch it.

## 2. The modules

`SafeWatermark` - writers and `computeSafeWatermark`. `pending`, `committed` and `lastValue` are
the events table and its BIGSERIAL; `fenceShared`, `fenceExclusive` and `readerLock` the advisory
locks; `certified` the non-transactional sequence. `LockReader`, `TryFence`, `ReadCached`,
`ReadMax`, `SetVal`, `ReturnSafePosition` are the queries in their order, `FailFence` the catch
block at any of them. A writer takes `LockEventPositions` (the trigger) before it reserves
positions one by one, so that rows of concurrent statements mix.

`AppendStream` - transactions of several calls. `tx` is what a client has written and not
committed, `pc` the next statement of the call that runs. `Rollback` may come between any two
statements, and any client may send any request at any time, which covers retries after a lost
answer, `retryOnConcurrencyError`, and a repetition while the first attempt still runs. Errors that
the code throws leave the transaction usable (`CatchError`), SQL errors do not (`aborted`).
`expired` is history. `MCAppendStream` holds the small instance.

`EventLog` - the abstract specification of appending: a log to which a transaction adds all its
events at once (`Transact`), after the last events of their streams at that moment, with the records
of keys that are not remembered and with its announcements; records may be forgotten (`Forget`).
`AppendStream` implements it with `log <- rows`, `remembered <- keys`, `announced <- outbox`.

`OrderedDelivery` - the abstract specification of a consumer: a log that fills out of order, a
frontier, and a delivery that hands out the events up to the frontier, each once and in order,
except those that are excused. `Projection` and `Subscription` implement it.

`Projection` - extends `SafeWatermark`: `Certify` runs one query of a certification, then
`EnsureCheckpoint`, `ReadBatch`, `HandleRow` and `CommitRun` are the statements of the run's own
transaction. Handlers write with the transaction's client, so `readModel` and `checkpoint` change in
one commit. The refinement maps `frontier <- checkpoint` and `delivered <- readModel`.

`Outbox` - relay workers. The handler (`Publish`, external) sends to a broker, which no rollback
reaches; `LoseConnection` lets PostgreSQL roll back while the handler runs on.

`Subscription` - the pump and the waker with a connection pool. `listening` and `pending` are the
waker's fields; `free` counts pool connections. `ListenFails` and `ListenConnectionDrops` leave their
connection checked out, as the code does. `Resume` is a new subscription from the last event the
consumer handled, which `lowerBound` is for.

`CryptoKeys` - key rows with their locks, appends that encrypt, revocations, loads, and the phases of
a secret rotation as `website/content/docs/crypto-shredding.mdx` lays it out (`Deploy`, external:
the operator moves one process at a time and drops a secret only when no envelope needs it).

`ReadPages` - one walk and the transactions around it. A boundary is the watermark and the MVCC
snapshot, modelled as PostgreSQL defines it (`xmax` and the ids in progress). `PageRows` has both
limits of the query, the one per stream and the one over all. A page is the set of its rows, which
`ORDER BY` lists in one way only; `FirstRows` takes the rows with fewer than `LIMIT` before them.

`Snapshots` - one stream, maintenance inside an append and a load beside it. A state is the
sequence of versions that were folded into it, so that any event skipped or folded twice differs;
a replay appends the versions it read to the state it starts from, in ascending order.

`Upcasters` - the registry of one event type as a sequence: what `register` accepts, where it puts
it, and the one pass of `upcast` along it. An event is its schema version.

`Deployment` - extends `Upcasters`: replicas that set up over one database. A migration is one
transaction of several statements under the advisory lock, a verification is statements without
one; `objects` and `version` are committed, `created` is what an open transaction has created.
`setupPromise` and `initialized` are the fields of `EventStore`, `caller` those who wait for the
promise. Any statement may fail, the answer of a commit may be lost, a process may crash. It starts
from a fresh schema, a migrated one, a newer one, one without versions and one whose fence is off.

`LoadRun` - the first load test. The coordinator is an event loop, and `React` is what runs between
two events: it settles promises and lets everything that awaits them continue until it awaits
again. Events are messages, exits, timers and answers of the database. `pc` names what the
coordinator awaits, `ready` and `completed` are the promises per worker, `awaited` tells whether
somebody handles their rejection yet (one that nobody handles ends the process, `pc = "crashed"`).
Workers choose streams by the arithmetic of the code, read a version, append, retry conflicts, and
send the counters that verification compares with the store. The Docker container, SIGTERM and
SIGKILL are external actions.

`HttpLoad` - the HTTP load test. `DailyCounts`, `CapacityStages` and their kin are the plan of a run
as functions of its configuration; lanes take operations from a shared counter; a request outlives the
client that gave it up, so that its append may commit after the operation was recorded as failed.
The replicas load and append an account aggregate with its snapshot.

The proof modules extend the specifications: `AppendStream_proofs`, `Projection_proofs` (with the
theorems about `SafeWatermark`, which `Projection` extends), `Delivery_proofs` (`Subscription` and `Outbox`),
`CryptoKeys_proofs`, `Reads_proofs` (`ReadPages` and `Snapshots`), `Deployment_proofs`, `LoadRun_proofs`,
`HttpLoad_proofs`. See section 5. Names of `Outbox` that `Subscription` has too begin with O, and those of
`ReadPages` that `Snapshots` has too with W, so that one module can extend both.

## 3. What the runs show

| Run | Instance | States | Time | Checks |
|---|---|---|---|---|
| `append` | 2 clients, 2 streams, 1 key, 2 calls | 474 k | 2 min | `GapFreeVersions`, `AppendedOncePerKey`, `AnswerIsTrue`, `OutboxMatchesEvents`, `AppendsAtomically` (implements `EventLog`), `TransactionsEnd` |
| `projection` | 2 writers, 2 replicas, 2 positions, batches of 2, 3 handler policies | 325 k | 1 min 30 | `SafeWatermark`'s `TypeOK`, `CertifiedIsSettled`, `CertifiedPrefixFrozen`, `StaleOnlyBehindWriter`; `ProjectsExactlyOnceInOrder` (implements `OrderedDelivery`), `EventuallyProjected` |
| `outbox` | 2 workers, 3 entries, batches of 2, 2 failures | 101 k | 13 s | `ProcessedWasPublished`, `RepeatedOnlyAfterFailure`, `EveryEntryProcessed` |
| `subscription` | 1 subscriber, pool of 3, 3 positions, 1 drop, 1 stop | 96 k | 14 s | `YieldsEachEventOnceInOrder` (implements `OrderedDelivery`), `EventuallyYielded`, `AbortEnds`, `OnlyDropsLoseConnections` |
| `crypto_keys` | 2 processes, 2 keys, 4 phases, 2 appends | 677 k | 17 s | `NothingEncryptedAfterRevocation`, `StaysReadable`, `LoadIsUniform`, `KeyLocksNeverDeadlock` |
| `read_pages` | 3 transactions, 2 streams, 4 positions, pages of 1 and 2 | 1.1 M | 27 s | `WalkReadsTheBoundary`, `CursorsRepeat` |
| `snapshots` | 3 definitions, 4 source events, appends of 1 and 2 | 62 k | 3 s | `LoadEqualsReplay`, `SnapshotsAreFaithful`, `ReplayIsBounded` |
| `deployment` | 2 migrators and 1 verifier, 4 callers, 4 upcasters, 2 faults | 155 k | 27 s | `InitializedMeansMigrated`, `MigrationsNeverCollide`, `UpcastReachesLatest`, `EventuallyInitialized` |
| `load_run` | 2 workers of 2 operations, 2 streams, 1 retry | 322 k | 27 s | `VerificationAgrees`, `QuietWhileVerifying`, `CleanupLeavesNothing`, `RunEnds` |
| `http_load` | 3 profiles, 2 replicas, 2 lanes, 2 accounts, 1 retry | 124 k | 16 s | `VerificationAgrees`, `OneEventPerDeposit`, `EachOperationOnce`, `TrafficEnds` |
| `subscription_drops` | 1 position, 2 drops | - | - | finds `DeliversDespiteDrops` violated |
| `http_ready` | as `http_load` | - | - | finds `ReadinessIsBounded` violated |

Each property comes with a mutated definition in its module (`X_Something`, before `X`), a bug one
could plausibly write in that code, under which the same run finds the property violated. Type
invariants are proved for the modules of section 5 (`Deployment` has its one as part of the inductive
invariant); the runs spend their time on the properties.

**Findings.** The waker promises to re-establish a dropped listen connection transparently
(`subscription/create-notify-waker.ts:17`), but its error handler forgets the client without
releasing it (line 45). The pool counts it as checked out for ever, and after enough drops
`pool.connect` waits for ever (`subscription_drops`; a pool without `connectionTimeoutMillis`, the
default of pg). `OnlyDropsLoseConnections` shows that nothing else loses connections. And the
`README.md` of the repository says that `--worker-ready-timeout-ms` bounds the start of the HTTP
replicas (lines 679 and 783), but `load-tests/execute-http-load-test.ts:89` awaits them without that
timer: a replica that neither becomes ready nor exits holds the run until its own deadline
(`http_ready`).

**Observations** that no document contradicts, or that a property states as it really is:

- The outbox is at least once. The documentation speaks of exactly once (`README.md:398`,
  `index.ts:80`); what holds is `RepeatedOnlyAfterFailure`, an entry is published again at most once
  per failed run.
- With as many subscribers as the pool has connections, no pump ever gets one.
- A callback of `withTransaction` that swallows an SQL error reaches COMMIT in an aborted
  transaction, which PostgreSQL turns into a rollback (`pg-helpers.ts:26`).
- In the load test, one worker that fails before the coordinator awaits completion is enough to end
  it without its cleanup (`pc = "crashed"`). `failWorker` rejects `ready` and `completed`
  (`worker-process.ts:76`), `runWorkers` has handlers for `ready` alone (`runner.ts:85`), and the cleanup
  attaches one to `completed` only when every worker is terminated and every `ready` has settled
  (`cleanup-load-run.ts:23`). The unhandled rejection ends the process meanwhile and may leave
  the other workers, the pool and the container; the exit code is non-zero, which is all that
  `README.md:560` says. The same happens when readiness is not reached in time and a worker exits
  while another is still being terminated. `CleanupLeavesNothing` says what holds: a cleanup that
  ends leaves nothing, and a run ends without one in this window only. `RunEnds` admits both ends.
- In the load test, a deadline that passes while the container starts aborts nothing, and the run
  goes on beyond it.
- In the HTTP load test an operation recorded as failed reports no conflicts and retries, and its
  deposit may be stored all the same; `OneEventPerDeposit` says so. Reading the body of a response
  is outside the request's timeout.

**Bounds.** `MaxPosition`, `MaxId`, `MaxLength` bound what is inserted; `MaxAppends`, `MaxFailures`,
`MaxDrops`, `MaxStops`, `MaxFaults`, `MaxBatch` and `LastPhase` how often something happens. Two
actors of a kind suffice for every race the code has, since each lock and each row has one holder
at a time; a third, of the other kind, is there where roles differ (writers and replicas, migrators
and a verifier). Two positions per writer pair put one in flight below a visible one, three let a
cursor pass a gap between two deliveries. Batches of 1 or 2 rows over 3 or 4 make both full and
short batches happen; two streams make a lock cycle possible; one retry makes a run both win and
lose one; two faults let a migration fail and its successor crash. The theorems of section 5 do not depend on
these bounds. The runs of `ReadPages` and `Snapshots` allow deadlock because their behaviours end
when the bounds are used up, the others are checked for it or stop in a state named as their end.

**Fairness.** Statements return and timers fire, so the steps of a running operation are weakly
fair. Steps that wait for a lock, a row or a pool connection are strongly fair, because PostgreSQL and
pg's pool both serve their waiters in the order they came. Transactions of writers end, since PostgreSQL
rolls back the one whose client is gone. An application calls `setup` until it succeeds. In the load
tests the deadlines pass, SIGKILL ends its process and the event loop runs; workers and replicas
need not answer. Failures are never fair. `EventuallyProjected` is conditional: while writers overlap
without a pause the certificate does stand still, and a projection whose handler always fails makes
no progress.

## 4. Assumptions and abstractions

- READ COMMITTED, PostgreSQL's default and the only level the library uses.
- The rows of one INSERT get consecutive positions in `AppendStream`; `SafeWatermark` lets them mix.
- `AppendStream` has no UNIQUE (stream_id, stream_version): `GapFreeVersions` holds without it. The
  primary key of `idempotency_keys` it does have, and `OncePerKey` needs it.
- A caller of `withTransaction` that meets an SQL error lets it propagate.
- `AppendStream` leaves encryption to `CryptoKeys` and notifications to `Subscription`; the latter
  takes the watermark in one step, which `SafeWatermark` justifies. The load tests take an append or
  a load in one step, which `AppendStream` and `Snapshots` justify.
- AES-GCM and the envelope are modelled by what they do: what is encrypted under one key or secret
  opens with it and fails with any other.
- `KeyLocksNeverDeadlock` is about transactions of one append. Several appends in one transaction,
  or a snapshot under a key of its own, may lock keys in other orders, and PostgreSQL then aborts
  one of them; `retryOnConcurrencyError` does not repeat that one.
- In `Snapshots` source events are readable; the revocation hits the encrypted snapshot.
- In `Deployment` all replicas run one release. DDL is transactional, as it is in PostgreSQL.
- Cursors and stored JSON decode to what was encoded.

## 5. What is proved

All theorems hold for every value of the constants that satisfies the module's named assumption
(process names differ from `Nobody`, bounds are natural numbers, sets that are counted are finite, domain
events have no snapshot's type).
Each rests on an inductive invariant: none of the properties is inductive by itself.

`Projection_proofs`, first part - `TypeCorrect`, `Settled`, `PrefixFrozen`, `StaleBehindWriter`. A certifier
that is about to publish a maximum must know that no position below it is pending and that nobody
publishes in between. `LockInv` ties program counters to locks: the holder of the exclusive fence
holds the reader lock, and writers hold the shared fence only while nobody holds the exclusive one.
`PositionInv`: only writers inside the fence have pending positions, above the certificate and at
most at `lastValue`. `CertifierInv` relates a certifier's locals to the tables.

`AppendStream_proofs`, first part - `TypeCorrect`, `GapFree`, `CheckedVersionHolds` (nothing is inserted at another
version than the one that was checked), `LogOrder`, `OutboxAgrees`. The invariant is about the rows
that a client sees, committed or its own: per stream they are a chain without gaps; a client
past the lock statement holds the stream's lock until it ends, and uncommitted rows belong to holders.

`AppendStream_proofs`, second part - `OncePerKey`, `TruthfulAnswers`, on top of the above: rows and key records
correspond one to one, within a transaction once its call is over and in the tables always, and the
unique index keeps a key's records of two transactions apart.

`AppendStream_proofs`, third part - `AtomicAppends`: transactions implement `EventLog`. Only a commit
and a cleanup change what others see (`TablesChange`); what a commit adds lies above everything
committed on its streams by then (`CommitIsNew`: the chain that the client sees has no version twice),
and what its records name is new with it, since a committed record names committed rows only.

`Projection_proofs`, second part - `PTypeCorrect`, `ExactlyOnceInOrder`: the projection, down to the queries of
the watermark, implements `OrderedDelivery`. `RowInv` says who holds the checkpoint row, `BoundInv`
that no position a run goes by exceeds the certificate, `BatchInv` that the batch read is what lies
between the run's cursor and its bound, `Faithful` that the read model is the sorted sequence of
what is visible and not excused up to the checkpoint. It rests on `Settled`: the prefix below the
certificate never changes any more, so what was read remains what there is.

`Delivery_proofs`, on `Outbox` - `OTypeCorrect`, `NothingLost`, `NoRepetitionWithoutFailure`. The invariant is an
account per entry: publications done plus those still due exceed the failed runs that had the entry
by at most one, and by none while nobody has locked or marked it.

`Delivery_proofs`, on `Subscription` - `TypeCorrect`, `DeliversOnceInOrder` (implements `OrderedDelivery`),
`ConnectionsAccountedFor`. In-flight events lie above the certificate, batches continue the cursor, and the
pool's size is what is free, in use and lost (`Accounting`, over cardinalities).

`CryptoKeys_proofs` - `TypeCorrect`, `RevocationIsFinal`, `Readable`, `Uniform`, and `NoDeadlock` for
finitely many keys. Whoever has prepared an event has held the key's row since it found the key
active (`HoldInv`), so that nobody revokes in between; processes are at most one phase apart and no
envelope ahead of a keyring (`PhaseInv`). A deadlock is refuted by the greatest key that anyone in it awaits:
its holder awaits a greater one.

`Reads_proofs`, on `ReadPages` - `WTypeCorrect`, `ReadsTheBoundary`, `StableCursors`. What is at stake is that the
two filters of the query, position and snapshot, let through the same rows at every later time. They
do because transaction ids are given out once and in order (`XidInv`) and because the ids a snapshot
calls in progress, and those it has not seen yet, stay what they were when their transactions end
(`BoundaryInv`), so that a row that matches was committed at the boundary and is in `expected`, and
conversely (`MatchInv`). `WalkInv` adds that what was read is what matches up to the cursor. The
lemmas count: the first rows of all streams are among the first rows of each, and one extra row
tells whether anything is left.

`Reads_proofs`, on `Snapshots` - `TypeCorrect`, `FaithfulSnapshots`, `LoadsTheHistory`, `BoundedReplay`. A history
is the history up to a version followed by the sources after it (`HistoryInParts`), and nothing
appended changes it (`HistoryStays`). So whoever has read a base (`Reached`) still has a state of the
history when the events arrive, and what the append writes from it is faithful again, snapshots that
it has written for other definitions included. For the bound, an append may owe replays for the
definitions it has still to maintain, and for no others (`BoundInv`); a snapshot is due or not by
the base it read, which only a revocation in between can have made stale (`AppendInv`). That domain
events have no snapshot's type, which `append` refuses, is an assumption the proof needs: it keeps a
snapshot from being a source.

`Deployment_proofs` - `InitializedIsTrue`, `NeverCollide`, `UpcastIsComplete`. What is committed is always one of the
databases one may start from (`DatabaseInv`); only the holder of the migration lock has created
anything (`LockInv`), so that each statement of a migration still finds what the ones before it found
(`MigrationInv`); a verifier holds no lock, but nothing it found is ever taken away (`VerificationInv`).
For the upcasters, whatever registrations succeed leave a registry sorted by distinct starting
versions, whose entries all lead upwards (`RegistryIsChain`). If some of its entries form a path from
the stored version to the latest, the one pass over it takes the event along that path, although it
never goes back (`PathIsFollowed`); if the pass arrives at the latest version, the entries it applied
are such a path (`PassIsPath`).

`LoadRun_proofs` - `NoWorkWhileVerifying`, `CleanupIsComplete`, `VerificationNeverMisjudges`. The first part
follows the coordinator: whatever an event settles, `React` leads on only to what the promises allow
(`ReactEffect`); workers are forked all at once (`ForkInv`), one that reported completion works no more
(`CompletionInv`), and cleanup has gone on only when each worker has exited or was killed
(`CleanupInv`). Where completion is awaited, and once the cleanup is done with the workers, the completed
promises have handlers (`HandlerInv`), so that no step from there ends the process
(`NextHandlers`). The second part accounts for every event of a stream: it is a seed event or was
stored by the operation it names (`OriginInv`), in one place only (`OnceInv`), and an operation that is
done has stored all of its events (`DoneInv`). A worker's counters are the operations it has done, with
one append attempted more while one is under way, however often it is retried (`CountInv`). So when
all have completed, the totals over the workers and the set of tokens seen are what is expected
(`TotalOf`, `CountersVerified`, `StreamsVerified`: sums and bijections of finite sets).

`HttpLoad_proofs` - `OperationsRecordedOnce`, `DepositsStoredOnce`, `VerificationIsRight`. The phases of a plan
follow one another without a gap and end with its last operation (`PhaseFacts`, `OffsetsBounded`: daily counts
and capacity stages are sums like any other). The first part follows the lanes: an operation below the shared
counter has been recorded or is in the hands of one lane (`RecordInv`, `LaneInv`), so that a phase whose
lanes are done has recorded all of its operations (`StageInv`). The second follows requests: an operation has
at most one, whose client waits for it or has recorded the operation as failed (`ClientInv`,
`RequestInv`); until it commits nothing of the operation is stored, and what it answers tells whether
something is (`Truthful`), so that a lane sends an operation again only when no event of it is stored and
no request of it is left. The third says what an account holds (`Proper`): seed events, then deposits of
operations of the plan, each once, and snapshots of the balance before them; balance and number of
events are those of the operations stored in it (`AddsUp`). When nothing failed, the operations stored are
the deposits of the plan (`OutcomeInv`), and verification computes its sums from the same plan (`Verifies`).

**Only model-checked**: all liveness (fairness and ENABLED are beyond the prover). Induction over data is not
available as a library theorem, since the installed provers do not instantiate its operator
parameter. Where an argument needs it over numbers or over the indices of a list it is made
first-order: every nonempty set of naturals has a least element, and a counterexample with a least
index contradicts itself (`Smallest`, `Largest`, `RankExists`, the chain lemmas of
`Deployment_proofs`, `UpTo`). `Ascending`, `FirstRows` and `Versions` define their lists, pages and versions
by counting and by index for that reason.

## 6. Order of work, and what is not modelled

The modules were written in the order of section 2, each with its run before its proofs; the two load
tests come last because they rest on what the library's own modules show.

Not modelled:

- Field encryption on JSON paths (`crypto/field-encryptor.ts`): pure functions on one document and
  AES-GCM; `CryptoKeys` uses what they guarantee.
- Argument validation, error classes, types, typed aggregates' construction: stateless. The inputs
  of every action are ones that have passed validation.
- The SQL that a subject filter becomes: a pure function of its options. Which events match is an
  arbitrary set in `Subscription`.
- Configuration, measurements and reports of the load tests, and the projection scenarios: parsing,
  statistics and output of one process. The cleanup of the HTTP load test has the form of `LoadRun`'s.
- Several subscribers on one pool: the proofs hold for any number, but the runs have one. Two
  subscribers with a pool of three, and with a pool of four and a drop, were checked and are too large to keep.
- Encrypted snapshots under other keys composed with `CryptoKeys`: the lock cycle they allow is
  listed as a hazard.
- The examples, scripts and the website use or document the library and are not part of it.
