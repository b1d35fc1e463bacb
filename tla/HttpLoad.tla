------------------------------- MODULE HttpLoad ----------------------------
(***************************************************************************)
(* The load test over HTTP: a driver that seeds accounts, starts server    *)
(* replicas, benchmarks reads, sends the traffic of a profile phase by     *)
(* phase over a few concurrent lanes, and verifies what is stored, and the *)
(* replicas, each serving an account aggregate from the same database.     *)
(*                                                                         *)
(* A request outlives the client that gave it up: the server does not see  *)
(* the abort, so that its append may commit after the operation was        *)
(* recorded as failed.  Loads and appends are single steps, which is what  *)
(* AppendStream and Snapshots show of them.                                *)
(***************************************************************************)
EXTENDS Integers, Sequences, FiniteSets, FiniteSetsExt

CONSTANTS
  Profiles,           \* subset of {"custom", "daily", "capacity"}
  seed, workerCount, accountCount, activeUserCount, operationsPerUser,
  hotAccountCount, hotTrafficPercent, readPercent, concurrency, maxRetries,
  customRequestCount, \* --requests of the custom profile
  dailyRequestCount,  \* --requests of the daily profile, 0 if it is not given
  capacityStart, capacityStep, capacityMax, capacityStageSeconds,
  historyEventsPerAccount, seedBatchSize,
  snapshotBenchmarkRequests, snapshotBenchmarkHistoryEventsPerAccount,
  snapshotEvery       \* ACCOUNT_SNAPSHOT_EVERY

\* What validateNumericConfig accepts.
ASSUME HttpLoadAssumption ==
  /\ Profiles \subseteq {"custom", "daily", "capacity"}
  /\ {workerCount, accountCount, activeUserCount, operationsPerUser,
      concurrency, customRequestCount, capacityStart, capacityStep, capacityMax,
      capacityStageSeconds, historyEventsPerAccount, seedBatchSize, snapshotEvery}
       \subseteq Nat \ {0}
  /\ {seed, maxRetries, dailyRequestCount, snapshotBenchmarkRequests,
      snapshotBenchmarkHistoryEventsPerAccount} \subseteq Nat
  /\ {hotTrafficPercent, readPercent} \subseteq 0..100
  /\ hotAccountCount \in 0..accountCount
  /\ activeUserCount <= accountCount
  /\ capacityStart <= capacityMax

Accounts == 0..(accountCount - 1)
Replicas == 0..(workerCount - 1)
Lanes == 1..concurrency

VARIABLES
  profile,
  accounts,   \* the stream of each account: [type, token, amount]
  (* The driver. *)
  pc,         \* "database", "seed", "start", "benchmark", "traffic", "verify", "ended"
  clock,      \* deadlines passed: "none", "ready" or "run"
  aborted,    \* abortRun has ended the pool and told the replicas to stop
  outcome,    \* "none", "passed", "failed", or "mismatch": verification failed
  ready,      \* replicas whose ready message has arrived
  measured,   \* benchmark reads answered
  phase,      \* index of the traffic phase
  nextOperation, \* of the phase, shared by its lanes
  lanes,      \* [state, op, attempt]
  recorded,   \* times each operation was recorded
  failed,     \* operations recorded as failed
  successfulDeposits,
  (* The replicas. *)
  replica,    \* "none", "starting", "listening" or "gone"
  requests    \* being served, or answered and not yet received

driver == <<pc, clock, aborted, outcome, ready, measured>>
traffic == <<phase, nextOperation, lanes>>
records == <<recorded, failed, successfulDeposits>>
vars == <<profile, accounts, driver, traffic, records, replica, requests>>

-----------------------------------------------------------------------------
(* The plan of a run, a function of its configuration.                     *)

\* The numbers of a sequence added up, in order.
Total(numbers) ==
  LET sum[i \in 0..Len(numbers)] == IF i = 0 THEN 0 ELSE sum[i - 1] + numbers[i]
  IN  sum[Len(numbers)]

\* Mutant: the cool-down is a tenth as well.
DailyCounts_Tenths(n) == <<n \div 10, (8 * n) \div 10, n \div 10>>

\* createDailyPhases: the request counts of off-peak, peak and cool-down.
DailyCounts(n) ==
  <<n \div 10, (8 * n) \div 10, n - (n \div 10) - ((8 * n) \div 10)>>

\* createCapacityPhases: one stage per target rate, from start to max by step.
CapacityStages == 1 + ((capacityMax - capacityStart) \div capacityStep)
CapacityCounts ==
  [i \in 1..CapacityStages |->
     (capacityStart + (i - 1) * capacityStep) * capacityStageSeconds]

\* applyDerivedConfig.
RequestCount(p) ==
  CASE p = "custom"   -> customRequestCount
    [] p = "daily"    -> IF dailyRequestCount # 0 THEN dailyRequestCount
                         ELSE activeUserCount * operationsPerUser
    [] p = "capacity" -> Total(CapacityCounts)

createTrafficPhases(p) ==
  CASE p = "custom"   -> <<RequestCount(p)>>
    [] p = "daily"    -> DailyCounts(RequestCount(p))
    [] p = "capacity" -> CapacityCounts

PhaseCount == createTrafficPhases(profile)[phase]
PhaseOffset == Total(SubSeq(createTrafficPhases(profile), 1, phase - 1))

Operations == 0..(RequestCount(profile) - 1)

operationValue(o) == seed * 31 + o * 17

\* getExpectedHttpOperation.
OperationPlan(o) ==
  LET value == operationValue(o)
      userOperationIndex == o \div activeUserCount
      userIndex == ((o % activeUserCount) + seed) % activeUserCount
      hot == \/ hotAccountCount = accountCount
             \/ hotAccountCount > 0 /\ value % 100 < hotTrafficPercent
      pool == IF hot THEN hotAccountCount ELSE accountCount - hotAccountCount
      offset == IF hot THEN 0 ELSE hotAccountCount
      reads == (2 * operationsPerUser * readPercent + 100) \div 200
      slot == (userOperationIndex + userIndex) % operationsPerUser
  IN  [kind    |-> IF slot < reads THEN "read" ELSE "deposit",
       account |-> IF profile = "daily" THEN userIndex
                                        ELSE offset + (value % pool),
       amount  |-> 1 + (value % 10)]

getHttpWorkerIndex(o, attempt) == (o + attempt) % workerCount

-----------------------------------------------------------------------------
(* Accounts.                                                               *)

SeedToken(a, i) == <<"seed", a, i>>
LiveToken(o) == <<"http", seed, o>>

Opened(a) == [type |-> "AccountOpened", token |-> SeedToken(a, 0), amount |-> 0]
Deposited(token, amount) ==
  [type |-> "MoneyDeposited", token |-> token, amount |-> amount]
\* A snapshot's amount is its balance.
SnapshotOf(balance) ==
  [type |-> "Snapshot", token |-> <<>>, amount |-> balance]

SourceEventCount(events) ==
  Cardinality({v \in DOMAIN events : events[v].type # "Snapshot"})
DepositCount(events) ==
  Cardinality({v \in DOMAIN events : events[v].type = "MoneyDeposited"})
\* evolve, folded over the events.
Balance(events) ==
  Total([v \in 1..Len(events) |->
           IF events[v].type = "MoneyDeposited" THEN events[v].amount ELSE 0])

SinceSnapshot(events) ==
  LET snapshots == {v \in DOMAIN events : events[v].type = "Snapshot"}
  IN  Len(events) - Max(snapshots \cup {0})

getSnapshotBenchmarkAccountIds ==
  LET n == Min({snapshotBenchmarkRequests, accountCount})
  IN  (accountCount - n)..(accountCount - 1)

getHistoryEventCount(a) ==
  IF a \in getSnapshotBenchmarkAccountIds
  THEN Max({historyEventsPerAccount, snapshotBenchmarkHistoryEventsPerAccount})
  ELSE historyEventsPerAccount

-----------------------------------------------------------------------------
(* Verification.                                                           *)

SuccessfulOn(a) == {o \in successfulDeposits : OperationPlan(o).account = a}

\* buildExpectedValues.
ExpectedBalance(a) ==
  getHistoryEventCount(a) - 1
    + Total([n \in 1..RequestCount(profile) |->
               IF n - 1 \in SuccessfulOn(a) THEN OperationPlan(n - 1).amount ELSE 0])
ExpectedSourceEventCount(a) ==
  getHistoryEventCount(a) + Cardinality(SuccessfulOn(a))

validateLiveDeposit(a, event) ==
  \E o \in SuccessfulOn(a) : /\ event.token = LiveToken(o)
                             /\ event.amount = OperationPlan(o).amount

\* processHttpVerificationEvent, of the event at version v.
ValidEvent(a, v) ==
  LET event == accounts[a][v]
      before == SubSeq(accounts[a], 1, v - 1)
      sourceEventCount == SourceEventCount(before)
  IN  CASE event.type = "AccountOpened" -> sourceEventCount = 0 /\ event.amount = 0
        [] event.type = "MoneyDeposited" ->
             IF event.token = SeedToken(a, sourceEventCount)
             THEN event.amount = 1
             ELSE /\ validateLiveDeposit(a, event)
                  /\ \A u \in DOMAIN before : before[u].token # event.token
        [] event.type = "Snapshot" -> event.amount = Balance(before)

verifyHttpAccount(a) ==
  /\ \A v \in DOMAIN accounts[a] : ValidEvent(a, v)
  /\ SourceEventCount(accounts[a]) = ExpectedSourceEventCount(a)
  /\ Balance(accounts[a]) = ExpectedBalance(a)

\* The deposits that are not the seed's at their place.
LiveVersions(a) ==
  {v \in DOMAIN accounts[a] :
     /\ accounts[a][v].type = "MoneyDeposited"
     /\ accounts[a][v].token
          # SeedToken(a, SourceEventCount(SubSeq(accounts[a], 1, v - 1)))}
SeenLiveTokens ==
  UNION {{accounts[a][v].token : v \in LiveVersions(a)} : a \in Accounts}

verifyAccounts ==
  /\ \A a \in Accounts : verifyHttpAccount(a)
  /\ Cardinality(SeenLiveTokens) = Cardinality(successfulDeposits)

-----------------------------------------------------------------------------
(* Preparing a run.                                                        *)

IdleLane == [state |-> "done", op |-> 0, attempt |-> 0]
Idle == [l \in Lanes |-> IdleLane]

Init ==
  /\ profile \in Profiles
  /\ accounts = [a \in Accounts |-> <<>>]
  /\ pc = "database" /\ clock = "none" /\ aborted = FALSE /\ outcome = "none"
  /\ ready = {} /\ measured = 0
  /\ phase = 1 /\ nextOperation = 0 /\ lanes = Idle
  /\ recorded = [o \in Operations |-> 0]
  /\ failed = {} /\ successfulDeposits = {}
  /\ replica = [r \in Replicas |-> "none"]
  /\ requests = {}

End(result) == pc' = "ended" /\ outcome' = result

\* setupHttpDatabase: the container, the pool and the schema.
DatabaseStarts ==
  /\ pc = "database"
  /\ pc' = "seed"
  /\ UNCHANGED <<profile, accounts, clock, aborted, outcome, ready, measured,
                 traffic, records, replica, requests>>

Unseeded == {a \in Accounts : Len(accounts[a]) < getHistoryEventCount(a)}
Unsnapped == {a \in getSnapshotBenchmarkAccountIds :
                Len(accounts[a]) = getHistoryEventCount(a)}

\* seedAccount: the opening event and then a batch of deposits at a time.
SeedBatch(a) ==
  LET stored == Len(accounts[a])
      size == Min({seedBatchSize, getHistoryEventCount(a) - stored})
  IN  IF stored = 0 THEN <<Opened(a)>>
      ELSE [i \in 1..size |-> Deposited(SeedToken(a, stored + i - 1), 1)]

Seed ==
  /\ pc = "seed" /\ ~aborted
  /\ \/ /\ Unseeded # {}
        /\ LET a == Min(Unseeded)
           IN  accounts' = [accounts EXCEPT ![a] = @ \o SeedBatch(a)]
     \/ /\ Unseeded = {} /\ Unsnapped # {}
        /\ LET a == Min(Unsnapped)
               balance == Max({0, getHistoryEventCount(a) - 1})
           IN  accounts' = [accounts EXCEPT ![a] = Append(@, SnapshotOf(balance))]
  /\ UNCHANGED <<profile, driver, traffic, records, replica, requests>>

\* A statement of the driver's fails, as all do once its pool has ended.
StatementFails ==
  /\ pc \in {"database", "seed", "verify"}
  /\ End("failed")
  /\ UNCHANGED <<profile, accounts, clock, aborted, ready, measured, traffic,
                 records, replica, requests>>

\* Everything is seeded: startHttpWorkers forks the replicas.
StartWorkers ==
  /\ pc = "seed" /\ Unseeded = {} /\ Unsnapped = {} /\ ~aborted
  /\ pc' = "start"
  /\ replica' = [r \in Replicas |-> "starting"]
  /\ UNCHANGED <<profile, accounts, clock, aborted, outcome, ready, measured,
                 traffic, records, requests>>

\* http-worker: the replica listens and its ready message arrives.
Listen(r) ==
  /\ replica[r] = "starting"
  /\ replica' = [replica EXCEPT ![r] = "listening"]
  /\ ready' = ready \cup {r}
  /\ UNCHANGED <<profile, accounts, pc, clock, aborted, outcome, measured, traffic,
                 records, requests>>

\* A replica exits, having failed, crashed or been told to; before it was ready
\* its exit rejects startHttpWorkers.
Exit(r) ==
  /\ replica[r] \in {"starting", "listening"}
  /\ replica' = [replica EXCEPT ![r] = "gone"]
  /\ requests' = {q \in requests : q.replica # r}
  /\ IF pc = "start" /\ r \notin ready THEN End("failed")
                                       ELSE UNCHANGED <<pc, outcome>>
  /\ UNCHANGED <<profile, accounts, clock, aborted, ready, measured, traffic,
                 records>>

\* Promise.all of the ready promises.
AllReady ==
  /\ pc = "start" /\ ready = Replicas
  /\ pc' = "benchmark"
  /\ UNCHANGED <<profile, accounts, clock, aborted, outcome, ready, measured,
                 traffic, records, replica, requests>>

\* The time of --worker-ready-timeout-ms passes: startHttpWorkers has no timer.
ReadyTimeoutPasses ==
  /\ pc = "start" /\ clock = "none"
  /\ clock' = "ready"
  /\ UNCHANGED <<profile, accounts, pc, aborted, outcome, ready, measured, traffic,
                 records, replica, requests>>

\* The time of --run-timeout-ms passes, a longer one: abortRun ends what there is
\* and tells the replicas to stop.
RunDeadline ==
  /\ pc # "ended" /\ clock # "run"
  /\ pc = "start" => clock = "ready"
  /\ clock' = "run"
  /\ aborted' = (pc # "database")
  /\ UNCHANGED <<profile, accounts, pc, outcome, ready, measured, traffic, records,
                 replica, requests>>

StartLanes(p) ==
  LET count == createTrafficPhases(profile)[p]
  IN  [l \in Lanes |-> IF l <= count THEN [IdleLane EXCEPT !.state = "next"]
                                     ELSE IdleLane]

\* measureSnapshotRead: the direct read and the snapshot's of each request, in
\* turn first.  Nothing writes meanwhile, so that the lanes are left out.
MeasureSnapshotRead ==
  /\ pc = "benchmark" /\ measured < 2 * snapshotBenchmarkRequests
  /\ replica[(measured \div 2) % workerCount] = "listening"
  /\ measured' = measured + 1
  /\ UNCHANGED <<profile, accounts, pc, clock, aborted, outcome, ready, traffic,
                 records, replica, requests>>

BenchmarkFails ==
  /\ pc = "benchmark" /\ measured < 2 * snapshotBenchmarkRequests
  /\ End("failed")
  /\ UNCHANGED <<profile, accounts, clock, aborted, ready, measured, traffic,
                 records, replica, requests>>

BenchmarkEnds ==
  /\ pc = "benchmark" /\ measured = 2 * snapshotBenchmarkRequests
  /\ pc' = "traffic"
  /\ lanes' = StartLanes(1)
  /\ UNCHANGED <<profile, accounts, clock, aborted, outcome, ready, measured, phase,
                 nextOperation, records, replica, requests>>

-----------------------------------------------------------------------------
(* The lanes of a traffic phase.                                           *)

unchangedByLanes == <<profile, accounts, driver, replica>>

ReplicaOf(l) == getHttpWorkerIndex(lanes[l].op, lanes[l].attempt)

\* runTrafficLane: the next operation of the phase, or the end of the lane.
Take(l) ==
  /\ lanes[l].state = "next"
  /\ nextOperation' = nextOperation + 1
  /\ lanes' = [lanes EXCEPT ![l] =
       IF nextOperation >= PhaseCount THEN [@ EXCEPT !.state = "done"]
       ELSE [state |-> "send", op |-> PhaseOffset + nextOperation, attempt |-> 0]]
  /\ UNCHANGED <<unchangedByLanes, phase, records, requests>>

\* sendHttpOperation, once the operation is due or its retry's delay has passed.
Send(l) ==
  /\ lanes[l].state = "send"
  /\ replica[ReplicaOf(l)] = "listening"
  /\ lanes' = [lanes EXCEPT ![l].state = "waiting"]
  /\ requests' = requests \cup
       {[client |-> l, op |-> lanes[l].op, replica |-> ReplicaOf(l), step |-> "load",
         version |-> 0, deposits |-> 0, status |-> 0]}
  /\ UNCHANGED <<unchangedByLanes, phase, nextOperation, records>>

\* The record of lane l's operation; the lane goes on to the next.
Record(l, succeeded) ==
  LET o == lanes[l].op
  IN  /\ recorded' = [recorded EXCEPT ![o] = @ + 1]
      /\ IF succeeded
         THEN /\ successfulDeposits' =
                   IF OperationPlan(o).kind = "deposit"
                   THEN successfulDeposits \cup {o} ELSE successfulDeposits
              /\ UNCHANGED failed
         ELSE /\ failed' = failed \cup {o}
              /\ UNCHANGED successfulDeposits
      /\ lanes' = [lanes EXCEPT ![l] = [IdleLane EXCEPT !.state = "next"]]

\* The replica is gone or has stopped listening, or the connection breaks.
ConnectionFails(l) ==
  /\ \/ lanes[l].state = "send" /\ (replica[ReplicaOf(l)] = "gone" \/ aborted)
     \/ lanes[l].state = "waiting" /\ {q \in requests : q.client = l} = {}
  /\ Record(l, FALSE)
  /\ UNCHANGED <<unchangedByLanes, phase, nextOperation, requests>>

\* The lane gives up, and with 0 for its client the request goes on.
GiveUp(l) ==
  requests' = {IF q.client = l THEN [q EXCEPT !.client = 0] ELSE q : q \in requests}

\* Mutant: a request that timed out is sent again, to the next replica.
Timeout_Retried(l) ==
  /\ lanes[l].state = "waiting"
  /\ GiveUp(l)
  /\ IF lanes[l].attempt < maxRetries
     THEN /\ lanes' = [lanes EXCEPT ![l] = [state |-> "send", op |-> @.op,
                                            attempt |-> @.attempt + 1]]
          /\ UNCHANGED records
     ELSE Record(l, FALSE)
  /\ UNCHANGED <<unchangedByLanes, phase, nextOperation>>

\* Mutant: requests have no timeout.
Timeout_None(l) == FALSE /\ UNCHANGED vars

\* --operation-timeout-ms passes.
Timeout(l) ==
  /\ lanes[l].state = "waiting"
  /\ GiveUp(l)
  /\ Record(l, FALSE)
  /\ UNCHANGED <<unchangedByLanes, phase, nextOperation>>

\* validateSuccessfulResponse.
ValidResponse(q) ==
  IF OperationPlan(q.op).kind = "read"
  THEN q.status = 200 /\ q.version > 0 /\ q.version >= q.deposits + 1
  ELSE q.status = 201

\* retryHttpRequest: a conflict is retried, and nothing else.
Receive(l) ==
  \E q \in requests :
    /\ q.client = l /\ q.step = "answered"
    /\ requests' = requests \ {q}
    /\ IF q.status = 409 /\ lanes[l].attempt < maxRetries
       THEN /\ lanes' = [lanes EXCEPT ![l] = [state |-> "send", op |-> @.op,
                                              attempt |-> @.attempt + 1]]
            /\ UNCHANGED records
       ELSE Record(l, ValidResponse(q))
    /\ UNCHANGED <<unchangedByLanes, phase, nextOperation>>

\* Every lane has returned: the next phase, or the end of the traffic.
PhaseEnds ==
  /\ pc = "traffic" /\ \A l \in Lanes : lanes[l].state = "done"
  /\ IF phase < Len(createTrafficPhases(profile))
     THEN /\ phase' = phase + 1
          /\ nextOperation' = 0
          /\ lanes' = StartLanes(phase + 1)
          /\ UNCHANGED <<pc, outcome>>
     ELSE /\ IF failed # {} \/ \E r \in Replicas : replica[r] = "gone"
             THEN End("failed")
             ELSE pc' = "verify" /\ UNCHANGED outcome
          /\ UNCHANGED traffic
  /\ UNCHANGED <<profile, accounts, clock, aborted, ready, measured, records, replica,
                 requests>>

Verify ==
  /\ pc = "verify" /\ ~aborted
  /\ End(IF verifyAccounts THEN "passed" ELSE "mismatch")
  /\ UNCHANGED <<profile, accounts, clock, aborted, ready, measured, traffic,
                 records, replica, requests>>

-----------------------------------------------------------------------------
(* A replica serving request q.                                            *)

unchangedByReplicas == <<profile, driver, traffic, records, replica>>

\* The request in its next state; an answer nobody waits for is dropped.
Replace(q, new) ==
  requests' = (requests \ {q}) \cup
                (IF new.step = "answered" /\ new.client = 0 THEN {} ELSE {new})

Answered(q, status) == [q EXCEPT !.step = "answered", !.status = status]

\* AccountAggregate.load; a read is answered with what it loaded.
HandleLoad(q) ==
  LET plan == OperationPlan(q.op)
      events == accounts[plan.account]
      loaded == [q EXCEPT !.version = Len(events),
                          !.deposits = DepositCount(events)]
  IN  /\ q.step = "load"
      /\ Replace(q, IF events = <<>> THEN Answered(q, 404)
                    ELSE IF plan.kind = "read" THEN Answered(loaded, 200)
                    ELSE [loaded EXCEPT !.step = "append"])
      /\ UNCHANGED <<unchangedByReplicas, accounts>>

\* Mutant: the snapshot is taken of what the handler has loaded.
Commit_StaleSnapshot(events, deposit) ==
  LET appended == Append(events, deposit)
  IN  IF SinceSnapshot(appended) < snapshotEvery THEN appended
      ELSE Append(appended, SnapshotOf(Balance(events)))

\* EventStore.append with the registered snapshot, in one transaction.
Commit(events, deposit) ==
  LET appended == Append(events, deposit)
  IN  IF SinceSnapshot(appended) < snapshotEvery THEN appended
      ELSE Append(appended, SnapshotOf(Balance(appended)))

\* appendDeposit: the append commits, or fails with a conflict.
HandleAppend(q) ==
  LET plan == OperationPlan(q.op)
      events == accounts[plan.account]
  IN  /\ q.step = "append"
      /\ IF Len(events) = q.version
         THEN /\ accounts' = [accounts EXCEPT ![plan.account] =
                                Commit(events, Deposited(LiveToken(q.op), plan.amount))]
              /\ Replace(q, Answered(q, 201))
         ELSE /\ Replace(q, Answered(q, 409))
              /\ UNCHANGED accounts
      /\ UNCHANGED unchangedByReplicas

\* Anything else that goes wrong is a 500, and the append may have committed.
HandleFails(q) ==
  LET plan == OperationPlan(q.op)
      events == accounts[plan.account]
  IN  /\ q.step \in {"load", "append"}
      /\ Replace(q, Answered(q, 500))
      /\ \/ UNCHANGED accounts
         \/ /\ q.step = "append" /\ Len(events) = q.version
            /\ accounts' = [accounts EXCEPT ![plan.account] =
                              Commit(events, Deposited(LiveToken(q.op), plan.amount))]
      /\ UNCHANGED unchangedByReplicas

-----------------------------------------------------------------------------

Prepare ==
  \/ DatabaseStarts \/ Seed \/ StatementFails \/ StartWorkers \/ AllReady
  \/ MeasureSnapshotRead \/ BenchmarkFails \/ BenchmarkEnds

Lane(l) ==
  Take(l) \/ Send(l) \/ ConnectionFails(l) \/ Timeout(l) \/ Receive(l)

Replica(r) ==
  \/ Listen(r) \/ Exit(r)
  \/ \E q \in requests :
       q.replica = r /\ (HandleLoad(q) \/ HandleAppend(q) \/ HandleFails(q))

Ended == pc = "ended" /\ UNCHANGED vars

Next ==
  \/ Prepare \/ PhaseEnds \/ Verify \/ ReadyTimeoutPasses \/ RunDeadline
  \/ \E l \in Lanes : Lane(l)
  \/ \E r \in Replicas : Replica(r)
  \/ Ended

Spec == Init /\ [][Next]_vars

\* The driver's event loop turns and the timers of its requests fire.  A replica
\* may hang, and nothing makes it start, answer or exit.
FairSpec ==
  /\ Spec
  /\ WF_vars(Prepare) /\ WF_vars(PhaseEnds) /\ WF_vars(Verify)
  /\ \A l \in Lanes : WF_vars(Lane(l))

-----------------------------------------------------------------------------
(* Properties.                                                             *)

\* A run none of whose operations failed passes its verification, whatever
\* conflicts, retries and snapshots there were: it reports no error that is not one.
VerificationAgrees == outcome # "mismatch"

\* Where the deposit of operation o is stored in account a.
StoredAt(o, a) == {v \in DOMAIN accounts[a] : accounts[a][v].token = LiveToken(o)}

\* A deposit is one event, however often it was sent and whoever gave up on it:
\* never two, and one if its client was told so.
OneEventPerDeposit ==
  \A o \in Operations :
    LET stored == Cardinality(UNION {{a} \X StoredAt(o, a) : a \in Accounts})
    IN  stored <= 1 /\ (o \in successfulDeposits => stored = 1)

\* An operation is recorded once, in its own phase, and the traffic ends with all
\* the configured ones recorded, however the phases divide them.
EachOperationOnce ==
  /\ \A o \in Operations :
       /\ recorded[o] <= 1
       /\ recorded[o] = 1 => o < PhaseOffset + PhaseCount
       /\ pc = "traffic" /\ o < PhaseOffset => recorded[o] = 1
  /\ pc = "verify" => \A o \in Operations : recorded[o] = 1

\* The traffic comes to an end even when replicas crash or stop answering.
TrafficEnds == pc = "traffic" ~> pc # "traffic"

\* The documentation: --worker-ready-timeout-ms bounds the wait for the replicas.
\* The run's own, longer deadline never strikes during that wait.
ReadinessIsBounded == [][pc = "start" => clock' # "run"]_vars
=============================================================================
