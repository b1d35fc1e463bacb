------------------------------- MODULE LoadRun -----------------------------
(***************************************************************************)
(* The load test against a database: a coordinator that starts PostgreSQL, *)
(* seeds every stream, forks workers, waits for them, verifies what is     *)
(* stored and cleans up, and the workers, each a process of its own.       *)
(*                                                                         *)
(* The coordinator is an event loop: an event (a message, the exit of a    *)
(* child, a timer) settles promises, and everything that waits for them    *)
(* runs before the next event.  React is that.  A promise rejected without *)
(* a handler after it ends the process.                                    *)
(*                                                                         *)
(* A statement of a worker is a step and may fail.  An append is one step, *)
(* which is what AppendStream shows of it.                                 *)
(***************************************************************************)
EXTENDS Integers, Sequences, FiniteSets, FiniteSetsExt

CONSTANTS
  workerCount, operationsPerWorker, streamCount, hotStreamCount,
  appendPercent, historyEventsPerStream, appendBatchSize, maxRetries,
  Seeds         \* values of --seed

ASSUME LoadRunAssumption ==
  /\ {workerCount, operationsPerWorker, streamCount, appendBatchSize}
       \subseteq Nat \ {0}
  /\ hotStreamCount \in 0..streamCount
  /\ appendPercent \in 0..100
  /\ historyEventsPerStream \in Nat /\ maxRetries \in Nat
  /\ Seeds \subseteq Nat

Workers == 0..(workerCount - 1)
Operations == 0..(operationsPerWorker - 1)
Streams == 0..(streamCount - 1)

VARIABLES
  seed,
  events,     \* the events of each stream, as their tokens
  container,  \* "none", "running", "stopping" or "stopped"
  pool,       \* the coordinator's pool: "none", "open" or "ended"
  (* The coordinator. *)
  pc,         \* what it awaits
  expired,    \* deadlines that have passed: "run", "ready"
  report,     \* "none", "written", or "mismatch": verification failed
  started,    \* it has sent start to every worker
  awaited,    \* the completed promises have handlers
  ready, completed, \* per worker, "pending", "resolved" or "rejected"
  exited,     \* workers whose exit event it has seen
  given,      \* workers whose termination it has given up waiting for
  timers,     \* pending SIGKILL timers: <<worker, who set it>>
  (* The workers. *)
  inbox,      \* messages sent to the coordinator, not yet delivered
  worker,     \* "none", "boot", "idle", "next", "append", "closing", "gone"
  sigterm,    \* workers that were sent SIGTERM
  op,         \* index of the running operation
  attempt,    \* attempts it has lost to a conflict
  seen,       \* stream version its append has read
  counters    \* the metrics that verification looks at

promises == <<ready, completed, exited, given, timers, sigterm>>
store == <<events, container, pool>>
outcome == <<expired, report>>
coordinator == <<pc, outcome, started, awaited, promises>>
work == <<op, attempt, seen, counters>>
vars == <<seed, store, coordinator, inbox, worker, work>>

-----------------------------------------------------------------------------
(* The operations of a run, a function of its configuration.               *)

deterministicValue(w, i) == seed * 31 + w * 17 + i * 13

IsAppend(w, i) == deterministicValue(w, i) % 100 < appendPercent

selectStreamIndex(value) ==
  LET cold == streamCount - hotStreamCount
  IN  IF cold = 0 \/ (hotStreamCount > 0 /\ value % 100 < 75)
      THEN value % hotStreamCount
      ELSE hotStreamCount + (value % cold)

StreamOf(w, i) == selectStreamIndex(deterministicValue(w, i))

SeedToken(s, i) == <<"seed", s, i>>
LiveToken(w, i, b) == <<"live", w, i, b>>

createLiveEvents(w, i) ==
  [b \in 1..appendBatchSize |-> LiveToken(w, i, b - 1)]

expectedAppends == {o \in Workers \X Operations : IsAppend(o[1], o[2])}
expectedLoads == (Workers \X Operations) \ expectedAppends

\* The tokens expected in stream s.
expectedLiveEvents(s) ==
  {LiveToken(o[1], o[2], b) :
     o \in {a \in expectedAppends : StreamOf(a[1], a[2]) = s},
     b \in 0..(appendBatchSize - 1)}

-----------------------------------------------------------------------------
(* Verification.                                                           *)

NoCounters == [attempted |-> 0, succeeded |-> 0, eventCount |-> 0,
               loads |-> 0, loadsSucceeded |-> 0]

Total(field) ==
  LET sum[n \in 0..workerCount] ==
        IF n = 0 THEN 0 ELSE sum[n - 1] + counters[n - 1][field]
  IN  sum[workerCount]

CountersAgree ==
  LET appends == Cardinality(expectedAppends)
  IN  /\ Total("attempted") = appends
      /\ Total("succeeded") = appends
      /\ Total("eventCount") = appends * appendBatchSize
      /\ Total("loads") = Cardinality(expectedLoads)
      /\ Total("loadsSucceeded") = Cardinality(expectedLoads)

LiveVersions(s) == {v \in DOMAIN events[s] : v > historyEventsPerStream}

validateSeedEvent(s, v) == events[s][v] = SeedToken(s, v - 1)

\* A live event is expected in this stream and was not seen before.
validateLiveEvent(s, v) ==
  /\ events[s][v] \in expectedLiveEvents(s)
  /\ \A u \in LiveVersions(s) : events[s][u] = events[s][v] => u = v

validateEvent(s, v) ==
  IF v <= historyEventsPerStream THEN validateSeedEvent(s, v)
                                 ELSE validateLiveEvent(s, v)

verifyStream(s) == \A v \in DOMAIN events[s] : validateEvent(s, v)

seenLiveEvents == UNION {{events[s][v] : v \in LiveVersions(s)} : s \in Streams}

verifyStreams ==
  /\ \A s \in Streams : verifyStream(s)
  /\ Cardinality(seenLiveEvents) = Cardinality(expectedAppends) * appendBatchSize

\* The seed events as many as configured, the workers' counters and the streams.
Verified ==
  /\ \A s \in Streams : Len(events[s]) >= historyEventsPerStream
  /\ CountersAgree
  /\ verifyStreams

-----------------------------------------------------------------------------
(* The coordinator's event loop.                                           *)

Forked == {w \in Workers : worker[w] # "none"}
CleaningUp == {"terminate", "settle", "pool", "container", "done", "crashed"}

Init ==
  /\ seed \in Seeds
  /\ events = [s \in Streams |-> <<>>]
  /\ container = "none" /\ pool = "none"
  /\ pc = "database" /\ started = FALSE /\ awaited = FALSE
  /\ expired = {} /\ report = "none"
  /\ ready = [w \in Workers |-> "pending"]
  /\ completed = [w \in Workers |-> "pending"]
  /\ exited = {} /\ given = {} /\ timers = {} /\ sigterm = {}
  /\ inbox = [w \in Workers |-> <<>>]
  /\ worker = [w \in Workers |-> "none"]
  /\ op = [w \in Workers |-> 0] /\ attempt = [w \in Workers |-> 0]
  /\ seen = [w \in Workers |-> 0]
  /\ counters = [w \in Workers |-> NoCounters]

All(promise, state) == \A w \in Forked : promise[w] = state
Some(promise, state) == \E w \in Forked : promise[w] = state

\* Mutant: the workers are raced instead of awaited together.
AfterWork_Race(p, r, c) ==
  CASE p = "ready" /\ Some(r, "rejected") -> "terminate"
    [] p = "ready" /\ All(r, "resolved") -> "start"
    [] p = "completed" /\ Some(c, "rejected") -> "terminate"
    [] p = "completed" /\ Some(c, "resolved") -> "verify"
    [] OTHER -> p

\* runWorkers: what awaiting the promises r of readiness and c of completion at
\* p comes to.
AfterWork(p, r, c) ==
  CASE p = "ready" /\ Some(r, "rejected") -> "terminate"
    [] p = "ready" /\ All(r, "resolved") -> "start"
    [] p = "completed" /\ Some(c, "rejected") -> "terminate"
    [] p = "completed" /\ All(c, "resolved") -> "verify"
    [] OTHER -> p

\* Mutant: cleanup does not wait for the workers it has sent SIGTERM to.
AfterCleanup_NoWait(p, r, c, x) == IF p = "terminate" THEN "pool" ELSE p

\* cleanupLoadRun: the terminations x, then the promises, have to settle.
AfterCleanup(p, r, c, x) ==
  LET p1 == IF p = "terminate" /\ Forked \subseteq x THEN "settle" ELSE p
  IN  IF /\ p1 = "settle"
         /\ \A w \in Forked : "pending" \notin {r[w], c[w]}
      THEN "pool" ELSE p1

\* Mutant: nothing follows SIGTERM.
KillTimers_None(ws, setter) == {}

\* terminateChild: SIGTERM, and SIGKILL two seconds later.
KillTimers(ws, setter) == ws \X {setter}

\* The coordinator, sent to p by an event that leaves the promises r and c, exit
\* events x and abandoned terminations g, runs on to what it awaits next.
React(p, r, c, x, g) ==
  LET q == AfterWork(p, r, c)
      entered == q \in CleaningUp /\ pc \notin CleaningUp
      next == AfterCleanup(q, r, c, x \cup g)
      handled == awaited \/ /\ next \in {"settle", "pool"}
                            /\ \A w \in Forked : r[w] # "pending"
  IN  /\ pc' = IF Some(c, "rejected") /\ ~handled THEN "crashed" ELSE next
      /\ started' = (started \/ next = "start")
      /\ awaited' = handled
      /\ ready' = r /\ completed' = c /\ exited' = x /\ given' = g
      /\ timers' = {t \in timers : t[1] \notin x}
                     \cup KillTimers(IF entered THEN Forked \ x ELSE {}, "cleanup")
      /\ sigterm' = IF entered THEN sigterm \cup (Forked \ x) ELSE sigterm

\* The body of runLoadTest throws or returns its report.
EndBody == React("terminate", ready, completed, exited, given)

Move(p) == pc' = p /\ UNCHANGED <<started, awaited, promises>>

DatabaseUp == container \in {"running", "stopping"} /\ pool = "open"

\* startLoadDatabase, setup and the schema.
DatabaseStarts ==
  /\ pc = "database"
  /\ container' = "running" /\ pool' = "open"
  /\ Move("seed")
  /\ UNCHANGED <<seed, events, outcome, inbox, worker, work>>

DatabaseFails ==
  /\ pc = "database"
  /\ EndBody
  /\ UNCHANGED <<seed, store, outcome, inbox, worker, work>>

Unseeded == {s \in Streams : Len(events[s]) < historyEventsPerStream}

\* seedHistory appends one batch, to the first stream that is not complete.
SeedBatch ==
  /\ pc = "seed" /\ DatabaseUp /\ Unseeded # {}
  /\ LET s == Min(Unseeded)
         have == Len(events[s])
         size == Min({appendBatchSize, historyEventsPerStream - have})
     IN  events' = [events EXCEPT ![s] =
           @ \o [b \in 1..size |-> SeedToken(s, have + b - 1)]]
  /\ UNCHANGED <<seed, container, pool, coordinator, inbox, worker, work>>

\* Every worker is forked and sent initialize before the coordinator awaits any.
StartWorkers ==
  /\ pc = "seed" /\ Unseeded = {}
  /\ worker' = [w \in Workers |-> "boot"]
  /\ Move("ready")
  /\ UNCHANGED <<seed, store, outcome, inbox, work>>

\* A statement of the coordinator fails, for want of a database at the latest.
StatementFails ==
  /\ pc \in {"seed", "verify"}
  /\ EndBody
  /\ UNCHANGED <<seed, store, outcome, inbox, worker, work>>

\* Only a promise that is still pending is settled.
Settle(promise, w, state) ==
  IF promise[w] = "pending" THEN [promise EXCEPT ![w] = state] ELSE promise

\* handleWorkerMessage
Deliver(w) ==
  /\ pc \notin {"done", "crashed"}
  /\ inbox[w] # <<>>
  /\ inbox' = [inbox EXCEPT ![w] = Tail(@)]
  /\ CASE Head(inbox[w]) = "ready" ->
            React(pc, Settle(ready, w, "resolved"), completed, exited, given)
       [] Head(inbox[w]) = "completed" ->
            React(pc, ready, Settle(completed, w, "resolved"), exited, given)
       [] Head(inbox[w]) = "failed" ->
            React(pc, Settle(ready, w, "rejected"),
                  Settle(completed, w, "rejected"), exited, given)
  /\ UNCHANGED <<seed, store, outcome, worker, work>>

\* The exit event may overtake messages that the child has sent.
ExitEvent(w) ==
  /\ pc \notin {"done", "crashed"}
  /\ worker[w] = "gone" /\ w \notin exited
  /\ React(pc, Settle(ready, w, "rejected"), Settle(completed, w, "rejected"),
           exited \cup {w}, given)
  /\ UNCHANGED <<seed, store, outcome, inbox, worker, work>>

\* workerReadyTimeoutMs have passed.
ReadyDeadline ==
  /\ pc = "ready"
  /\ expired' = expired \cup {"ready"}
  /\ EndBody
  /\ UNCHANGED <<seed, store, report, inbox, worker, work>>

\* Every start was sent: the completed promises get their handlers.
StartsSent ==
  /\ pc = "start"
  /\ pc' = AfterWork("completed", ready, completed)
  /\ awaited' = TRUE
  /\ UNCHANGED <<seed, store, outcome, started, promises,
                 inbox, worker, work>>

\* The channel to a worker is closed.
StartFails ==
  /\ pc = "start"
  /\ \E w \in Workers : worker[w] = "gone"
  /\ EndBody
  /\ UNCHANGED <<seed, store, outcome, inbox, worker, work>>

Verify ==
  /\ pc = "verify" /\ DatabaseUp
  /\ report' = IF Verified THEN "written" ELSE "mismatch"
  /\ EndBody
  /\ UNCHANGED <<seed, store, expired, inbox, worker, work>>

\* A second end() throws, and the container is stopped all the same.
EndPool ==
  /\ pc = "pool"
  /\ pool' = IF pool = "none" THEN "none" ELSE "ended"
  /\ Move("container")
  /\ UNCHANGED <<seed, events, container, outcome, inbox, worker, work>>

StopContainer ==
  /\ pc = "container"
  /\ container' = IF container = "none" THEN "none" ELSE "stopped"
  /\ Move("done")
  /\ UNCHANGED <<seed, events, pool, outcome, inbox, worker, work>>

\* The run's deadline: abortRun, unless cleanup has removed the listener.
RunDeadline ==
  /\ "run" \notin expired /\ pc \notin {"done", "crashed"}
  /\ expired' = expired \cup {"run"}
  /\ IF pc \in CleaningUp \cup {"database"}
     THEN UNCHANGED <<container, pool, timers, sigterm>>
     ELSE /\ container' = "stopping"
          /\ pool' = "ended"
          /\ timers' = timers \cup KillTimers(Forked \ exited, "abort")
          /\ sigterm' = sigterm \cup (Forked \ exited)
  /\ UNCHANGED <<seed, events, pc, report, started, awaited, ready, completed, exited,
                 given, inbox, worker, work>>

ContainerStops ==
  /\ container = "stopping"
  /\ container' = "stopped"
  /\ UNCHANGED <<seed, events, pool, coordinator, inbox, worker, work>>

\* SIGKILL.  The cleanup waits no longer for this worker's exit.
TimerFires(w, setter) ==
  /\ pc \notin {"done", "crashed"}
  /\ <<w, setter>> \in timers
  /\ worker' = [worker EXCEPT ![w] = "gone"]
  /\ IF setter = "cleanup"
     THEN React(pc, ready, completed, exited, given \cup {w})
     ELSE UNCHANGED <<pc, started, awaited, promises>>
  /\ UNCHANGED <<seed, store, outcome, inbox, work>>

-----------------------------------------------------------------------------
(* A worker.  A worker told to terminate may only finish what is running.  *)

Post(w, message) == inbox' = [inbox EXCEPT ![w] = Append(@, message)]
Become(w, state) == worker' = [worker EXCEPT ![w] = state]
Serving(w, state) == worker[w] = state /\ w \notin sigterm

unchangedByWorkers == <<seed, container, pool, coordinator>>

\* initialize
Initialize(w) ==
  /\ Serving(w, "boot") /\ container = "running"
  /\ Become(w, "idle") /\ Post(w, "ready")
  /\ UNCHANGED <<unchangedByWorkers, events, work>>

\* start is received.
Start(w) ==
  /\ Serving(w, "idle") /\ started
  /\ Become(w, "next")
  /\ UNCHANGED <<unchangedByWorkers, events, inbox, work>>

Count(w, fields) ==
  counters' = [counters EXCEPT ![w] =
    [f \in DOMAIN @ |-> @[f] + (IF f \in DOMAIN fields THEN fields[f] ELSE 0)]]

\* appendLiveOperation reads the version; the attempt of an operation counts once.
ReadVersion(w) ==
  /\ Serving(w, "next") /\ op[w] \in Operations /\ IsAppend(w, op[w])
  /\ container # "stopped"
  /\ seen' = [seen EXCEPT ![w] = Len(events[StreamOf(w, op[w])])]
  /\ Count(w, IF attempt[w] = 0 THEN [attempted |-> 1] ELSE <<>>)
  /\ Become(w, "append")
  /\ UNCHANGED <<unchangedByWorkers, events, inbox, op, attempt>>

\* loadOperation
LoadStream(w) ==
  /\ Serving(w, "next") /\ op[w] \in Operations /\ ~IsAppend(w, op[w])
  /\ container # "stopped"
  /\ Count(w, [loads |-> 1, loadsSucceeded |-> 1])
  /\ op' = [op EXCEPT ![w] = @ + 1]
  /\ UNCHANGED <<unchangedByWorkers, events, inbox, worker, attempt, seen>>

StoreEvents(w) ==
  events' = [events EXCEPT ![StreamOf(w, op[w])] = @ \o createLiveEvents(w, op[w])]

VersionMatches(w) == Len(events[StreamOf(w, op[w])]) = seen[w]

AppendEvents(w) ==
  /\ worker[w] = "append" /\ container # "stopped"
  /\ VersionMatches(w)
  /\ StoreEvents(w)
  /\ Count(w, [succeeded |-> 1, eventCount |-> appendBatchSize])
  /\ op' = [op EXCEPT ![w] = @ + 1]
  /\ attempt' = [attempt EXCEPT ![w] = 0]
  /\ Become(w, "next")
  /\ UNCHANGED <<unchangedByWorkers, inbox, seen>>

\* retryOnConcurrencyError
RetryConflict(w) ==
  /\ worker[w] = "append" /\ container # "stopped"
  /\ ~VersionMatches(w)
  /\ attempt[w] < maxRetries
  /\ attempt' = [attempt EXCEPT ![w] = @ + 1]
  /\ Become(w, "next")
  /\ UNCHANGED <<unchangedByWorkers, events, inbox, op, seen, counters>>

\* fail: the operation's error ends the worker.  One told to terminate is silent.
Fail(w) ==
  /\ Become(w, "closing")
  /\ IF w \in sigterm THEN UNCHANGED inbox ELSE Post(w, "failed")
  /\ UNCHANGED <<unchangedByWorkers, work>>

\* Mutant: an append is retried after any error.
LoseAnswer_Retried(w) ==
  /\ worker[w] = "append" /\ container # "stopped" /\ VersionMatches(w)
  /\ StoreEvents(w)
  /\ IF attempt[w] < maxRetries
     THEN /\ attempt' = [attempt EXCEPT ![w] = @ + 1]
          /\ Become(w, "next")
          /\ UNCHANGED <<unchangedByWorkers, inbox, op, seen, counters>>
     ELSE Fail(w)

\* The append is committed and its answer lost.
LoseAnswer(w) ==
  /\ worker[w] = "append" /\ container # "stopped" /\ VersionMatches(w)
  /\ StoreEvents(w)
  /\ Fail(w)

\* Setup or a statement fails, or the retries are used up.
OperationFails(w) ==
  /\ worker[w] \in {"boot", "next", "append"}
  /\ Fail(w)
  /\ UNCHANGED events

Complete(w) ==
  /\ worker[w] = "next" /\ op[w] \notin Operations
  /\ Become(w, "closing") /\ Post(w, "completed")
  /\ UNCHANGED <<unchangedByWorkers, events, work>>

\* The process ends: its channel is closed, after SIGTERM, or by a crash.
Exit(w) ==
  /\ worker[w] \notin {"none", "gone"}
  /\ Become(w, "gone")
  /\ UNCHANGED <<unchangedByWorkers, events, inbox, work>>

-----------------------------------------------------------------------------

Work(w) ==
  \/ Initialize(w) \/ Start(w) \/ ReadVersion(w) \/ LoadStream(w)
  \/ AppendEvents(w) \/ RetryConflict(w) \/ LoseAnswer(w) \/ OperationFails(w)
  \/ Complete(w)

Events ==
  \/ DatabaseStarts \/ DatabaseFails \/ SeedBatch \/ StartWorkers
  \/ StatementFails \/ StartsSent \/ StartFails \/ ReadyDeadline
  \/ Verify \/ EndPool \/ StopContainer
  \/ \E w \in Workers : Deliver(w) \/ ExitEvent(w)
  \/ \E w \in Workers, setter \in {"cleanup", "abort"} : TimerFires(w, setter)

\* The coordinator has ended.  Workers a crash leaves behind run on.
Ended == pc \in {"done", "crashed"} /\ UNCHANGED vars

Next ==
  \/ Events \/ RunDeadline \/ ContainerStops
  \/ \E w \in Workers : Work(w) \/ Exit(w)
  \/ Ended

Spec == Init /\ [][Next]_vars

\* The event loop turns, timers fire and statements end, by their timeout if not
\* otherwise.  Nothing makes a worker exit, or the run's deadline pass.
FairSpec ==
  /\ Spec
  /\ WF_vars(Events)
  /\ \A w \in Workers : WF_vars(Work(w))

-----------------------------------------------------------------------------
(* Properties.                                                             *)

\* A run whose workers have all completed verifies, whatever conflicts, retries
\* and lost answers it had: it reports no error that is not one.
VerificationAgrees == report # "mismatch"

\* No worker is still at work when the streams are read, so that their versions
\* and events belong together.
QuietWhileVerifying ==
  pc = "verify" => \A w \in Workers : worker[w] \in {"closing", "gone"}

NothingLeft ==
  /\ Forked \subseteq {w \in Workers : worker[w] = "gone"}
  /\ pool # "open"
  /\ container \in {"none", "stopped"}

\* A run that ends with its cleanup has left no process, pool or container behind,
\* whenever it failed and whoever did not answer.  A run ends without its cleanup only
\* when a completed promise is rejected before it has a handler (failWorker rejects
\* both promises, runWorkers awaits ready alone, the cleanup terminates all workers
\* first): one worker that fails meanwhile is enough, and all may be left.  Once
\* completion is awaited, or the cleanup is done with the workers, no failure can.
CleanupLeavesNothing ==
  /\ [](pc = "done" => NothingLeft)
  /\ [][pc # "crashed" /\ pc' = "crashed" =>
           pc \in {"ready", "start", "terminate", "settle"}]_vars

\* The run comes to an end even when workers ignore SIGTERM.
RunEnds == <>(pc \in {"done", "crashed"})
=============================================================================
