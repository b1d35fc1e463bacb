--------------------------- MODULE LoadRun_proofs --------------------------
(***************************************************************************)
(* The load test, for any number of workers, operations and streams, and   *)
(* any division of the operations among them.                              *)
(*                                                                         *)
(* The first part follows the coordinator and the processes: who runs when *)
(* the coordinator awaits what, and what its cleanup has waited for.  The  *)
(* second follows the streams and the counters through conflicts, retries  *)
(* and lost answers, and concludes that verification finds nothing wrong.  *)
(***************************************************************************)
EXTENDS LoadRun, FiniteSetTheorems, SequenceTheorems, WellFoundedInduction, TLAPS

Phases == {"database", "seed", "ready", "start", "completed", "verify",
           "terminate", "settle", "pool", "container", "done", "crashed"}
States == {"none", "boot", "idle", "next", "append", "closing", "gone"}
Messages == {"ready", "completed", "failed"}
Promises == [Workers -> {"pending", "resolved", "rejected"}]

-----------------------------------------------------------------------------
(* The coordinator and the processes.                                      *)

ProcessTypes ==
  /\ pc \in Phases
  /\ pool \in {"none", "open", "ended"}
  /\ container \in {"none", "running", "stopping", "stopped"}
  /\ ready \in Promises /\ completed \in Promises
  /\ exited \in SUBSET Workers /\ given \in SUBSET Workers
  /\ timers \in SUBSET (Workers \X {"cleanup", "abort"})
  /\ inbox \in [Workers -> Seq(Messages)]
  /\ worker \in [Workers -> States]

\* All workers are forked at once, when the streams are seeded.
ForkInv ==
  /\ pc \in {"database", "seed"} => Forked = {}
  /\ pc \in {"ready", "start", "completed", "verify"} => Forked = Workers
  /\ Forked = {} \/ Forked = Workers
  /\ \A t \in timers : t[1] \in Forked

Sent(w, message) == \E i \in 1..Len(inbox[w]) : inbox[w][i] = message
Finished(w) == completed[w] = "resolved" \/ Sent(w, "completed")

\* A worker that has reported its completion works no more.
CompletionInv ==
  /\ \A w \in Workers : Finished(w) => worker[w] \in {"closing", "gone"}
  /\ pc = "verify" => \A w \in Workers : completed[w] = "resolved"

\* The cleanup goes on when each worker has exited or was killed.
CleanupInv ==
  /\ \A w \in exited \cup given : worker[w] = "gone"
  /\ pc \in {"settle", "pool", "container", "done"} => Forked \subseteq exited \cup given
  /\ pc \in {"container", "done"} => pool # "open"
  /\ pc = "done" => container \in {"none", "stopped"}

ProcessInv == ProcessTypes /\ ForkInv /\ CompletionInv /\ CleanupInv

LEMMA InitProcesses == Init => ProcessInv
<1> SUFFICES ASSUME Init PROVE ProcessInv
  OBVIOUS
<1>1. ProcessTypes
  BY DEF Init, ProcessTypes, Phases, States, Promises
<1>2. Forked = {} /\ \A w \in Workers : inbox[w] = <<>> /\ completed[w] = "pending"
  BY DEF Init, Forked
<1>. QED BY <1>1, <1>2 DEF Init, ProcessInv, ForkInv, CompletionInv, Finished,
                            CleanupInv, Sent

\* What the coordinator comes to await after an event.
LEMMA ReactEffect ==
  ASSUME NEW p, NEW r, NEW c, NEW x, NEW g, React(p, r, c, x, g)
  PROVE  /\ pc' \in {p, "start", "terminate", "verify", "settle", "pool", "crashed"}
         /\ pc' = "start" => p \in {"ready", "start"}
         /\ pc' = "verify" => p = "verify" \/ All(c, "resolved")
         /\ pc' = "verify" => p \in {"completed", "verify"}
         /\ pc' \in {"settle", "pool"} =>
              p \in {"settle", "pool"} \/ Forked \subseteq x \cup g
         /\ ready' = r /\ completed' = c /\ exited' = x /\ given' = g
         /\ timers' \subseteq timers \cup (Forked \X {"cleanup"})
<1> DEFINE q == AfterWork(p, r, c)
           next == AfterCleanup(q, r, c, x \cup g)
<1>1. /\ q \in {p, "terminate", "start", "verify"}
      /\ q = "start" => p \in {"ready", "start"}
      /\ q = "verify" => p = "verify" \/ (p = "completed" /\ All(c, "resolved"))
  BY DEF AfterWork
<1>2. /\ next \in {q, "settle", "pool"}
      /\ next \in {"settle", "pool"} =>
           q \in {"settle", "pool"} \/ Forked \subseteq x \cup g
  BY DEF AfterCleanup
<1>3. pc' = next \/ pc' = "crashed"
  BY DEF React
<1>4. ready' = r /\ completed' = c /\ exited' = x /\ given' = g
  BY DEF React
<1>5. timers' \subseteq timers \cup (Forked \X {"cleanup"})
  <2>1. PICK K : /\ timers' = {t \in timers : t[1] \notin x} \cup K
                 /\ K = {} \X {"cleanup"} \/ K = (Forked \ x) \X {"cleanup"}
    BY DEF React, KillTimers
  <2>. QED BY <2>1
<1> HIDE DEF q, next
<1>. QED BY <1>1, <1>2, <1>3, <1>4, <1>5

LEMMA ReactStep ==
  ASSUME ProcessInv, NEW p, p = pc \/ p = "terminate",
         NEW r \in Promises, NEW c \in Promises,
         NEW x \in SUBSET Workers, NEW g \in SUBSET Workers,
         React(p, r, c, x, g),
         exited \subseteq x, given \subseteq g,
         inbox' \in [Workers -> Seq(Messages)], worker' \in [Workers -> States],
         Forked' = Forked, pool' = pool, container' = container,
         \A w \in Workers : completed[w] = "resolved" => c[w] = "resolved",
         \A w \in Workers : c[w] = "resolved" \/ Sent(w, "completed")'
                              => worker'[w] \in {"closing", "gone"},
         \A w \in x \cup g : worker'[w] = "gone"
  PROVE  ProcessInv'
<1>1. /\ pc' \in {p, "start", "terminate", "verify", "settle", "pool", "crashed"}
      /\ pc' = "start" => p \in {"ready", "start"}
      /\ pc' = "verify" => p = "verify" \/ All(c, "resolved")
      /\ pc' = "verify" => p \in {"completed", "verify"}
      /\ pc' \in {"settle", "pool"} =>
           p \in {"settle", "pool"} \/ Forked \subseteq x \cup g
      /\ ready' = r /\ completed' = c /\ exited' = x /\ given' = g
      /\ timers' \subseteq timers \cup (Forked \X {"cleanup"})
  BY ReactEffect
<1>2. Forked \subseteq Workers
  BY DEF Forked
<1>3. ProcessTypes'
  BY <1>1, <1>2 DEF ProcessInv, ProcessTypes, Phases
<1>4. ForkInv'
  <2>1. \A t \in timers' : t[1] \in Forked
    BY <1>1 DEF ProcessInv, ForkInv
  <2>2. pc' \in {"database", "seed"} => Forked = {}
    BY <1>1 DEF ProcessInv, ForkInv
  <2>3. pc' \in {"ready", "start", "completed", "verify"} => Forked = Workers
    BY <1>1 DEF ProcessInv, ForkInv
  <2>. QED BY <2>1, <2>2, <2>3 DEF ProcessInv, ForkInv
<1>5. CompletionInv'
  <2>1. pc' = "verify" => \A w \in Workers : c[w] = "resolved"
    <3>1. pc' = "verify" => Forked = Workers
      BY <1>4 DEF ForkInv
    <3>. QED BY <1>1, <3>1 DEF ProcessInv, CompletionInv, Finished, All
  <2>. QED BY <1>1, <2>1 DEF CompletionInv, Finished
<1>6. CleanupInv'
  <2>1. pc' \in {"settle", "pool", "container", "done"} => Forked \subseteq x \cup g
    BY <1>1 DEF ProcessInv, CleanupInv
  <2>2. pc' \in {"container", "done"} => pc = pc'
    BY <1>1
  <2>. QED BY <1>1, <2>1, <2>2 DEF ProcessInv, CleanupInv
<1>. QED BY <1>3, <1>4, <1>5, <1>6 DEF ProcessInv

\* The steps of a worker, as the coordinator sees them.
LEMMA WorkerEffect ==
  ASSUME ProcessTypes, NEW w \in Workers, Work(w) \/ Exit(w)
  PROVE  /\ UNCHANGED unchangedByWorkers
         /\ worker[w] \notin {"none", "gone"}
         /\ \E state \in States \ {"none"} :
              /\ worker' = [worker EXCEPT ![w] = state]
              /\ worker[w] = "closing" => state = "gone"
              /\ \/ inbox' = inbox
                 \/ \E m \in Messages :
                      /\ inbox' = [inbox EXCEPT ![w] = Append(@, m)]
                      /\ m = "completed" => state = "closing" /\ Complete(w)
<1> USE DEF Become, Post, Serving, States, Messages
<1>1. CASE Initialize(w)
  BY <1>1 DEF Initialize
<1>2. CASE Start(w)
  BY <1>2 DEF Start
<1>3. CASE ReadVersion(w)
  BY <1>3 DEF ReadVersion
<1>4. CASE LoadStream(w)
  <2>1. worker[w] = "next" /\ worker' = worker /\ worker' = [worker EXCEPT ![w] = "next"]
    BY <1>4 DEF LoadStream, ProcessTypes
  <2>. QED BY <1>4, <2>1 DEF LoadStream
<1>5. CASE AppendEvents(w)
  BY <1>5 DEF AppendEvents
<1>6. CASE RetryConflict(w)
  BY <1>6 DEF RetryConflict
<1>7. ASSUME Fail(w), worker[w] \notin {"none", "gone", "closing"}
      PROVE  /\ UNCHANGED unchangedByWorkers
             /\ worker' = [worker EXCEPT ![w] = "closing"]
             /\ inbox' = inbox \/ inbox' = [inbox EXCEPT ![w] = Append(@, "failed")]
  BY <1>7 DEF Fail
<1>8. CASE LoseAnswer(w)
  <2>1. Fail(w) /\ worker[w] \notin {"none", "gone", "closing"}
    BY <1>8 DEF LoseAnswer
  <2>. QED BY <1>7, <2>1
<1>9. CASE OperationFails(w)
  <2>1. Fail(w) /\ worker[w] \notin {"none", "gone", "closing"}
    BY <1>9 DEF OperationFails
  <2>. QED BY <1>7, <2>1
<1>10. CASE Complete(w)
  BY <1>10 DEF Complete
<1>11. CASE Exit(w)
  BY <1>11 DEF Exit
<1>. QED BY <1>1, <1>2, <1>3, <1>4, <1>5, <1>6, <1>8, <1>9, <1>10, <1>11 DEF Work

LEMMA WorkerSends ==
  ASSUME ProcessTypes, NEW w \in Workers, Work(w) \/ Exit(w),
         NEW v \in Workers, Sent(v, "completed")'
  PROVE  Sent(v, "completed") \/ (v = w /\ worker'[w] = "closing" /\ Complete(w))
<1>1. PICK state \in States \ {"none"} :
        /\ worker' = [worker EXCEPT ![w] = state]
        /\ \/ inbox' = inbox
           \/ \E m \in Messages : /\ inbox' = [inbox EXCEPT ![w] = Append(@, m)]
                                  /\ m = "completed" => state = "closing" /\ Complete(w)
  BY WorkerEffect
<1>2. CASE inbox' = inbox
  BY <1>2 DEF Sent
<1>3. ASSUME NEW m \in Messages, inbox' = [inbox EXCEPT ![w] = Append(@, m)],
             m = "completed" => state = "closing" /\ Complete(w)
      PROVE  Sent(v, "completed") \/ (v = w /\ worker'[w] = "closing" /\ Complete(w))
  <2>1. inbox[w] \in Seq(Messages)
    BY DEF ProcessTypes
  <2>2. PICK i \in 1..Len(inbox'[v]) : inbox'[v][i] = "completed"
    BY DEF Sent
  <2>3. CASE v = w
    <3>1. inbox'[w] = Append(inbox[w], m) /\ worker'[w] = state
      BY <1>1, <1>3 DEF ProcessTypes
    <3>2. Len(inbox'[w]) = Len(inbox[w]) + 1 /\ Len(inbox[w]) \in Nat
      BY <2>1, <3>1
    <3>3. i = Len(inbox[w]) + 1 => inbox'[w][i] = m
      BY <2>1, <3>1
    <3>4. i # Len(inbox[w]) + 1 => i \in 1..Len(inbox[w]) /\ inbox'[w][i] = inbox[w][i]
      BY <2>1, <2>2, <2>3, <3>1, <3>2
    <3>. QED BY <1>3, <2>2, <2>3, <3>1, <3>3, <3>4 DEF Sent
  <2>4. CASE v # w
    <3>1. inbox'[v] = inbox[v]
      BY <1>3, <2>4 DEF ProcessTypes
    <3>. QED BY <2>2, <3>1 DEF Sent
  <2>. QED BY <2>3, <2>4
<1>. QED BY <1>1, <1>2, <1>3

LEMMA WorkerStep ==
  ASSUME ProcessInv, NEW w \in Workers, Work(w) \/ Exit(w)
  PROVE  ProcessInv'
<1>0. ProcessTypes
  BY DEF ProcessInv
<1>1. PICK state \in States \ {"none"} :
        /\ UNCHANGED unchangedByWorkers
        /\ worker[w] \notin {"none", "gone"}
        /\ worker' = [worker EXCEPT ![w] = state]
        /\ worker[w] = "closing" => state = "gone"
        /\ \/ inbox' = inbox
           \/ \E m \in Messages : inbox' = [inbox EXCEPT ![w] = Append(@, m)]
  BY <1>0, WorkerEffect
<1>2. /\ worker' \in [Workers -> States]
      /\ worker'[w] = state /\ \A v \in Workers \ {w} : worker'[v] = worker[v]
  BY <1>0, <1>1 DEF ProcessTypes
<1>3. /\ pc' = pc /\ pool' = pool /\ container' = container /\ timers' = timers
      /\ ready' = ready /\ completed' = completed
      /\ exited' = exited /\ given' = given
  BY <1>1 DEF unchangedByWorkers, coordinator, promises
<1>4. inbox' \in [Workers -> Seq(Messages)]
  <2>1. ASSUME NEW m \in Messages PROVE Append(inbox[w], m) \in Seq(Messages)
    BY <1>0 DEF ProcessTypes
  <2>. QED BY <1>0, <1>1, <2>1 DEF ProcessTypes
<1>5. ASSUME NEW v \in Workers, Sent(v, "completed")'
      PROVE  Sent(v, "completed") \/ (v = w /\ state = "closing")
  BY <1>0, <1>2, <1>5, WorkerSends
<1>6. Forked' = Forked
  BY <1>1, <1>2 DEF Forked
<1>7. ProcessTypes'
  BY <1>0, <1>2, <1>3, <1>4 DEF ProcessTypes
<1>8. ForkInv'
  BY <1>3, <1>6 DEF ProcessInv, ForkInv
<1>9. CompletionInv'
  <2>1. ASSUME NEW v \in Workers, worker[v] \in {"closing", "gone"}
        PROVE  worker'[v] \in {"closing", "gone"}
    BY <1>1, <1>2, <2>1
  <2>2. ASSUME NEW v \in Workers, completed[v] = "resolved" \/ Sent(v, "completed")'
        PROVE  worker'[v] \in {"closing", "gone"}
    BY <1>2, <1>5, <2>1, <2>2 DEF ProcessInv, CompletionInv, Finished
  <2>. QED BY <1>3, <2>2 DEF ProcessInv, CompletionInv, Finished
<1>10. CleanupInv'
  <2>1. w \notin exited \cup given
    BY <1>1 DEF ProcessInv, CleanupInv
  <2>2. exited \cup given \subseteq Workers
    BY <1>0 DEF ProcessTypes
  <2>. QED BY <1>2, <1>3, <1>6, <2>1, <2>2 DEF ProcessInv, CleanupInv
<1>. QED BY <1>7, <1>8, <1>9, <1>10 DEF ProcessInv

\* A message from a worker.
LEMMA DeliverEffect ==
  ASSUME ProcessTypes, NEW w \in Workers, Deliver(w)
  PROVE  /\ \E r, c \in Promises :
              /\ React(pc, r, c, exited, given)
              /\ \A v \in Workers : completed[v] = "resolved" => c[v] = "resolved"
              /\ \A v \in Workers : c[v] = "resolved" => Finished(v)
         /\ \A v \in Workers : Sent(v, "completed")' => Sent(v, "completed")
         /\ inbox' \in [Workers -> Seq(Messages)]
<1>1. PICK r \in Promises, c \in Promises :
        /\ React(pc, r, c, exited, given)
        /\ \A v \in Workers \ {w} : c[v] = completed[v]
        /\ completed[w] # "pending" => c[w] = completed[w]
        /\ c[w] = "resolved" => completed[w] = "resolved" \/ Head(inbox[w]) = "completed"
  <2>1. CASE Head(inbox[w]) = "ready"
    <3>1. React(pc, Settle(ready, w, "resolved"), completed, exited, given)
      BY <2>1 DEF Deliver
    <3>2. Settle(ready, w, "resolved") \in Promises /\ completed \in Promises
      BY DEF Settle, ProcessTypes, Promises
    <3>. QED BY <3>1, <3>2
  <2>2. CASE Head(inbox[w]) = "completed"
    <3> DEFINE c == Settle(completed, w, "resolved")
    <3>1. React(pc, ready, c, exited, given)
      BY <2>2 DEF Deliver
    <3>2. /\ ready \in Promises /\ c \in Promises
          /\ \A v \in Workers \ {w} : c[v] = completed[v]
          /\ completed[w] # "pending" => c[w] = completed[w]
      BY DEF Settle, ProcessTypes, Promises
    <3> HIDE DEF c
    <3>. QED BY <2>2, <3>1, <3>2
  <2>3. CASE Head(inbox[w]) = "failed"
    <3> DEFINE r == Settle(ready, w, "rejected")
               c == Settle(completed, w, "rejected")
    <3>1. React(pc, r, c, exited, given)
      BY <2>3 DEF Deliver
    <3>2. /\ r \in Promises /\ c \in Promises
          /\ \A v \in Workers \ {w} : c[v] = completed[v]
          /\ completed[w] # "pending" => c[w] = completed[w]
          /\ c[w] = "resolved" => completed[w] = "resolved"
      BY DEF Settle, ProcessTypes, Promises
    <3> HIDE DEF r, c
    <3>. QED BY <3>1, <3>2
  <2>4. Head(inbox[w]) \in Messages
    <3>1. inbox[w] \in Seq(Messages) /\ inbox[w] # <<>>
      BY DEF ProcessTypes, Deliver
    <3>. QED BY <3>1
  <2>. QED BY <2>1, <2>2, <2>3, <2>4 DEF Messages
<1>2. /\ inbox' = [inbox EXCEPT ![w] = Tail(inbox[w])]
      /\ inbox[w] \in Seq(Messages) /\ inbox[w] # <<>>
  BY DEF Deliver, ProcessTypes
<1>3. /\ Tail(inbox[w]) \in Seq(Messages) /\ Len(inbox[w]) \in Nat \ {0}
      /\ Len(Tail(inbox[w])) = Len(inbox[w]) - 1
      /\ \A i \in 1..Len(Tail(inbox[w])) : Tail(inbox[w])[i] = inbox[w][i + 1]
      /\ Head(inbox[w]) = inbox[w][1]
  BY <1>2
<1>4. ASSUME NEW v \in Workers, Sent(v, "completed")' PROVE Sent(v, "completed")
  <2>1. CASE v = w
    <3>1. PICK i \in 1..Len(Tail(inbox[w])) : Tail(inbox[w])[i] = "completed"
      BY <1>2, <1>4, <2>1 DEF Sent, ProcessTypes
    <3>2. i + 1 \in 1..Len(inbox[w]) /\ inbox[w][i + 1] = "completed"
      BY <1>3, <3>1
    <3>. QED BY <2>1, <3>2 DEF Sent
  <2>2. CASE v # w
    BY <1>2, <1>4, <2>2 DEF Sent, ProcessTypes
  <2>. QED BY <2>1, <2>2
<1>5. Head(inbox[w]) = "completed" => Sent(w, "completed")
  BY <1>3 DEF Sent
<1>6. inbox' \in [Workers -> Seq(Messages)]
  BY <1>2, <1>3 DEF ProcessTypes
<1>7. /\ \A v \in Workers : completed[v] = "resolved" => c[v] = "resolved"
      /\ \A v \in Workers : c[v] = "resolved" => Finished(v)
  BY <1>1, <1>5 DEF Finished
<1>. QED BY <1>1, <1>4, <1>6, <1>7

LEMMA DeliverStep ==
  ASSUME ProcessInv, NEW w \in Workers, Deliver(w)
  PROVE  ProcessInv'
<1>0. ProcessTypes
  BY DEF ProcessInv
<1>1. PICK r \in Promises, c \in Promises :
        /\ React(pc, r, c, exited, given)
        /\ \A v \in Workers : completed[v] = "resolved" => c[v] = "resolved"
        /\ \A v \in Workers : c[v] = "resolved" => Finished(v)
  BY <1>0, DeliverEffect
<1>2. worker' = worker /\ pool' = pool /\ container' = container
  BY DEF Deliver, store
<1>3. Forked' = Forked
  BY <1>2 DEF Forked
<1>4. /\ inbox' \in [Workers -> Seq(Messages)]
      /\ \A v \in Workers : Sent(v, "completed")' => Sent(v, "completed")
  BY <1>0, DeliverEffect
<1>5. \A v \in Workers : c[v] = "resolved" \/ Sent(v, "completed")'
                           => worker'[v] \in {"closing", "gone"}
  BY <1>1, <1>2, <1>4 DEF ProcessInv, CompletionInv, Finished
<1>6. /\ exited \in SUBSET Workers /\ given \in SUBSET Workers
      /\ worker' \in [Workers -> States]
      /\ \A v \in exited \cup given : worker'[v] = "gone"
  BY <1>0, <1>2 DEF ProcessTypes, ProcessInv, CleanupInv
<1>. QED BY <1>1, <1>2, <1>3, <1>4, <1>5, <1>6, ReactStep

\* The exit of a worker.
LEMMA ExitEventStep ==
  ASSUME ProcessInv, NEW w \in Workers, ExitEvent(w)
  PROVE  ProcessInv'
<1> DEFINE r == Settle(ready, w, "rejected")
           c == Settle(completed, w, "rejected")
           x == exited \cup {w}
<1>0. ProcessTypes
  BY DEF ProcessInv
<1>1. React(pc, r, c, x, given) /\ worker[w] = "gone"
  BY DEF ExitEvent
<1>2. /\ r \in Promises /\ c \in Promises
      /\ \A v \in Workers : completed[v] = "resolved" => c[v] = "resolved"
      /\ \A v \in Workers : c[v] = "resolved" => completed[v] = "resolved"
  BY <1>0 DEF Settle, ProcessTypes, Promises
<1>3. /\ worker' = worker /\ pool' = pool /\ container' = container /\ inbox' = inbox
  BY DEF ExitEvent, store
<1>4. Forked' = Forked
  BY <1>3 DEF Forked
<1>5. /\ x \in SUBSET Workers /\ given \in SUBSET Workers
      /\ exited \subseteq x /\ given \subseteq given
      /\ worker' \in [Workers -> States] /\ inbox' \in [Workers -> Seq(Messages)]
      /\ \A v \in x \cup given : worker'[v] = "gone"
  BY <1>0, <1>1, <1>3 DEF ProcessTypes, ProcessInv, CleanupInv
<1>6. \A v \in Workers : c[v] = "resolved" \/ Sent(v, "completed")'
                           => worker'[v] \in {"closing", "gone"}
  BY <1>2, <1>3 DEF ProcessInv, CompletionInv, Finished, Sent
<1> HIDE DEF r, c, x
<1>. QED BY <1>1, <1>2, <1>3, <1>4, <1>5, <1>6, ReactStep

\* A SIGKILL timer.
LEMMA TimerStep ==
  ASSUME ProcessInv, NEW w \in Workers, NEW setter \in {"cleanup", "abort"},
         TimerFires(w, setter)
  PROVE  ProcessInv'
<1>0. ProcessTypes
  BY DEF ProcessInv
<1>1. /\ worker' = [worker EXCEPT ![w] = "gone"] /\ worker[w] # "none"
      /\ pool' = pool /\ container' = container /\ inbox' = inbox
  BY DEF TimerFires, store, ProcessInv, ForkInv, Forked
<1>2. /\ worker' \in [Workers -> States] /\ worker'[w] = "gone"
      /\ \A v \in Workers \ {w} : worker'[v] = worker[v]
  BY <1>0, <1>1 DEF ProcessTypes, States
<1>3. Forked' = Forked
  BY <1>1, <1>2 DEF Forked
<1>4. \A v \in Workers : completed[v] = "resolved" \/ Sent(v, "completed")'
                           => worker'[v] \in {"closing", "gone"}
  BY <1>1, <1>2 DEF ProcessInv, CompletionInv, Finished, Sent
<1>5. \A v \in exited \cup given \cup {w} : worker'[v] = "gone"
  BY <1>0, <1>2 DEF ProcessTypes, ProcessInv, CleanupInv
<1>6. CASE setter = "cleanup"
  <2>1. React(pc, ready, completed, exited, given \cup {w})
    BY <1>6 DEF TimerFires
  <2>2. /\ exited \in SUBSET Workers /\ given \cup {w} \in SUBSET Workers
        /\ ready \in Promises /\ completed \in Promises
        /\ given \subseteq given \cup {w}
        /\ inbox' \in [Workers -> Seq(Messages)]
        /\ \A v \in exited \cup (given \cup {w}) : worker'[v] = "gone"
    BY <1>0, <1>1, <1>5 DEF ProcessTypes
  <2>3. ASSUME NEW g, g = given \cup {w} PROVE ProcessInv'
    BY <1>1, <1>2, <1>3, <1>4, <2>1, <2>2, <2>3, ReactStep
  <2>. QED BY <2>3
<1>7. CASE setter # "cleanup"
  <2>1. UNCHANGED <<pc, started, awaited, promises>>
    BY <1>7 DEF TimerFires
  <2>2. ProcessTypes'
    BY <1>0, <1>1, <1>2, <2>1 DEF ProcessTypes, promises
  <2>3. ForkInv' /\ CompletionInv' /\ CleanupInv'
    BY <1>1, <1>2, <1>3, <1>4, <1>5, <2>1
       DEF ProcessInv, ForkInv, CompletionInv, Finished, CleanupInv, promises
  <2>. QED BY <2>2, <2>3 DEF ProcessInv
<1>. QED BY <1>6, <1>7

\* The body ends, whether it throws or returns.
LEMMA EndStep ==
  ASSUME ProcessInv, EndBody, UNCHANGED <<store, inbox, worker>>
  PROVE  ProcessInv'
<1>0. ProcessTypes
  BY DEF ProcessInv
<1>1. React("terminate", ready, completed, exited, given)
  BY DEF EndBody
<1>2. /\ pool' = pool /\ container' = container /\ inbox' = inbox /\ worker' = worker
  BY DEF store
<1>3. Forked' = Forked
  BY <1>2 DEF Forked
<1>4. /\ \A v \in Workers : completed[v] = "resolved" \/ Sent(v, "completed")'
                             => worker'[v] \in {"closing", "gone"}
      /\ \A v \in exited \cup given : worker'[v] = "gone"
  BY <1>2 DEF ProcessInv, CompletionInv, Finished, CleanupInv, Sent
<1>5. /\ exited \in SUBSET Workers /\ given \in SUBSET Workers
      /\ ready \in Promises /\ completed \in Promises
      /\ inbox' \in [Workers -> Seq(Messages)] /\ worker' \in [Workers -> States]
  BY <1>0, <1>2 DEF ProcessTypes
<1>. QED BY <1>1, <1>2, <1>3, <1>4, <1>5, ReactStep

LEMMA EventsStep ==
  ASSUME ProcessInv, Events
  PROVE  ProcessInv'
<1>0. ProcessTypes
  BY DEF ProcessInv
<1> USE DEF Move, promises, store, outcome, Sent
<1>1. CASE DatabaseStarts
  <2>1. ProcessTypes'
    BY <1>0, <1>1 DEF DatabaseStarts, ProcessTypes, Phases
  <2>2. ForkInv' /\ CompletionInv' /\ CleanupInv'
    BY <1>1 DEF DatabaseStarts, ProcessInv, ForkInv, Forked,
                 CompletionInv, Finished, CleanupInv
  <2>. QED BY <2>1, <2>2 DEF ProcessInv
<1>2. CASE DatabaseFails
  BY <1>2, EndStep DEF DatabaseFails
<1>3. CASE SeedBatch
  BY <1>3 DEF SeedBatch, coordinator, ProcessInv, ProcessTypes, ForkInv, Forked,
              CompletionInv, Finished, CleanupInv
<1>4. CASE StartWorkers
  <2>1. /\ pc = "seed" /\ pc' = "ready"
        /\ worker' = [w \in Workers |-> "boot"]
        /\ UNCHANGED <<ready, completed, exited, given, timers, inbox, pool, container>>
    BY <1>4 DEF StartWorkers
  <2>2. \A w \in Workers : worker[w] = "none"
    BY <2>1 DEF ProcessInv, ForkInv, Forked
  <2>3. Forked' = Workers
    BY <2>1 DEF Forked
  <2>4. ProcessTypes'
    BY <1>0, <2>1 DEF ProcessTypes, Phases, States
  <2>5. ForkInv'
    BY <2>1, <2>3 DEF ProcessInv, ForkInv, Forked
  <2>6. exited = {} /\ given = {}
    BY <1>0, <2>2 DEF ProcessInv, CleanupInv, ProcessTypes
  <2>7. CompletionInv' /\ CleanupInv'
    BY <2>1, <2>2, <2>6 DEF ProcessInv, CompletionInv, Finished, CleanupInv
  <2>. QED BY <2>4, <2>5, <2>7 DEF ProcessInv
<1>5. CASE StatementFails
  BY <1>5, EndStep DEF StatementFails
<1>6. CASE StartsSent
  <2>1. /\ pc = "start" /\ pc' = AfterWork("completed", ready, completed)
        /\ UNCHANGED <<ready, completed, exited, given, timers, inbox, pool, container,
                       worker>>
    BY <1>6 DEF StartsSent
  <2>2. pc' \in {"terminate", "verify", "completed"}
    BY <2>1 DEF AfterWork
  <2>3. pc' = "verify" => All(completed, "resolved")
    BY <2>1 DEF AfterWork
  <2>4. Forked = Workers /\ Forked' = Workers
    BY <2>1 DEF ProcessInv, ForkInv, Forked
  <2>5. ProcessTypes'
    BY <1>0, <2>1, <2>2 DEF ProcessTypes, Phases
  <2>6. ForkInv' /\ CompletionInv' /\ CleanupInv'
    BY <2>1, <2>2, <2>3, <2>4
       DEF ProcessInv, ForkInv, CompletionInv, Finished, CleanupInv, All
  <2>. QED BY <2>5, <2>6 DEF ProcessInv
<1>7. CASE StartFails
  BY <1>7, EndStep DEF StartFails
<1>8. CASE ReadyDeadline
  BY <1>8, EndStep DEF ReadyDeadline
<1>9. CASE Verify
  BY <1>9, EndStep DEF Verify
<1>10. CASE EndPool
  <2>1. ProcessTypes'
    BY <1>0, <1>10 DEF EndPool, ProcessTypes, Phases
  <2>2. ForkInv' /\ CompletionInv' /\ CleanupInv'
    BY <1>10 DEF EndPool, ProcessInv, ForkInv, Forked,
                 CompletionInv, Finished, CleanupInv
  <2>. QED BY <2>1, <2>2 DEF ProcessInv
<1>11. CASE StopContainer
  <2>1. ProcessTypes'
    BY <1>0, <1>11 DEF StopContainer, ProcessTypes, Phases
  <2>2. ForkInv' /\ CompletionInv' /\ CleanupInv'
    BY <1>11 DEF StopContainer, ProcessInv, ForkInv, Forked,
                 CompletionInv, Finished, CleanupInv
  <2>. QED BY <2>1, <2>2 DEF ProcessInv
<1>. QED BY <1>1, <1>2, <1>3, <1>4, <1>5, <1>6, <1>7, <1>8, <1>9, <1>10, <1>11,
            DeliverStep, ExitEventStep, TimerStep DEF Events

LEMMA DeadlineStep ==
  ASSUME ProcessInv, RunDeadline
  PROVE  ProcessInv'
<1>0. ProcessTypes
  BY DEF ProcessInv
<1>1. UNCHANGED <<pc, ready, completed, exited, given, inbox, worker>>
  BY DEF RunDeadline
<1>2. \/ UNCHANGED <<container, pool, timers>>
      \/ /\ pc \notin CleaningUp \cup {"database"}
         /\ container' = "stopping" /\ pool' = "ended"
         /\ timers' = timers \cup ((Forked \ exited) \X {"abort"})
  BY DEF RunDeadline, KillTimers
<1>3. Forked' = Forked /\ Forked \subseteq Workers
  BY <1>1 DEF Forked
<1>4. ProcessTypes'
  BY <1>0, <1>1, <1>2, <1>3 DEF ProcessTypes
<1>5. ForkInv'
  BY <1>1, <1>2, <1>3 DEF ProcessInv, ForkInv
<1>6. CompletionInv' /\ CleanupInv'
  BY <1>1, <1>2, <1>3
     DEF ProcessInv, CompletionInv, Finished, CleanupInv, CleaningUp, Sent
<1>. QED BY <1>4, <1>5, <1>6 DEF ProcessInv

LEMMA NextProcesses == ProcessInv /\ [Next]_vars => ProcessInv'
<1> SUFFICES ASSUME ProcessInv, [Next]_vars PROVE ProcessInv'
  OBVIOUS
<1>1. CASE ContainerStops
  BY <1>1 DEF ContainerStops, coordinator, promises, ProcessInv, ProcessTypes, ForkInv,
              Forked, CompletionInv, Finished, CleanupInv, Sent
<1>2. CASE UNCHANGED vars
  BY <1>2 DEF vars, store, coordinator, promises, ProcessInv, ProcessTypes, ForkInv,
              Forked, CompletionInv, Finished, CleanupInv, Sent
<1>. QED BY <1>1, <1>2, EventsStep, DeadlineStep, WorkerStep DEF Next, Ended

LEMMA Processes == Spec => []ProcessInv
<1>. QED BY InitProcesses, NextProcesses, PTL DEF Spec

\* The streams are read when every worker has reported its completion and works no
\* more: verify in runLoadTest runs after runWorkers has awaited them all.
THEOREM NoWorkWhileVerifying == Spec => []QuietWhileVerifying
<1>1. ProcessInv => QuietWhileVerifying
  BY DEF ProcessInv, CompletionInv, Finished, QuietWhileVerifying
<1>. QED BY <1>1, Processes, PTL

\* From then on a rejection of a completed promise has its handler.
HandlerInv ==
  /\ awaited \in BOOLEAN
  /\ pc \in {"completed", "verify", "pool", "container", "done"} => awaited

\* The phases in which it may have none.
Unhandled == {"ready", "start", "terminate", "settle"}

Crash == pc # "crashed" /\ pc' = "crashed"

LEMMA ReactHandles ==
  ASSUME ProcessInv, HandlerInv, NEW p, p = pc \/ p = "terminate",
         NEW r, NEW c, NEW x, NEW g, React(p, r, c, x, g)
  PROVE  HandlerInv' /\ (Crash => pc \in Unhandled)
<1> DEFINE q == AfterWork(p, r, c)
           next == AfterCleanup(q, r, c, x \cup g)
           handled == awaited \/ /\ next \in {"settle", "pool"}
                                 /\ \A w \in Forked : r[w] # "pending"
<1>1. /\ q \in {p, "terminate", "start", "verify"}
      /\ q = "verify" => p \in {"verify", "completed"}
  BY DEF AfterWork
<1>2. /\ next \in {q, "settle", "pool"}
      /\ next = "pool" => q = "pool" \/ \A w \in Forked : r[w] # "pending"
  BY DEF AfterCleanup
<1>3. /\ awaited' = handled
      /\ pc' = next \/ (pc' = "crashed" /\ Some(c, "rejected") /\ ~handled)
  BY DEF React
<1>4. handled \in BOOLEAN /\ (~handled => ~awaited)
  OBVIOUS
<1> HIDE DEF q, next
<1>5. next \in {"completed", "verify", "pool", "container", "done"} => handled
  BY <1>1, <1>2 DEF HandlerInv
<1>6. HandlerInv'
  BY <1>3, <1>4, <1>5 DEF HandlerInv
<1>7. ASSUME Crash PROVE pc \in Unhandled
  <2>1. pc \in Phases /\ pc # "crashed"
    BY <1>7 DEF Crash, ProcessInv, ProcessTypes
  <2>2. next = "crashed" => p = "crashed"
    BY <1>1, <1>2
  <2>3. Some(c, "rejected") /\ ~awaited
    <3>1. pc' # next
      BY <1>7, <2>1, <2>2 DEF Crash
    <3>. QED BY <1>3, <1>4, <3>1
  <2>4. pc \notin {"database", "seed"}
    BY <2>3 DEF Some, ProcessInv, ForkInv
  <2>. QED BY <2>1, <2>3, <2>4 DEF HandlerInv, Phases, Unhandled
<1>. QED BY <1>6, <1>7

LEMMA InitHandlers == Init => HandlerInv
BY DEF Init, HandlerInv

LEMMA NextHandlers ==
  ASSUME ProcessInv, HandlerInv, [Next]_vars
  PROVE  HandlerInv' /\ (Crash => pc \in Unhandled)
<1>1. ASSUME EndBody PROVE HandlerInv' /\ (Crash => pc \in Unhandled)
  BY <1>1, ReactHandles DEF EndBody
<1>2. CASE DatabaseFails \/ StatementFails \/ ReadyDeadline \/ StartFails \/ Verify
  BY <1>1, <1>2 DEF DatabaseFails, StatementFails, ReadyDeadline, StartFails, Verify
<1>3. CASE DatabaseStarts \/ StartWorkers \/ EndPool \/ StopContainer
  BY <1>3 DEF DatabaseStarts, StartWorkers, EndPool, StopContainer, Move, HandlerInv, Crash
<1>4. CASE StartsSent
  <2>1. awaited' = TRUE /\ pc' # "crashed"
    BY <1>4 DEF StartsSent, AfterWork
  <2>. QED BY <2>1 DEF HandlerInv, Crash
<1>5. ASSUME NEW w \in Workers, Deliver(w)
      PROVE  HandlerInv' /\ (Crash => pc \in Unhandled)
  <2>1. \E r, c \in Promises : React(pc, r, c, exited, given)
    BY <1>5, DeliverEffect DEF ProcessInv
  <2>. QED BY <2>1, ReactHandles
<1>6. ASSUME NEW w \in Workers, ExitEvent(w)
      PROVE  HandlerInv' /\ (Crash => pc \in Unhandled)
  BY <1>6, ReactHandles DEF ExitEvent
<1>7. ASSUME NEW w \in Workers, NEW setter \in {"cleanup", "abort"}, TimerFires(w, setter)
      PROVE  HandlerInv' /\ (Crash => pc \in Unhandled)
  <2>1. \/ React(pc, ready, completed, exited, given \cup {w})
        \/ UNCHANGED <<pc, awaited>>
    BY <1>7 DEF TimerFires
  <2>. QED BY <2>1, ReactHandles DEF HandlerInv, Crash
<1>8. ASSUME UNCHANGED <<pc, awaited>> PROVE HandlerInv' /\ (Crash => pc \in Unhandled)
  BY <1>8 DEF HandlerInv, Crash
<1>9. CASE SeedBatch \/ RunDeadline \/ ContainerStops \/ UNCHANGED vars
  BY <1>8, <1>9 DEF SeedBatch, RunDeadline, ContainerStops, coordinator, vars
<1>10. ASSUME NEW w \in Workers, Work(w) \/ Exit(w) PROVE UNCHANGED <<pc, awaited>>
  BY <1>10, WorkerEffect DEF ProcessInv, unchangedByWorkers, coordinator
<1>. QED BY <1>2, <1>3, <1>4, <1>5, <1>6, <1>7, <1>8, <1>9, <1>10 DEF Next, Events, Ended

\* A run that ends with its cleanup has left no worker, open pool or container behind,
\* whatever has failed before: cleanupLoadRun waits for each worker's exit or for the
\* SIGKILL it has sent.  A run ends without it only while the workers become ready, are
\* started or are terminated, before their completed promises have handlers.
THEOREM CleanupIsComplete == Spec => CleanupLeavesNothing
<1>1. ProcessInv => (pc = "done" => NothingLeft)
  <2> SUFFICES ASSUME ProcessInv, pc = "done" PROVE NothingLeft
    OBVIOUS
  <2>1. Forked \subseteq exited \cup given /\ Forked \subseteq Workers
    BY DEF ProcessInv, CleanupInv, Forked
  <2>. QED BY <2>1 DEF ProcessInv, CleanupInv, NothingLeft
<1> DEFINE Dies == pc # "crashed" /\ pc' = "crashed" =>
                     pc \in {"ready", "start", "terminate", "settle"}
<1>2. ProcessInv /\ HandlerInv /\ [Next]_vars => [Dies]_vars
  BY NextHandlers DEF Crash, Unhandled
<1>3. ProcessInv /\ HandlerInv /\ [Next]_vars => HandlerInv'
  BY NextHandlers
<1>. QED BY <1>1, <1>2, <1>3, InitHandlers, Processes, PTL DEF Spec, CleanupLeavesNothing

\* What the steps of the coordinator leave alone.
LEMMA CoordinatorEffect ==
  ASSUME ProcessInv, Events \/ RunDeadline \/ ContainerStops
  PROVE  /\ seed' = seed /\ UNCHANGED work
         /\ events' = events \/ SeedBatch
         /\ report' = report \/ Verify
         /\ Forked' = Forked \/ StartWorkers
         /\ \A v \in Workers : Finished(v)' => Finished(v)
         /\ \A v \in Workers : \/ worker'[v] = worker[v] \/ worker'[v] = "gone"
                               \/ worker[v] = "none" /\ worker'[v] = "boot"
<1>0. ProcessTypes
  BY DEF ProcessInv
<1> USE DEF Finished, Sent, Forked, store, outcome, promises, Move
<1>1. CASE DatabaseStarts
  BY <1>1 DEF DatabaseStarts
<1>2. ASSUME EndBody PROVE UNCHANGED <<ready, completed, exited, given>>
  BY <1>2, ReactEffect DEF EndBody
<1>3. CASE DatabaseFails \/ StatementFails \/ StartFails \/ ReadyDeadline \/ Verify
  BY <1>2, <1>3 DEF DatabaseFails, StatementFails, StartFails, ReadyDeadline, Verify
<1>4. CASE SeedBatch
  BY <1>4 DEF SeedBatch, coordinator
<1>5. CASE StartWorkers
  <2>1. \A w \in Workers : worker[w] = "none"
    BY <1>5 DEF StartWorkers, ProcessInv, ForkInv
  <2>. QED BY <1>5, <2>1 DEF StartWorkers
<1>6. CASE StartsSent
  BY <1>6 DEF StartsSent
<1>7. CASE EndPool \/ StopContainer
  BY <1>7 DEF EndPool, StopContainer
<1>8. ASSUME NEW w \in Workers, Deliver(w)
      PROVE  \A v \in Workers : Finished(v)' => Finished(v)
  <2>1. PICK r \in Promises, c \in Promises :
          /\ React(pc, r, c, exited, given)
          /\ \A v \in Workers : c[v] = "resolved" => Finished(v)
    BY <1>0, <1>8, DeliverEffect
  <2>2. completed' = c
    BY <2>1, ReactEffect
  <2>3. \A v \in Workers : Sent(v, "completed")' => Sent(v, "completed")
    BY <1>0, <1>8, DeliverEffect
  <2> HIDE DEF Sent
  <2>. QED BY <2>1, <2>2, <2>3
<1>9. ASSUME NEW w \in Workers, Deliver(w)
      PROVE  UNCHANGED <<seed, store, outcome, worker, work>>
  BY <1>9 DEF Deliver
<1>10. CASE \E w \in Workers : Deliver(w)
  BY <1>8, <1>9, <1>10 DEF Deliver
<1>11. CASE \E w \in Workers : ExitEvent(w)
  <2>1. PICK w \in Workers : ExitEvent(w)
    BY <1>11
  <2>2. completed' = Settle(completed, w, "rejected")
    BY <2>1, ReactEffect DEF ExitEvent
  <2>3. \A v \in Workers : completed'[v] = "resolved" => completed[v] = "resolved"
    BY <1>0, <2>2 DEF Settle, ProcessTypes, Promises
  <2>. QED BY <2>1, <2>3 DEF ExitEvent
<1>12. CASE \E w \in Workers, setter \in {"cleanup", "abort"} : TimerFires(w, setter)
  <2>1. PICK w \in Workers, setter \in {"cleanup", "abort"} : TimerFires(w, setter)
    BY <1>12
  <2>2. completed' = completed
    BY <2>1, ReactEffect DEF TimerFires
  <2>3. /\ worker' = [worker EXCEPT ![w] = "gone"] /\ worker[w] # "none"
        /\ UNCHANGED <<seed, events, report, inbox, work>>
    BY <2>1 DEF TimerFires, ProcessInv, ForkInv
  <2>4. /\ worker'[w] = "gone" /\ \A v \in Workers \ {w} : worker'[v] = worker[v]
    BY <1>0, <2>3 DEF ProcessTypes
  <2>. QED BY <2>2, <2>3, <2>4
<1>13. CASE RunDeadline \/ ContainerStops
  BY <1>13 DEF RunDeadline, ContainerStops, coordinator
<1>. QED BY <1>1, <1>3, <1>4, <1>5, <1>6, <1>7, <1>10, <1>11, <1>12, <1>13 DEF Events

-----------------------------------------------------------------------------
(* The streams and the counters.                                           *)

Batch == 0..(appendBatchSize - 1)

Tokens == {SeedToken(s, i) : s \in Streams, i \in Nat}
            \cup {LiveToken(w, i, b) : w \in Workers, i \in Operations, b \in Batch}

Fields == {"attempted", "succeeded", "eventCount", "loads", "loadsSucceeded"}

WorkTypes ==
  /\ seed \in Nat
  /\ events \in [Streams -> Seq(Tokens)]
  /\ op \in [Workers -> 0..operationsPerWorker]
  /\ attempt \in [Workers -> Nat]
  /\ counters \in [Workers -> [Fields -> Nat]]

\* Operation i of w may have stored its events: it is done, or its answer was lost.
Stored(w, i) == i < op[w] \/ (i = op[w] /\ worker[w] \in {"closing", "gone"})

\* The streams are seeded before the workers are forked.
SeedInv ==
  /\ \A s \in Streams : \A v \in 1..Len(events[s]) :
       v <= historyEventsPerStream => events[s][v] = SeedToken(s, v - 1)
  /\ \A s \in Streams : /\ Forked = {} => Len(events[s]) <= historyEventsPerStream
                        /\ Forked # {} => Len(events[s]) >= historyEventsPerStream

IsLive(s, v) == v > historyEventsPerStream

\* What follows was stored by the operations that belong there, ...
OriginInv ==
  \A s \in Streams : \A v \in 1..Len(events[s]) : IsLive(s, v) =>
    \E w \in Workers, i \in Operations, b \in Batch :
      /\ events[s][v] = LiveToken(w, i, b)
      /\ IsAppend(w, i) /\ StreamOf(w, i) = s /\ Stored(w, i)

\* ... once, ...
OnceInv ==
  \A s \in Streams : \A u, v \in 1..Len(events[s]) :
    IsLive(s, u) /\ IsLive(s, v) /\ events[s][u] = events[s][v] => u = v

\* ... and an operation that is done has stored all of its events.
DoneInv ==
  \A w \in Workers, i \in Operations, b \in Batch :
    i < op[w] /\ IsAppend(w, i) =>
      \E v \in 1..Len(events[StreamOf(w, i)]) :
        IsLive(StreamOf(w, i), v) /\ events[StreamOf(w, i)][v] = LiveToken(w, i, b)

EventInv == SeedInv /\ OriginInv /\ OnceInv /\ DoneInv

\* The operations of w before its n-th.
AppendsBefore(w, n) == {i \in 0..(n - 1) : IsAppend(w, i)}
LoadsBefore(w, n) == {i \in 0..(n - 1) : ~IsAppend(w, i)}

\* The counters of w, when an append of which p is 1 is under way.
Counted(w, p) ==
  /\ counters[w].attempted = Cardinality(AppendsBefore(w, op[w])) + p
  /\ counters[w].succeeded = Cardinality(AppendsBefore(w, op[w]))
  /\ counters[w].eventCount = Cardinality(AppendsBefore(w, op[w])) * appendBatchSize
  /\ counters[w].loads = Cardinality(LoadsBefore(w, op[w]))
  /\ counters[w].loadsSucceeded = Cardinality(LoadsBefore(w, op[w]))

Appending(w) == worker[w] = "append" \/ attempt[w] > 0

CountInv ==
  \A w \in Workers :
    /\ Appending(w) => op[w] \in Operations /\ IsAppend(w, op[w])
    /\ worker[w] \notin {"closing", "gone"} => Counted(w, IF Appending(w) THEN 1 ELSE 0)
    /\ Finished(w) => op[w] = operationsPerWorker /\ Counted(w, 0)

WorkInv == WorkTypes /\ EventInv /\ CountInv /\ report # "mismatch"

LEMMA Smallest ==
  ASSUME NEW S \in SUBSET Nat, S # {}
  PROVE  \E p \in S : \A q \in S : p <= q
<1>1. PICK p \in S : \A q \in S : ~(<<q, p>> \in OpToRel(<, Nat))
  BY NatLessThanWellFounded, WFMin
<1>2. ASSUME NEW q \in S PROVE p <= q
  <2>1. ~(q < p)
    BY <1>1 DEF OpToRel
  <2>. QED BY <2>1
<1>. QED BY <1>2

LEMMA MinIsSmallest ==
  ASSUME NEW S \in SUBSET Nat, S # {}
  PROVE  Min(S) \in S /\ \A q \in S : Min(S) <= q
<1>1. PICK p \in S : \A q \in S : p <= q
  BY Smallest
<1>. QED BY <1>1 DEF Min

LEMMA StreamType ==
  ASSUME seed \in Nat, NEW w \in Workers, NEW i \in Nat
  PROVE  StreamOf(w, i) \in Streams
<1> DEFINE value == deterministicValue(w, i)
           cold == streamCount - hotStreamCount
<1>1. value \in Nat
  BY DEF deterministicValue, Workers
<1>2. streamCount \in Nat \ {0} /\ hotStreamCount \in Nat /\ hotStreamCount <= streamCount
  BY LoadRunAssumption
<1> HIDE DEF value
<1>3. ASSUME NEW m \in Nat \ {0} PROVE value % m \in 0..(m - 1)
  BY <1>1
<1>4. CASE cold = 0 \/ (hotStreamCount > 0 /\ value % 100 < 75)
  <2>1. hotStreamCount \in Nat \ {0}
    BY <1>2, <1>4
  <2>2. value % hotStreamCount \in 0..(hotStreamCount - 1)
    BY <1>3, <2>1
  <2>3. StreamOf(w, i) = value % hotStreamCount
    BY <1>4 DEF StreamOf, selectStreamIndex, value
  <2>. QED BY <1>2, <2>2, <2>3 DEF Streams
<1>5. CASE ~(cold = 0 \/ (hotStreamCount > 0 /\ value % 100 < 75))
  <2>1. cold \in Nat \ {0}
    BY <1>2, <1>5
  <2>2. value % cold \in 0..(cold - 1)
    BY <1>3, <2>1
  <2>3. StreamOf(w, i) = hotStreamCount + (value % cold)
    BY <1>5 DEF StreamOf, selectStreamIndex, value
  <2>. QED BY <1>2, <2>2, <2>3 DEF Streams
<1>. QED BY <1>4, <1>5

LEMMA SameOperations ==
  ASSUME seed' = seed
  PROVE  \A w, i : /\ IsAppend(w, i)' <=> IsAppend(w, i)
                   /\ StreamOf(w, i)' = StreamOf(w, i)
BY DEF IsAppend, StreamOf, deterministicValue

LEMMA Constants ==
  /\ operationsPerWorker \in Nat \ {0} /\ workerCount \in Nat \ {0}
  /\ appendBatchSize \in Nat \ {0} /\ historyEventsPerStream \in Nat
  /\ 0 \in Workers
BY LoadRunAssumption DEF Workers

-----------------------------------------------------------------------------
(* Counting operations.                                                    *)

LEMMA BeforeFinite ==
  ASSUME NEW w, NEW n \in Nat
  PROVE  /\ IsFiniteSet(AppendsBefore(w, n)) /\ Cardinality(AppendsBefore(w, n)) \in Nat
         /\ IsFiniteSet(LoadsBefore(w, n)) /\ Cardinality(LoadsBefore(w, n)) \in Nat
<1>1. IsFiniteSet(0..(n - 1))
  BY FS_Interval
<1>2. AppendsBefore(w, n) \in SUBSET (0..(n - 1)) /\ LoadsBefore(w, n) \in SUBSET (0..(n - 1))
  BY DEF AppendsBefore, LoadsBefore
<1>. QED BY <1>1, <1>2, FS_Subset, FS_CardinalityType

LEMMA NoneBefore ==
  ASSUME NEW w
  PROVE  Cardinality(AppendsBefore(w, 0)) = 0 /\ Cardinality(LoadsBefore(w, 0)) = 0
<1>1. AppendsBefore(w, 0) = {} /\ LoadsBefore(w, 0) = {}
  BY DEF AppendsBefore, LoadsBefore
<1>. QED BY <1>1, FS_EmptySet

LEMMA OneMore ==
  ASSUME NEW w, NEW n \in Nat
  PROVE  /\ Cardinality(AppendsBefore(w, n + 1))
              = Cardinality(AppendsBefore(w, n)) + (IF IsAppend(w, n) THEN 1 ELSE 0)
         /\ Cardinality(LoadsBefore(w, n + 1))
              = Cardinality(LoadsBefore(w, n)) + (IF IsAppend(w, n) THEN 0 ELSE 1)
<1>1. /\ IsFiniteSet(AppendsBefore(w, n)) /\ Cardinality(AppendsBefore(w, n)) \in Nat
      /\ IsFiniteSet(LoadsBefore(w, n)) /\ Cardinality(LoadsBefore(w, n)) \in Nat
  BY BeforeFinite
<1>2. n \notin AppendsBefore(w, n) /\ n \notin LoadsBefore(w, n)
  BY DEF AppendsBefore, LoadsBefore
<1>3. \A i : i \in 0..((n + 1) - 1) <=> i = n \/ i \in 0..(n - 1)
  OBVIOUS
<1>4. CASE IsAppend(w, n)
  <2>1. /\ AppendsBefore(w, n + 1) = AppendsBefore(w, n) \cup {n}
        /\ LoadsBefore(w, n + 1) = LoadsBefore(w, n)
    BY <1>3, <1>4 DEF AppendsBefore, LoadsBefore
  <2>2. Cardinality(AppendsBefore(w, n) \cup {n}) = Cardinality(AppendsBefore(w, n)) + 1
    BY <1>1, <1>2, FS_AddElement
  <2>3. /\ Cardinality(AppendsBefore(w, n + 1)) = Cardinality(AppendsBefore(w, n)) + 1
        /\ Cardinality(LoadsBefore(w, n + 1)) = Cardinality(LoadsBefore(w, n))
    BY <2>1, <2>2
  <2>. QED BY <1>1, <1>4, <2>3
<1>5. CASE ~IsAppend(w, n)
  <2>1. /\ AppendsBefore(w, n + 1) = AppendsBefore(w, n)
        /\ LoadsBefore(w, n + 1) = LoadsBefore(w, n) \cup {n}
    BY <1>3, <1>5 DEF AppendsBefore, LoadsBefore
  <2>2. Cardinality(LoadsBefore(w, n) \cup {n}) = Cardinality(LoadsBefore(w, n)) + 1
    BY <1>1, <1>2, FS_AddElement
  <2>3. /\ Cardinality(AppendsBefore(w, n + 1)) = Cardinality(AppendsBefore(w, n))
        /\ Cardinality(LoadsBefore(w, n + 1)) = Cardinality(LoadsBefore(w, n)) + 1
    BY <2>1, <2>2
  <2>. QED BY <1>1, <1>5, <2>3
<1>. QED BY <1>4, <1>5

LEMMA SameCounts ==
  ASSUME seed' = seed
  PROVE  \A w, n : /\ AppendsBefore(w, n)' = AppendsBefore(w, n)
                   /\ LoadsBefore(w, n)' = LoadsBefore(w, n)
BY SameOperations DEF AppendsBefore, LoadsBefore

-----------------------------------------------------------------------------
(* The steps of the coordinator.                                           *)

LEMMA InitWork == Init => WorkInv
<1> SUFFICES ASSUME Init PROVE WorkInv
  OBVIOUS
<1>1. WorkTypes
  BY Constants, LoadRunAssumption DEF Init, WorkTypes, NoCounters, Fields
<1>2. Forked = {} /\ \A w \in Workers : op[w] = 0 /\ ~Finished(w) /\ ~Appending(w)
  BY DEF Init, Forked, Finished, Sent, Appending
<1>3. EventInv
  BY <1>2, Constants DEF Init, EventInv, SeedInv, OriginInv, OnceInv, DoneInv, Operations
<1>4. \A w \in Workers : Counted(w, 0)
  BY <1>2, NoneBefore, Constants DEF Init, Counted, NoCounters
<1>5. CountInv
  BY <1>2, <1>4 DEF CountInv
<1>. QED BY <1>1, <1>3, <1>5 DEF Init, WorkInv

\* The streams stand when nothing is stored and no append ends.
LEMMA StreamsStand ==
  ASSUME WorkInv, ProcessInv, UNCHANGED <<seed, events>>, Forked' = Forked,
         \A w \in Workers : \/ op'[w] = op[w]
                            \/ op'[w] = op[w] + 1 /\ ~IsAppend(w, op[w]),
         \A w \in Workers : worker[w] \in {"closing", "gone"}
                              => worker'[w] \in {"closing", "gone"}
  PROVE  EventInv'
<1>0. \A w \in Workers : op[w] \in Nat
  BY DEF WorkInv, WorkTypes
<1>1. ASSUME NEW w \in Workers, NEW i \in Operations
      PROVE  /\ i \in Nat
             /\ Stored(w, i) => Stored(w, i)'
             /\ i < op'[w] /\ IsAppend(w, i) => i < op[w]
  BY <1>0 DEF Stored, Operations
<1>2. \A w, i : (IsAppend(w, i)' <=> IsAppend(w, i)) /\ StreamOf(w, i)' = StreamOf(w, i)
  BY SameOperations
<1>3. SeedInv'
  BY DEF WorkInv, EventInv, SeedInv
<1>4. OriginInv' /\ OnceInv' /\ DoneInv'
  BY <1>1, <1>2 DEF WorkInv, EventInv, OriginInv, OnceInv, DoneInv, IsLive
<1>. QED BY <1>3, <1>4 DEF EventInv

LEMMA SeedStep ==
  ASSUME WorkInv, ProcessInv, SeedBatch
  PROVE  WorkTypes' /\ EventInv'
<1> DEFINE s == Min(Unseeded)
           have == Len(events[s])
           size == Min({appendBatchSize, historyEventsPerStream - have})
           batch == [b \in 1..size |-> SeedToken(s, have + b - 1)]
<1>0. WorkTypes /\ ProcessTypes /\ seed \in Nat
  BY DEF WorkInv, WorkTypes, ProcessInv
<1>1. s \in Streams /\ have < historyEventsPerStream
  <2>1. Unseeded \in SUBSET Nat /\ Unseeded # {}
    BY DEF SeedBatch, Unseeded, Streams
  <2>2. s \in Unseeded
    BY <2>1, MinIsSmallest
  <2> HIDE DEF s
  <2>. QED BY <2>2 DEF Unseeded
<1>2. events' = [events EXCEPT ![s] = events[s] \o batch]
  BY DEF SeedBatch
<1> HIDE DEF s
<1>3. events[s] \in Seq(Tokens) /\ have \in Nat
  BY <1>0, <1>1 DEF WorkTypes
<1>4. size \in Nat /\ have + size <= historyEventsPerStream
  <2> DEFINE S == {appendBatchSize, historyEventsPerStream - have}
  <2>1. S \in SUBSET Nat /\ S # {}
    BY <1>1, <1>3, Constants
  <2>2. Min(S) \in S /\ \A q \in S : Min(S) <= q
    BY <2>1, MinIsSmallest
  <2>3. size \in Nat /\ size <= historyEventsPerStream - have
    BY <2>1, <2>2
  <2> HIDE DEF size
  <2>. QED BY <1>3, <2>3, Constants
<1> HIDE DEF size
<1>5. batch \in Seq(Tokens) /\ Len(batch) = size
  <2>1. \A b \in 1..size : SeedToken(s, have + b - 1) \in Tokens
    <3>1. \A b \in 1..size : have + b - 1 \in Nat
      BY <1>3, <1>4
    <3>. QED BY <1>1, <3>1 DEF Tokens
  <2>. QED BY <1>4, <2>1
<1>6. \A b \in 1..size : batch[b] = SeedToken(s, have + b - 1)
  OBVIOUS
<1> HIDE DEF batch
<1>7. /\ events'[s] = events[s] \o batch
      /\ Len(events'[s]) = have + size
      /\ \A v \in 1..have : events'[s][v] = events[s][v]
      /\ \A v \in (have + 1)..(have + size) : events'[s][v] = batch[v - have]
  <2>1. events'[s] = events[s] \o batch
    BY <1>0, <1>1, <1>2 DEF WorkTypes
  <2>2. /\ Len(events[s] \o batch) = have + size
        /\ \A v \in 1..(have + size) : (events[s] \o batch)[v] =
             IF v <= have THEN events[s][v] ELSE batch[v - have]
    BY <1>3, <1>5, ConcatProperties
  <2>3. /\ \A v \in 1..have : v \in 1..(have + size) /\ v <= have
        /\ \A v \in (have + 1)..(have + size) : v \in 1..(have + size) /\ ~(v <= have)
    BY <1>3, <1>4
  <2>. QED BY <2>1, <2>2, <2>3
<1>8. events' \in [Streams -> Seq(Tokens)]
  <2>1. events[s] \o batch \in Seq(Tokens)
    BY <1>3, <1>5, ConcatProperties
  <2>. QED BY <1>0, <1>2, <2>1 DEF WorkTypes
<1>9. \A t \in Streams \ {s} : events'[t] = events[t]
  BY <1>0, <1>2 DEF WorkTypes
<1>10. Forked = {} /\ Forked' = {}
  BY DEF SeedBatch, ProcessInv, ForkInv, Forked
<1>11. \A t \in Streams : Len(events'[t]) \in Nat /\ Len(events'[t]) <= historyEventsPerStream
  <2>1. ASSUME NEW t \in Streams
        PROVE  Len(events'[t]) \in Nat /\ Len(events'[t]) <= historyEventsPerStream
    <3>1. CASE t = s
      BY <1>3, <1>4, <1>7, <3>1
    <3>2. CASE t # s
      BY <1>0, <1>9, <1>10, <3>2 DEF WorkTypes, WorkInv, EventInv, SeedInv
    <3>. QED BY <3>1, <3>2
  <2>. QED BY <2>1
<1>12. \A t \in Streams : \A v \in 1..Len(events'[t]) : ~IsLive(t, v)
  BY <1>11, Constants DEF IsLive
<1>13. SeedInv'
  <2>1. ASSUME NEW t \in Streams, NEW v \in 1..Len(events'[t]), v <= historyEventsPerStream
        PROVE  events'[t][v] = SeedToken(t, v - 1)
    <3>1. CASE t # s
      BY <1>9, <2>1, <3>1 DEF WorkInv, EventInv, SeedInv
    <3>2. CASE t = s /\ v \in 1..have
      BY <1>1, <1>7, <2>1, <3>2 DEF WorkInv, EventInv, SeedInv
    <3>3. CASE t = s /\ v \in (have + 1)..(have + size)
      <4>1. v - have \in 1..size /\ have + (v - have) - 1 = v - 1
        BY <1>3, <1>4, <3>3
      <4>. QED BY <1>6, <1>7, <3>3, <4>1
    <3>4. t = s => v \in 1..have \/ v \in (have + 1)..(have + size)
      BY <1>3, <1>4, <1>7
    <3>. QED BY <3>1, <3>2, <3>3, <3>4
  <2>. QED BY <1>10, <1>11, <2>1 DEF SeedInv
<1>14. \A w, i : (IsAppend(w, i)' <=> IsAppend(w, i)) /\ StreamOf(w, i)' = StreamOf(w, i)
  BY SameOperations DEF SeedBatch
<1>15. OriginInv' /\ OnceInv'
  BY <1>12 DEF OriginInv, OnceInv, IsLive
<1>16. DoneInv'
  <2>1. ASSUME NEW w \in Workers, NEW i \in Operations, NEW b \in Batch,
               i < op[w], IsAppend(w, i)
        PROVE  FALSE
    <3>1. StreamOf(w, i) \in Streams
      BY <1>0, StreamType DEF Operations
    <3>2. PICK v \in 1..Len(events[StreamOf(w, i)]) : IsLive(StreamOf(w, i), v)
      BY <2>1 DEF WorkInv, EventInv, DoneInv
    <3>3. /\ Len(events[StreamOf(w, i)]) \in Nat
          /\ Len(events[StreamOf(w, i)]) <= historyEventsPerStream
      BY <1>0, <1>10, <3>1 DEF WorkTypes, WorkInv, EventInv, SeedInv
    <3>. QED BY <3>2, <3>3, Constants DEF IsLive
  <2>. QED BY <1>14, <2>1 DEF DoneInv, SeedBatch, work
<1>17. WorkTypes'
  BY <1>0, <1>8 DEF WorkTypes, SeedBatch, work
<1>. QED BY <1>13, <1>15, <1>16, <1>17 DEF EventInv

\* The workers are forked when no stream lacks an event.
LEMMA ForkStep ==
  ASSUME WorkInv, ProcessInv, StartWorkers
  PROVE  EventInv'
<1>1. UNCHANGED <<seed, events, work>> /\ WorkTypes
  BY DEF StartWorkers, store, WorkInv
<1>2. \A w \in Workers : worker[w] = "none"
  BY DEF StartWorkers, ProcessInv, ForkInv, Forked
<1>3. \A s \in Streams : ~(Len(events[s]) < historyEventsPerStream)
  BY DEF StartWorkers, Unseeded
<1>4. \A s \in Streams : Len(events[s]) >= historyEventsPerStream
  BY <1>1, <1>3, Constants DEF WorkTypes
<1>5. Forked' # {}
  BY Constants DEF StartWorkers, Forked
<1>6. SeedInv'
  BY <1>1, <1>4, <1>5 DEF WorkInv, EventInv, SeedInv
<1>7. \A w, i : Stored(w, i) /\ w \in Workers => Stored(w, i)'
  BY <1>1, <1>2 DEF Stored, work
<1>8. \A w, i : (IsAppend(w, i)' <=> IsAppend(w, i)) /\ StreamOf(w, i)' = StreamOf(w, i)
  BY <1>1, SameOperations
<1>9. OriginInv' /\ OnceInv' /\ DoneInv'
  BY <1>1, <1>7, <1>8 DEF WorkInv, EventInv, OriginInv, OnceInv, DoneInv, IsLive, work
<1>. QED BY <1>6, <1>9 DEF EventInv

LEMMA CoordinatorStep ==
  ASSUME WorkInv, ProcessInv, Events \/ RunDeadline \/ ContainerStops
  PROVE  WorkTypes' /\ EventInv' /\ CountInv'
<1>1. /\ seed' = seed /\ UNCHANGED work
      /\ events' = events \/ SeedBatch
      /\ Forked' = Forked \/ StartWorkers
      /\ \A v \in Workers : Finished(v)' => Finished(v)
      /\ \A v \in Workers : \/ worker'[v] = worker[v] \/ worker'[v] = "gone"
                            \/ worker[v] = "none" /\ worker'[v] = "boot"
  BY CoordinatorEffect
<1>2. WorkTypes' /\ EventInv'
  <2>1. CASE SeedBatch
    BY <2>1, SeedStep
  <2>2. CASE StartWorkers
    <3>1. events' = events
      BY <2>2 DEF StartWorkers, store
    <3>. QED BY <1>1, <2>2, <3>1, ForkStep DEF WorkInv, WorkTypes, work
  <2>3. CASE events' = events /\ Forked' = Forked
    <3>1. \A w \in Workers : worker[w] \in {"closing", "gone"}
                               => worker'[w] \in {"closing", "gone"}
      BY <1>1
    <3>2. EventInv'
      BY <1>1, <2>3, <3>1, StreamsStand DEF work
    <3>. QED BY <1>1, <2>3, <3>2 DEF WorkInv, WorkTypes, work
  <2>. QED BY <1>1, <2>1, <2>2, <2>3
<1>3. CountInv'
  <2>1. ASSUME NEW w \in Workers, NEW p PROVE Counted(w, p)' <=> Counted(w, p)
    <3>1. counters' = counters /\ op' = op
      BY <1>1 DEF work
    <3>. QED BY <1>1, <3>1, SameCounts DEF Counted
  <2>2. ASSUME NEW w \in Workers
        PROVE  /\ Appending(w)' => Appending(w)
               /\ worker'[w] \notin {"closing", "gone"} =>
                    worker[w] \notin {"closing", "gone"} /\ (Appending(w)' <=> Appending(w))
    BY <1>1 DEF Appending, work
  <2>3. \A w, i : IsAppend(w, i)' <=> IsAppend(w, i)
    BY <1>1, SameOperations
  <2>4. op' = op
    BY <1>1 DEF work
  <2>. QED BY <1>1, <2>1, <2>2, <2>3, <2>4 DEF WorkInv, CountInv
<1>. QED BY <1>2, <1>3

-----------------------------------------------------------------------------
(* The steps of the workers.                                               *)

\* An operation stores its events, for the first time.
LEMMA StoreStep ==
  ASSUME WorkInv, ProcessInv, NEW w \in Workers, worker[w] = "append",
         NEW i, i = op[w], NEW s, s = StreamOf(w, i),
         StoreEvents(w), seed' = seed,
         op' \in [Workers -> 0..operationsPerWorker],
         \A v \in Workers \ {w} : op'[v] = op[v],
         \A v \in Workers \ {w} : worker'[v] = worker[v],
         \/ op'[w] = op[w] + 1
         \/ op'[w] = op[w] /\ worker'[w] = "closing",
         worker'[w] # "none"
  PROVE  EventInv' /\ events' \in [Streams -> Seq(Tokens)]
<1> DEFINE n == Len(events[s])
           e == createLiveEvents(w, i)
<1>0. WorkTypes /\ ProcessTypes /\ seed \in Nat
  BY DEF WorkInv, WorkTypes, ProcessInv
<1>1. i \in Operations /\ IsAppend(w, i) /\ i \in Nat
  BY DEF WorkInv, CountInv, Appending, Operations
<1>2. s \in Streams
  BY <1>0, <1>1, StreamType
<1>3. events' = [events EXCEPT ![s] = events[s] \o e]
  BY DEF StoreEvents
<1>4. e \in Seq(Tokens) /\ Len(e) = appendBatchSize
  <2>1. \A b \in 1..appendBatchSize : LiveToken(w, i, b - 1) \in Tokens
    <3>1. \A b \in 1..appendBatchSize : b - 1 \in Batch
      BY Constants DEF Batch
    <3>. QED BY <1>1, <3>1 DEF Tokens
  <2>. QED BY <2>1, Constants DEF createLiveEvents
<1>5. \A b \in 1..appendBatchSize : e[b] = LiveToken(w, i, b - 1)
  BY DEF createLiveEvents
<1>6. events[s] \in Seq(Tokens) /\ n \in Nat
  BY <1>0, <1>2 DEF WorkTypes
<1> HIDE DEF e
<1>7. /\ Len(events'[s]) = n + appendBatchSize
      /\ \A v \in 1..n : events'[s][v] = events[s][v]
      /\ \A v \in (n + 1)..(n + appendBatchSize) :
           events'[s][v] = LiveToken(w, i, v - n - 1) /\ v - n - 1 \in Batch
  <2>1. events'[s] = events[s] \o e
    BY <1>0, <1>2, <1>3 DEF WorkTypes
  <2>2. /\ Len(events[s] \o e) = n + Len(e)
        /\ \A v \in 1..(n + Len(e)) : (events[s] \o e)[v] =
             IF v <= n THEN events[s][v] ELSE e[v - n]
    <3>1. ASSUME NEW q \in Seq(Tokens)
          PROVE  /\ Len(events[s] \o q) = n + Len(q)
                 /\ \A v \in 1..(n + Len(q)) : (events[s] \o q)[v] =
                      IF v <= n THEN events[s][v] ELSE q[v - n]
      BY <1>6, ConcatProperties
    <3>2. e \in Seq(Tokens)
      BY <1>4
    <3> HIDE DEF e, n
    <3>. QED BY <3>1, <3>2
  <2>3. \A v \in 1..n : v \in 1..(n + appendBatchSize) /\ v <= n
    BY <1>6, Constants
  <2>4. \A v \in (n + 1)..(n + appendBatchSize) :
          /\ v \in 1..(n + appendBatchSize) /\ ~(v <= n)
          /\ v - n \in 1..appendBatchSize /\ v - n - 1 \in Batch
    BY <1>6, Constants DEF Batch
  <2>. QED BY <1>4, <1>5, <2>1, <2>2, <2>3, <2>4
<1>8. \A t \in Streams \ {s} : events'[t] = events[t]
  BY <1>0, <1>3 DEF WorkTypes
<1>9. events' \in [Streams -> Seq(Tokens)]
  <2>1. events[s] \o e \in Seq(Tokens)
    BY <1>4, <1>6, ConcatProperties
  <2>. QED BY <1>0, <1>3, <2>1 DEF WorkTypes
<1>10. Forked # {} /\ Forked' # {}
  BY DEF Forked
<1>11. n >= historyEventsPerStream
  BY <1>2, <1>10 DEF WorkInv, EventInv, SeedInv
<1>12. ASSUME NEW v \in 1..Len(events'[s])
       PROVE  v \in 1..n \/ v \in (n + 1)..(n + appendBatchSize)
  BY <1>6, <1>7, Constants
<1>13. \A v \in (n + 1)..(n + appendBatchSize) :
         ~(v <= historyEventsPerStream) /\ v > historyEventsPerStream
  BY <1>6, <1>11, Constants
<1>14. SeedInv'
  <2>1. ASSUME NEW t \in Streams, NEW v \in 1..Len(events'[t]), v <= historyEventsPerStream
        PROVE  events'[t][v] = SeedToken(t, v - 1)
    <3>1. CASE t # s
      BY <1>8, <2>1, <3>1 DEF WorkInv, EventInv, SeedInv
    <3>2. CASE t = s
      BY <1>2, <1>7, <1>12, <1>13, <2>1, <3>2 DEF WorkInv, EventInv, SeedInv
    <3>. QED BY <3>1, <3>2
  <2>2. ASSUME NEW t \in Streams PROVE Len(events'[t]) >= historyEventsPerStream
    <3>1. CASE t # s
      BY <1>8, <1>10, <3>1 DEF WorkInv, EventInv, SeedInv
    <3>2. CASE t = s
      BY <1>6, <1>7, <1>11, <3>2, Constants
    <3>. QED BY <3>1, <3>2
  <2>. QED BY <1>10, <2>1, <2>2 DEF SeedInv
<1>15. \A v, j : (IsAppend(v, j)' <=> IsAppend(v, j)) /\ StreamOf(v, j)' = StreamOf(v, j)
  BY SameOperations
<1>16. /\ \A v \in Workers, j \in Operations : Stored(v, j) => Stored(v, j)'
       /\ Stored(w, i)' /\ ~Stored(w, i)
  <2>1. op[w] \in Nat /\ op'[w] \in Nat
    BY <1>0 DEF WorkTypes
  <2>2. Stored(w, i)' /\ ~Stored(w, i)
    BY <2>1 DEF Stored
  <2>3. \A j \in Operations : j \in Nat
    BY DEF Operations
  <2>. QED BY <2>1, <2>2, <2>3 DEF Stored
<1>17. ASSUME NEW t \in Streams, NEW v \in 1..Len(events'[t]), IsLive(t, v)
       PROVE  \/ /\ v \in 1..Len(events[t]) /\ events'[t][v] = events[t][v]
                 /\ \E w2 \in Workers, j \in Operations, b \in Batch :
                      /\ events[t][v] = LiveToken(w2, j, b)
                      /\ IsAppend(w2, j) /\ StreamOf(w2, j) = t /\ Stored(w2, j)
              \/ /\ t = s /\ v \in (n + 1)..(n + appendBatchSize)
                 /\ events'[t][v] = LiveToken(w, i, v - n - 1) /\ v - n - 1 \in Batch
  <2>1. CASE t = s
    BY <1>2, <1>7, <1>12, <1>17, <2>1 DEF WorkInv, EventInv, OriginInv
  <2>2. CASE t # s
    BY <1>8, <1>17, <2>2 DEF WorkInv, EventInv, OriginInv
  <2>. QED BY <2>1, <2>2
<1>18. OriginInv'
  <2>1. ASSUME NEW t \in Streams, NEW v \in 1..Len(events'[t]), IsLive(t, v)
        PROVE  \E w2 \in Workers, j \in Operations, b \in Batch :
                 /\ events'[t][v] = LiveToken(w2, j, b)
                 /\ IsAppend(w2, j)' /\ StreamOf(w2, j)' = t /\ Stored(w2, j)'
    <3>1. CASE \E w2 \in Workers, j \in Operations, b \in Batch :
                 /\ events'[t][v] = LiveToken(w2, j, b)
                 /\ IsAppend(w2, j) /\ StreamOf(w2, j) = t /\ Stored(w2, j)
      BY <1>15, <1>16, <3>1
    <3>2. CASE /\ t = s /\ v - n - 1 \in Batch
               /\ events'[t][v] = LiveToken(w, i, v - n - 1)
      BY <1>1, <1>15, <1>16, <3>2
    <3>. QED BY <1>17, <2>1, <3>1, <3>2
  <2>. QED BY <2>1 DEF OriginInv, IsLive
<1>19. OnceInv'
  <2>1. ASSUME NEW t \in Streams, NEW u \in 1..Len(events'[t]), NEW v \in 1..Len(events'[t]),
               IsLive(t, u), IsLive(t, v), events'[t][u] = events'[t][v]
        PROVE  u = v
    <3> DEFINE Old(x) == /\ x \in 1..Len(events[t]) /\ events'[t][x] = events[t][x]
                         /\ \E w2 \in Workers, j \in Operations, b \in Batch :
                              /\ events[t][x] = LiveToken(w2, j, b) /\ Stored(w2, j)
               New(x) == /\ x \in (n + 1)..(n + appendBatchSize)
                         /\ events'[t][x] = LiveToken(w, i, x - n - 1)
    <3>1. (Old(u) \/ New(u)) /\ (Old(v) \/ New(v))
      BY <1>17, <2>1
    <3>2. CASE Old(u) /\ Old(v)
      BY <2>1, <3>2 DEF WorkInv, EventInv, OnceInv
    <3>3. CASE New(u) /\ New(v)
      <4>1. LiveToken(w, i, u - n - 1) = LiveToken(w, i, v - n - 1)
        BY <2>1, <3>3
      <4>2. u - n - 1 = v - n - 1
        BY <4>1 DEF LiveToken
      <4>. QED BY <1>6, <3>3, <4>2
    <3>4. ASSUME NEW x, NEW y, Old(x), New(y), events'[t][x] = events'[t][y]
          PROVE  FALSE
      <4>1. PICK w2 \in Workers, j \in Operations, b \in Batch :
              events[t][x] = LiveToken(w2, j, b) /\ Stored(w2, j)
        BY <3>4
      <4>2. LiveToken(w2, j, b) = LiveToken(w, i, y - n - 1)
        BY <3>4, <4>1
      <4>3. w2 = w /\ j = i
        BY <4>2 DEF LiveToken
      <4>. QED BY <1>16, <4>1, <4>3
    <3> HIDE DEF Old, New
    <3>. QED BY <2>1, <3>1, <3>2, <3>3, <3>4
  <2>. QED BY <2>1 DEF OnceInv, IsLive
<1>20. DoneInv'
  <2>1. ASSUME NEW v \in Workers, NEW j \in Operations, NEW b \in Batch,
               j < op'[v], IsAppend(v, j)
        PROVE  \E x \in 1..Len(events'[StreamOf(v, j)]) :
                 /\ IsLive(StreamOf(v, j), x)
                 /\ events'[StreamOf(v, j)][x] = LiveToken(v, j, b)
    <3>1. CASE v = w /\ j = i
      <4> HIDE DEF n
      <4>0. b \in Nat /\ b < appendBatchSize
        BY Constants DEF Batch
      <4>1. n + 1 + b \in (n + 1)..(n + appendBatchSize) /\ (n + 1 + b) - n - 1 = b
        BY <1>6, <4>0, Constants
      <4>2. n + 1 + b \in 1..Len(events'[s])
        BY <1>6, <1>7, Constants DEF Batch
      <4>3. IsLive(s, n + 1 + b) /\ events'[s][n + 1 + b] = LiveToken(w, i, b)
        BY <1>7, <1>13, <4>1 DEF IsLive
      <4>. QED BY <3>1, <4>2, <4>3
    <3>2. CASE ~(v = w /\ j = i)
      <4>1. j < op[v]
        <5>1. op[v] \in Nat /\ op'[v] \in Nat /\ j \in Nat
          BY <1>0 DEF WorkTypes, Operations
        <5>. QED BY <2>1, <3>2, <5>1
      <4>2. StreamOf(v, j) \in Streams
        BY <1>0, StreamType DEF Operations
      <4>3. PICK x \in 1..Len(events[StreamOf(v, j)]) :
              /\ IsLive(StreamOf(v, j), x)
              /\ events[StreamOf(v, j)][x] = LiveToken(v, j, b)
        BY <2>1, <4>1 DEF WorkInv, EventInv, DoneInv
      <4>4. /\ x \in 1..Len(events'[StreamOf(v, j)])
            /\ events'[StreamOf(v, j)][x] = events[StreamOf(v, j)][x]
        <5>1. CASE StreamOf(v, j) = s
          <6>1. x \in 1..n /\ Len(events'[s]) = n + appendBatchSize
            BY <1>7, <5>1
          <6>2. x \in 1..(n + appendBatchSize)
            <7> HIDE DEF n
            <7>. QED BY <1>6, <6>1, Constants
          <6>. QED BY <1>7, <5>1, <6>1, <6>2
        <5>2. CASE StreamOf(v, j) # s
          <6>1. events'[StreamOf(v, j)] = events[StreamOf(v, j)]
            BY <1>8, <4>2, <5>2
          <6>. QED BY <6>1
        <5>. QED BY <5>1, <5>2
      <4>. QED BY <4>3, <4>4
    <3>. QED BY <3>1, <3>2
  <2>. QED BY <1>15, <2>1 DEF DoneInv, IsLive
<1>. QED BY <1>9, <1>14, <1>18, <1>19, <1>20 DEF EventInv

\* Counting adds to the fields it names.
LEMMA CountEffect ==
  ASSUME WorkTypes, NEW w \in Workers, NEW fields,
         \A f \in DOMAIN fields : fields[f] \in Nat,
         Count(w, fields)
  PROVE  /\ counters' \in [Workers -> [Fields -> Nat]]
         /\ \A v \in Workers \ {w} : counters'[v] = counters[v]
         /\ \A f \in Fields : counters'[w][f] =
              counters[w][f] + (IF f \in DOMAIN fields THEN fields[f] ELSE 0)
<1> DEFINE c == [f \in Fields |->
                   counters[w][f] + (IF f \in DOMAIN fields THEN fields[f] ELSE 0)]
<1>1. counters \in [Workers -> [Fields -> Nat]] /\ DOMAIN counters[w] = Fields
  BY DEF WorkTypes
<1>2. counters' = [counters EXCEPT ![w] = c]
  BY <1>1 DEF Count
<1>3. c \in [Fields -> Nat]
  <2>1. \A f \in Fields :
          counters[w][f] + (IF f \in DOMAIN fields THEN fields[f] ELSE 0) \in Nat
    BY <1>1
  <2>. QED BY <2>1
<1>4. \A f \in Fields : c[f] =
        counters[w][f] + (IF f \in DOMAIN fields THEN fields[f] ELSE 0)
  OBVIOUS
<1> HIDE DEF c
<1>. QED BY <1>1, <1>2, <1>3, <1>4

\* The counters of w, when only it has counted or taken a step.
LEMMA OthersCounts ==
  ASSUME WorkInv, NEW w \in Workers, seed' = seed,
         \A v \in Workers \ {w} : /\ op'[v] = op[v] /\ attempt'[v] = attempt[v]
                                  /\ counters'[v] = counters[v]
                                  /\ worker'[v] = worker[v]
                                  /\ Finished(v)' => Finished(v),
         Appending(w)' => op'[w] \in Operations /\ IsAppend(w, op'[w]),
         worker'[w] \notin {"closing", "gone"}
           => Counted(w, IF Appending(w) THEN 1 ELSE 0)',
         Finished(w)' => op'[w] = operationsPerWorker /\ Counted(w, 0)'
  PROVE  CountInv'
<1>1. \A v, i : IsAppend(v, i)' <=> IsAppend(v, i)
  BY SameOperations
<1>2. ASSUME NEW v \in Workers \ {w}, NEW p PROVE Counted(v, p)' <=> Counted(v, p)
  BY SameCounts, <1>2 DEF Counted
<1>3. ASSUME NEW v \in Workers \ {w} PROVE Appending(v)' <=> Appending(v)
  BY <1>3 DEF Appending
<1>. QED BY <1>1, <1>2, <1>3 DEF WorkInv, CountInv

\* A worker's step disturbs no other worker's counters and keeps the streams as they
\* are, unless it stores.
LEMMA WorkerFacts ==
  ASSUME WorkInv, ProcessInv, NEW w \in Workers, Work(w) \/ Exit(w)
  PROVE  /\ seed' = seed /\ report' = report /\ Forked' = Forked
         /\ \A v \in Workers \ {w} : worker'[v] = worker[v]
         /\ \A v \in Workers : worker[v] \in {"closing", "gone"}
                                 => worker'[v] \in {"closing", "gone"}
         /\ \A v \in Workers : Finished(v)' =>
              Finished(v) \/ (v = w /\ worker'[w] = "closing" /\ Complete(w))
         /\ Finished(w) => worker[w] \in {"closing", "gone"}
         /\ worker' \in [Workers -> States]
<1>0. ProcessTypes
  BY DEF ProcessInv
<1>1. PICK state \in States \ {"none"} :
        /\ UNCHANGED unchangedByWorkers
        /\ worker[w] \notin {"none", "gone"}
        /\ worker' = [worker EXCEPT ![w] = state]
        /\ worker[w] = "closing" => state = "gone"
  BY <1>0, WorkerEffect
<1>2. /\ worker' \in [Workers -> States]
      /\ worker'[w] = state /\ \A v \in Workers \ {w} : worker'[v] = worker[v]
  BY <1>0, <1>1 DEF ProcessTypes
<1>3. seed' = seed /\ report' = report /\ completed' = completed
  BY <1>1 DEF unchangedByWorkers, coordinator, outcome, promises
<1>4. Forked' = Forked
  BY <1>1, <1>2 DEF Forked
<1>5. \A v \in Workers : Finished(v)' =>
        Finished(v) \/ (v = w /\ worker'[w] = "closing" /\ Complete(w))
  BY <1>0, <1>3, WorkerSends DEF Finished
<1>6. Finished(w) => worker[w] \in {"closing", "gone"}
  BY DEF ProcessInv, CompletionInv
<1>. QED BY <1>1, <1>2, <1>3, <1>4, <1>5, <1>6

\* Steps that store nothing, count nothing and end no operation.
LEMMA PlainStep ==
  ASSUME WorkInv, ProcessInv, NEW w \in Workers,
         \/ Initialize(w) \/ Start(w) \/ OperationFails(w) \/ Complete(w) \/ Exit(w)
  PROVE  WorkInv'
<1>0. Work(w) \/ Exit(w)
  BY DEF Work
<1>1. UNCHANGED <<events, op, attempt, counters>>
  BY DEF Initialize, Start, OperationFails, Fail, Complete, Exit, work
<1>2. worker'[w] \in {"idle", "next", "closing", "gone"}
  BY DEF Initialize, Start, OperationFails, Fail, Complete, Exit, Become,
         ProcessInv, ProcessTypes
<1>3. worker'[w] \in {"idle", "next"} => worker[w] \in {"boot", "idle"}
  BY DEF Initialize, Start, OperationFails, Fail, Complete, Exit, Become, Serving,
         ProcessInv, ProcessTypes
<1>4. WorkTypes'
  BY <1>0, <1>1, WorkerFacts DEF WorkInv, WorkTypes
<1>5. EventInv'
  BY <1>0, <1>1, WorkerFacts, StreamsStand
<1>6. Appending(w)' => Appending(w)
  BY <1>1, <1>2 DEF Appending
<1>7. worker'[w] \notin {"closing", "gone"} => (Appending(w)' <=> Appending(w))
  BY <1>1, <1>2, <1>3 DEF Appending
<1>8. ASSUME NEW p PROVE Counted(w, p)' <=> Counted(w, p)
  BY <1>0, <1>1, WorkerFacts, SameCounts DEF Counted
<1>9. Complete(w) => op[w] = operationsPerWorker /\ Counted(w, 0)
  <2> SUFFICES ASSUME Complete(w) PROVE op[w] = operationsPerWorker /\ Counted(w, 0)
    OBVIOUS
  <2>1. worker[w] = "next" /\ op[w] \notin Operations
    BY DEF Complete
  <2>2. op[w] = operationsPerWorker
    BY <2>1, Constants DEF WorkInv, WorkTypes, Operations
  <2>3. ~Appending(w) /\ worker[w] \notin {"closing", "gone"}
    BY <2>1 DEF WorkInv, CountInv
  <2>. QED BY <2>2, <2>3 DEF WorkInv, CountInv
<1>10. Finished(w)' => op'[w] = operationsPerWorker /\ Counted(w, 0)'
  BY <1>0, <1>1, <1>8, <1>9, WorkerFacts DEF WorkInv, CountInv
<1>11. worker'[w] \notin {"closing", "gone"}
         => Counted(w, IF Appending(w) THEN 1 ELSE 0)'
  <2> SUFFICES ASSUME worker'[w] \notin {"closing", "gone"}
               PROVE  Counted(w, IF Appending(w) THEN 1 ELSE 0)'
    OBVIOUS
  <2>1. Counted(w, IF Appending(w) THEN 1 ELSE 0)
    BY <1>2, <1>3 DEF WorkInv, CountInv
  <2>2. CASE Appending(w)
    BY <1>7, <1>8, <2>1, <2>2
  <2>3. CASE ~Appending(w)
    BY <1>7, <1>8, <2>1, <2>3
  <2>. QED BY <2>2, <2>3
<1>12. \A i : IsAppend(w, i)' <=> IsAppend(w, i)
  BY <1>0, WorkerFacts, SameOperations
<1>13. Appending(w)' => op'[w] \in Operations /\ IsAppend(w, op'[w])
  BY <1>1, <1>6 DEF WorkInv, CountInv
<1>14. \A v \in Workers \ {w} : /\ op'[v] = op[v] /\ attempt'[v] = attempt[v]
                                /\ counters'[v] = counters[v]
                                /\ worker'[v] = worker[v]
                                /\ Finished(v)' => Finished(v)
  BY <1>0, <1>1, WorkerFacts
<1>15. CountInv'
  BY <1>0, <1>10, <1>11, <1>13, <1>14, WorkerFacts, OthersCounts
<1>. QED BY <1>0, <1>4, <1>5, <1>15, WorkerFacts DEF WorkInv

\* The version is read: the attempt is counted, once for each operation.
LEMMA ReadVersionStep ==
  ASSUME WorkInv, ProcessInv, NEW w \in Workers, ReadVersion(w)
  PROVE  WorkInv'
<1>0. Work(w) \/ Exit(w)
  BY DEF Work
<1>1. /\ UNCHANGED <<events, op, attempt>>
      /\ worker[w] = "next" /\ worker'[w] = "append"
      /\ op[w] \in Operations /\ IsAppend(w, op[w])
      /\ Count(w, IF attempt[w] = 0 THEN [attempted |-> 1] ELSE <<>>)
  BY DEF ReadVersion, Become, Serving, ProcessInv, ProcessTypes
<1>2. /\ counters' \in [Workers -> [Fields -> Nat]]
      /\ \A v \in Workers \ {w} : counters'[v] = counters[v]
      /\ counters'[w].attempted = counters[w].attempted + (IF attempt[w] = 0 THEN 1 ELSE 0)
      /\ \A f \in Fields \ {"attempted"} : counters'[w][f] = counters[w][f]
  <2>0. WorkTypes /\ counters[w] \in [Fields -> Nat]
    BY DEF WorkInv, WorkTypes
  <2>1. CASE attempt[w] = 0
    <3> DEFINE fields == [attempted |-> 1]
    <3>1. Count(w, fields) /\ DOMAIN fields = {"attempted"} /\ fields["attempted"] = 1
      BY <1>1, <2>1
    <3> HIDE DEF fields
    <3>2. /\ counters' \in [Workers -> [Fields -> Nat]]
          /\ \A v \in Workers \ {w} : counters'[v] = counters[v]
          /\ \A f \in Fields : counters'[w][f] =
               counters[w][f] + (IF f \in DOMAIN fields THEN fields[f] ELSE 0)
      BY <2>0, <3>1, CountEffect
    <3>. QED BY <2>0, <2>1, <3>1, <3>2 DEF Fields
  <2>2. CASE attempt[w] # 0
    <3>1. Count(w, <<>>) /\ DOMAIN <<>> = {}
      BY <1>1, <2>2
    <3>2. /\ counters' \in [Workers -> [Fields -> Nat]]
          /\ \A v \in Workers \ {w} : counters'[v] = counters[v]
          /\ \A f \in Fields : counters'[w][f] = counters[w][f] + 0
      BY <2>0, <3>1, CountEffect
    <3>. QED BY <2>0, <2>2, <3>2 DEF Fields
  <2>. QED BY <2>1, <2>2
<1>3. WorkTypes'
  BY <1>0, <1>1, <1>2, WorkerFacts DEF WorkInv, WorkTypes
<1>4. EventInv'
  BY <1>0, <1>1, WorkerFacts, StreamsStand
<1>5. Appending(w)' /\ (Appending(w) <=> attempt[w] # 0) /\ attempt[w] \in Nat
  BY <1>1 DEF Appending, WorkInv, WorkTypes
<1>6. Counted(w, 1)'
  <2>1. Counted(w, IF Appending(w) THEN 1 ELSE 0)
    BY <1>1 DEF WorkInv, CountInv
  <2>2. op[w] \in Nat
    BY <1>1 DEF Operations
  <2>3. Cardinality(AppendsBefore(w, op[w])) \in Nat
    BY <2>2, BeforeFinite
  <2>4. /\ counters'[w].attempted = Cardinality(AppendsBefore(w, op[w])) + 1
        /\ counters'[w].succeeded = Cardinality(AppendsBefore(w, op[w]))
        /\ counters'[w].eventCount = Cardinality(AppendsBefore(w, op[w])) * appendBatchSize
        /\ counters'[w].loads = Cardinality(LoadsBefore(w, op[w]))
        /\ counters'[w].loadsSucceeded = Cardinality(LoadsBefore(w, op[w]))
    BY <1>2, <1>5, <2>1, <2>3 DEF Counted, Fields
  <2>. QED BY <1>0, <1>1, <2>4, WorkerFacts, SameCounts DEF Counted
<1>7. \A i : IsAppend(w, i)' <=> IsAppend(w, i)
  BY <1>0, WorkerFacts, SameOperations
<1>8. Appending(w)' => op'[w] \in Operations /\ IsAppend(w, op'[w])
  BY <1>1
<1>9. ~Finished(w)'
  BY <1>0, <1>1, WorkerFacts
<1>10. CountInv'
  <2>1. \A v \in Workers \ {w} : /\ op'[v] = op[v] /\ attempt'[v] = attempt[v]
                                 /\ counters'[v] = counters[v]
                                 /\ worker'[v] = worker[v]
                                 /\ Finished(v)' => Finished(v)
    BY <1>0, <1>1, <1>2, WorkerFacts
  <2>2. Counted(w, IF Appending(w) THEN 1 ELSE 0)'
    BY <1>5, <1>6
  <2>. QED BY <1>0, <1>8, <1>9, <2>1, <2>2, WorkerFacts, OthersCounts
<1>. QED BY <1>0, <1>3, <1>4, <1>10, WorkerFacts DEF WorkInv

\* A load ends an operation that is no append.
LEMMA LoadStreamStep ==
  ASSUME WorkInv, ProcessInv, NEW w \in Workers, LoadStream(w)
  PROVE  WorkInv'
<1>0. Work(w) \/ Exit(w)
  BY DEF Work
<1>1. /\ UNCHANGED <<events, attempt, worker>>
      /\ worker[w] = "next" /\ op[w] \in Operations /\ ~IsAppend(w, op[w])
      /\ op' = [op EXCEPT ![w] = @ + 1]
      /\ Count(w, [loads |-> 1, loadsSucceeded |-> 1])
  BY DEF LoadStream, Serving
<1>2. /\ counters' \in [Workers -> [Fields -> Nat]]
      /\ \A v \in Workers \ {w} : counters'[v] = counters[v]
      /\ \A f \in {"loads", "loadsSucceeded"} : counters'[w][f] = counters[w][f] + 1
      /\ \A f \in {"attempted", "succeeded", "eventCount"} :
           counters'[w][f] = counters[w][f]
  <2>0. WorkTypes /\ counters[w] \in [Fields -> Nat]
    BY DEF WorkInv, WorkTypes
  <2> DEFINE fields == [loads |-> 1, loadsSucceeded |-> 1]
  <2>1. /\ Count(w, fields) /\ DOMAIN fields = {"loads", "loadsSucceeded"}
        /\ fields["loads"] = 1 /\ fields["loadsSucceeded"] = 1
    BY <1>1
  <2> HIDE DEF fields
  <2>2. /\ counters' \in [Workers -> [Fields -> Nat]]
        /\ \A v \in Workers \ {w} : counters'[v] = counters[v]
        /\ \A f \in Fields : counters'[w][f] =
             counters[w][f] + (IF f \in DOMAIN fields THEN fields[f] ELSE 0)
    BY <2>0, <2>1, CountEffect
  <2>. QED BY <2>0, <2>1, <2>2 DEF Fields
<1>3. /\ op[w] \in Nat /\ op'[w] = op[w] + 1 /\ op'[w] \in 0..operationsPerWorker
      /\ \A v \in Workers \ {w} : op'[v] = op[v]
      /\ op' \in [Workers -> 0..operationsPerWorker]
  BY <1>1, Constants DEF WorkInv, WorkTypes, Operations
<1>4. WorkTypes'
  BY <1>0, <1>1, <1>2, <1>3, WorkerFacts DEF WorkInv, WorkTypes
<1>5. EventInv'
  <2>1. \A v \in Workers : \/ op'[v] = op[v]
                           \/ op'[v] = op[v] + 1 /\ ~IsAppend(v, op[v])
    BY <1>1, <1>3
  <2>. QED BY <1>0, <1>1, <2>1, WorkerFacts, StreamsStand
<1>6. ~Appending(w) /\ ~Appending(w)'
  BY <1>1 DEF Appending, WorkInv, CountInv
<1>7. Counted(w, 0)'
  <2>1. Counted(w, 0)
    BY <1>1, <1>6 DEF WorkInv, CountInv
  <2>2. /\ Cardinality(AppendsBefore(w, op[w] + 1)) = Cardinality(AppendsBefore(w, op[w]))
        /\ Cardinality(LoadsBefore(w, op[w] + 1)) = Cardinality(LoadsBefore(w, op[w])) + 1
        /\ Cardinality(AppendsBefore(w, op[w])) \in Nat
    BY <1>1, <1>3, OneMore, BeforeFinite
  <2>3. /\ counters'[w].attempted = Cardinality(AppendsBefore(w, op[w] + 1)) + 0
        /\ counters'[w].succeeded = Cardinality(AppendsBefore(w, op[w] + 1))
        /\ counters'[w].eventCount
             = Cardinality(AppendsBefore(w, op[w] + 1)) * appendBatchSize
        /\ counters'[w].loads = Cardinality(LoadsBefore(w, op[w] + 1))
        /\ counters'[w].loadsSucceeded = Cardinality(LoadsBefore(w, op[w] + 1))
    BY <1>2, <2>1, <2>2 DEF Counted
  <2>. QED BY <1>0, <1>3, <2>3, WorkerFacts, SameCounts DEF Counted
<1>8. ~Finished(w)'
  BY <1>0, <1>1, WorkerFacts
<1>9. CountInv'
  <2>1. \A v \in Workers \ {w} : /\ op'[v] = op[v] /\ attempt'[v] = attempt[v]
                                 /\ counters'[v] = counters[v]
                                 /\ worker'[v] = worker[v]
                                 /\ Finished(v)' => Finished(v)
    BY <1>0, <1>1, <1>2, <1>3, WorkerFacts
  <2>2. Counted(w, IF Appending(w) THEN 1 ELSE 0)'
    BY <1>6, <1>7
  <2>. QED BY <1>0, <1>6, <1>8, <2>1, <2>2, WorkerFacts, OthersCounts
<1>. QED BY <1>0, <1>4, <1>5, <1>9, WorkerFacts DEF WorkInv

\* An append that is answered ends its operation.
LEMMA AppendEventsStep ==
  ASSUME WorkInv, ProcessInv, NEW w \in Workers, AppendEvents(w)
  PROVE  WorkInv'
<1>0. Work(w) \/ Exit(w)
  BY DEF Work
<1>1. /\ worker[w] = "append" /\ worker'[w] = "next"
      /\ StoreEvents(w)
      /\ op' = [op EXCEPT ![w] = @ + 1]
      /\ attempt' = [attempt EXCEPT ![w] = 0]
      /\ Count(w, [succeeded |-> 1, eventCount |-> appendBatchSize])
  BY DEF AppendEvents, Become, ProcessInv, ProcessTypes
<1>2. Appending(w) /\ op[w] \in Operations /\ IsAppend(w, op[w])
  BY <1>1 DEF Appending, WorkInv, CountInv
<1>3. /\ counters' \in [Workers -> [Fields -> Nat]]
      /\ \A v \in Workers \ {w} : counters'[v] = counters[v]
      /\ counters'[w].succeeded = counters[w].succeeded + 1
      /\ counters'[w].eventCount = counters[w].eventCount + appendBatchSize
      /\ \A f \in {"attempted", "loads", "loadsSucceeded"} :
           counters'[w][f] = counters[w][f]
  <2>0. WorkTypes /\ counters[w] \in [Fields -> Nat]
    BY DEF WorkInv, WorkTypes
  <2> DEFINE fields == [succeeded |-> 1, eventCount |-> appendBatchSize]
  <2>1. /\ Count(w, fields) /\ DOMAIN fields = {"succeeded", "eventCount"}
        /\ fields["succeeded"] = 1 /\ fields["eventCount"] = appendBatchSize
    BY <1>1
  <2>2. \A f \in DOMAIN fields : fields[f] \in Nat
    BY <2>1, Constants
  <2> HIDE DEF fields
  <2>3. /\ counters' \in [Workers -> [Fields -> Nat]]
        /\ \A v \in Workers \ {w} : counters'[v] = counters[v]
        /\ \A f \in Fields : counters'[w][f] =
             counters[w][f] + (IF f \in DOMAIN fields THEN fields[f] ELSE 0)
    BY <2>0, <2>1, <2>2, CountEffect
  <2>. QED BY <2>0, <2>1, <2>3 DEF Fields
<1>4. /\ op[w] \in Nat /\ op'[w] = op[w] + 1
      /\ \A v \in Workers \ {w} : op'[v] = op[v]
      /\ op' \in [Workers -> 0..operationsPerWorker]
      /\ attempt' \in [Workers -> Nat] /\ attempt'[w] = 0
      /\ \A v \in Workers \ {w} : attempt'[v] = attempt[v]
  BY <1>1, <1>2, Constants DEF WorkInv, WorkTypes, Operations
<1>5. EventInv' /\ events' \in [Streams -> Seq(Tokens)]
  <2>1. ASSUME NEW i, i = op[w], NEW s, s = StreamOf(w, i)
        PROVE  EventInv' /\ events' \in [Streams -> Seq(Tokens)]
    BY <1>0, <1>1, <1>4, <2>1, WorkerFacts, StoreStep
  <2>. QED BY <2>1
<1>6. WorkTypes'
  BY <1>0, <1>3, <1>4, <1>5, WorkerFacts DEF WorkInv, WorkTypes
<1>7. ~Appending(w)'
  BY <1>1, <1>4 DEF Appending
<1>8. Counted(w, 0)'
  <2> DEFINE a == Cardinality(AppendsBefore(w, op[w]))
             l == Cardinality(LoadsBefore(w, op[w]))
  <2>1. Counted(w, 1)
    BY <1>1, <1>2 DEF WorkInv, CountInv
  <2>2. /\ Cardinality(AppendsBefore(w, op[w] + 1)) = a + 1
        /\ Cardinality(LoadsBefore(w, op[w] + 1)) = l
        /\ a \in Nat /\ l \in Nat
    BY <1>2, <1>4, OneMore, BeforeFinite
  <2>3. /\ counters[w].attempted = a + 1 /\ counters[w].succeeded = a
        /\ counters[w].eventCount = a * appendBatchSize
        /\ counters[w].loads = l /\ counters[w].loadsSucceeded = l
    BY <2>1 DEF Counted
  <2>4. a * appendBatchSize + appendBatchSize = (a + 1) * appendBatchSize
    <3> HIDE DEF a
    <3>. QED BY <2>2, Constants
  <2> HIDE DEF a, l
  <2>5. /\ counters'[w].attempted = Cardinality(AppendsBefore(w, op[w] + 1)) + 0
        /\ counters'[w].succeeded = Cardinality(AppendsBefore(w, op[w] + 1))
        /\ counters'[w].eventCount
             = Cardinality(AppendsBefore(w, op[w] + 1)) * appendBatchSize
        /\ counters'[w].loads = Cardinality(LoadsBefore(w, op[w] + 1))
        /\ counters'[w].loadsSucceeded = Cardinality(LoadsBefore(w, op[w] + 1))
    BY <1>3, <2>2, <2>3, <2>4
  <2>. QED BY <1>0, <1>4, <2>5, WorkerFacts, SameCounts DEF Counted
<1>9. ~Finished(w)'
  BY <1>0, <1>1, WorkerFacts
<1>10. CountInv'
  <2>1. \A v \in Workers \ {w} : /\ op'[v] = op[v] /\ attempt'[v] = attempt[v]
                                 /\ counters'[v] = counters[v]
                                 /\ worker'[v] = worker[v]
                                 /\ Finished(v)' => Finished(v)
    BY <1>0, <1>3, <1>4, WorkerFacts
  <2>2. Counted(w, IF Appending(w) THEN 1 ELSE 0)'
    BY <1>7, <1>8
  <2>. QED BY <1>0, <1>7, <1>9, <2>1, <2>2, WorkerFacts, OthersCounts
<1>. QED BY <1>0, <1>5, <1>6, <1>10, WorkerFacts DEF WorkInv

\* A conflict: the operation is tried again.
LEMMA RetryStep ==
  ASSUME WorkInv, ProcessInv, NEW w \in Workers, RetryConflict(w)
  PROVE  WorkInv'
<1>0. Work(w) \/ Exit(w)
  BY DEF Work
<1>1. /\ UNCHANGED <<events, op, counters>>
      /\ worker[w] = "append" /\ worker'[w] = "next"
      /\ attempt' = [attempt EXCEPT ![w] = @ + 1]
  BY DEF RetryConflict, Become, ProcessInv, ProcessTypes
<1>2. /\ attempt' \in [Workers -> Nat] /\ attempt'[w] > 0
      /\ \A v \in Workers \ {w} : attempt'[v] = attempt[v]
  BY <1>1 DEF WorkInv, WorkTypes
<1>3. WorkTypes'
  BY <1>0, <1>1, <1>2, WorkerFacts DEF WorkInv, WorkTypes
<1>4. EventInv'
  BY <1>0, <1>1, WorkerFacts, StreamsStand
<1>5. Appending(w) /\ Appending(w)'
  BY <1>1, <1>2 DEF Appending
<1>6. Counted(w, 1)'
  <2>1. Counted(w, 1)
    BY <1>1, <1>5 DEF WorkInv, CountInv
  <2>. QED BY <1>0, <1>1, <2>1, WorkerFacts, SameCounts DEF Counted
<1>7. op[w] \in Operations /\ IsAppend(w, op[w])
  BY <1>5 DEF WorkInv, CountInv
<1>8. \A i : IsAppend(w, i)' <=> IsAppend(w, i)
  BY <1>0, WorkerFacts, SameOperations
<1>9. ~Finished(w)'
  BY <1>0, <1>1, WorkerFacts
<1>10. CountInv'
  <2>1. \A v \in Workers \ {w} : /\ op'[v] = op[v] /\ attempt'[v] = attempt[v]
                                 /\ counters'[v] = counters[v]
                                 /\ worker'[v] = worker[v]
                                 /\ Finished(v)' => Finished(v)
    BY <1>0, <1>1, <1>2, WorkerFacts
  <2>2. Counted(w, IF Appending(w) THEN 1 ELSE 0)'
    BY <1>5, <1>6
  <2>3. Appending(w)' => op'[w] \in Operations /\ IsAppend(w, op'[w])
    BY <1>1, <1>7
  <2>. QED BY <1>0, <1>9, <2>1, <2>2, <2>3, WorkerFacts, OthersCounts
<1>. QED BY <1>0, <1>3, <1>4, <1>10, WorkerFacts DEF WorkInv

\* The answer is lost: the events are stored, and the worker ends.
LEMMA LoseAnswerStep ==
  ASSUME WorkInv, ProcessInv, NEW w \in Workers, LoseAnswer(w)
  PROVE  WorkInv'
<1>0. Work(w) \/ Exit(w)
  BY DEF Work
<1>1. /\ UNCHANGED <<op, attempt, counters>>
      /\ worker[w] = "append" /\ worker'[w] = "closing"
      /\ StoreEvents(w)
  BY DEF LoseAnswer, Fail, work, Become, ProcessInv, ProcessTypes
<1>2. EventInv' /\ events' \in [Streams -> Seq(Tokens)]
  <2>1. ASSUME NEW i, i = op[w], NEW s, s = StreamOf(w, i)
        PROVE  EventInv' /\ events' \in [Streams -> Seq(Tokens)]
    BY <1>0, <1>1, <2>1, WorkerFacts, StoreStep DEF WorkInv, WorkTypes
  <2>. QED BY <2>1
<1>3. WorkTypes'
  BY <1>0, <1>1, <1>2, WorkerFacts DEF WorkInv, WorkTypes
<1>4. op[w] \in Operations /\ IsAppend(w, op[w])
  BY <1>1 DEF Appending, WorkInv, CountInv
<1>5. ~Finished(w)'
  <2>1. ~Complete(w)
    BY <1>1 DEF Complete
  <2>. QED BY <1>0, <1>1, <2>1, WorkerFacts
<1>6. CountInv'
  <2>1. \A v \in Workers \ {w} : /\ op'[v] = op[v] /\ attempt'[v] = attempt[v]
                                 /\ counters'[v] = counters[v]
                                 /\ worker'[v] = worker[v]
                                 /\ Finished(v)' => Finished(v)
    BY <1>0, <1>1, WorkerFacts
  <2>. QED BY <1>0, <1>1, <1>4, <1>5, <2>1, WorkerFacts, OthersCounts
<1>. QED BY <1>0, <1>2, <1>3, <1>6, WorkerFacts DEF WorkInv

-----------------------------------------------------------------------------
(* Verification.                                                           *)

\* Induction up to k, about a set of numbers.
LEMMA UpTo ==
  ASSUME NEW k \in Nat, NEW S, 0 \in S, \A i \in 1..k : i - 1 \in S => i \in S
  PROVE  \A i \in 0..k : i \in S
<1> DEFINE Missing == {i \in 0..k : i \notin S}
<1>1. SUFFICES ASSUME Missing # {} PROVE FALSE
  OBVIOUS
<1>2. Missing \in SUBSET Nat
  OBVIOUS
<1>3. PICK p \in Missing : \A q \in Missing : p <= q
  <2> HIDE DEF Missing
  <2>. QED BY <1>1, <1>2, Smallest
<1>4. p \in 1..k
  BY <1>3
<1>5. p - 1 \in 0..k /\ ~(p <= p - 1)
  BY <1>4
<1>6. p - 1 \in S
  BY <1>3, <1>5
<1>. QED BY <1>3, <1>4, <1>6

\* The operations of w among O, and those of the workers before the n-th.
OperationsOf(O, w) == {i \in Operations : <<w, i>> \in O}
OfFirst(O, n) == {o \in O : o[1] < n}

LEMMA OfNext ==
  ASSUME NEW O \in SUBSET (Workers \X Operations), NEW n \in Workers
  PROVE  /\ Cardinality(OfFirst(O, n + 1))
              = Cardinality(OfFirst(O, n)) + Cardinality(OperationsOf(O, n))
         /\ Cardinality(OfFirst(O, n)) \in Nat /\ Cardinality(OperationsOf(O, n)) \in Nat
<1> DEFINE next == {n} \X OperationsOf(O, n)
<1>1. n \in Nat /\ \A o \in O : o[1] \in Nat /\ o = <<o[1], o[2]>> /\ o[2] \in Operations
  BY DEF Workers
<1>2. IsFiniteSet(OperationsOf(O, n)) /\ Cardinality(OperationsOf(O, n)) \in Nat
  <2>1. IsFiniteSet(Operations)
    BY Constants, FS_Interval DEF Operations
  <2>2. OperationsOf(O, n) \in SUBSET Operations
    BY DEF OperationsOf
  <2>. QED BY <2>1, <2>2, FS_Subset, FS_CardinalityType
<1>3. IsFiniteSet(next) /\ Cardinality(next) = Cardinality(OperationsOf(O, n))
  <2>1. IsFiniteSet({n}) /\ Cardinality({n}) = 1
    BY FS_Singleton
  <2>. QED BY <1>2, <2>1, FS_Product
<1>4. IsFiniteSet(OfFirst(O, n)) /\ Cardinality(OfFirst(O, n)) \in Nat
  <2>1. IsFiniteSet(Workers) /\ IsFiniteSet(Operations)
    BY Constants, FS_Interval DEF Workers, Operations
  <2>2. IsFiniteSet(Workers \X Operations)
    BY <2>1, FS_Product
  <2>3. OfFirst(O, n) \in SUBSET (Workers \X Operations)
    BY DEF OfFirst
  <2>. QED BY <2>2, <2>3, FS_Subset, FS_CardinalityType
<1>5. OfFirst(O, n + 1) = OfFirst(O, n) \cup next
  <2>1. ASSUME NEW o \in O PROVE o[1] < n + 1 <=> o[1] < n \/ o[1] = n
    BY <1>1
  <2>2. ASSUME NEW o \in O, o[1] = n PROVE o \in next
    BY <1>1, <2>2 DEF OperationsOf
  <2>3. \A o \in next : o \in O /\ o[1] = n
    BY DEF OperationsOf
  <2> HIDE DEF next
  <2>. QED BY <2>1, <2>2, <2>3 DEF OfFirst
<1>6. OfFirst(O, n) \cap next = {}
  BY <1>1 DEF OfFirst
<1> HIDE DEF next
<1>7. Cardinality(OfFirst(O, n) \cup next) = Cardinality(OfFirst(O, n)) + Cardinality(next) - 0
  BY <1>3, <1>4, <1>6, FS_Union, FS_EmptySet
<1>8. Cardinality(OfFirst(O, n + 1)) = Cardinality(OfFirst(O, n)) + Cardinality(next) - 0
  BY <1>5, <1>7
<1>. QED BY <1>2, <1>3, <1>4, <1>8

\* A counter that each worker has for its own operations among O comes to O's.
LEMMA TotalOf ==
  ASSUME NEW O \in SUBSET (Workers \X Operations), NEW k \in Nat, NEW field,
         \A w \in Workers : counters[w][field] = Cardinality(OperationsOf(O, w)) * k
  PROVE  Total(field) = Cardinality(O) * k
<1> DEFINE first == [n \in 0..workerCount |-> Cardinality(OfFirst(O, n)) * k]
           Sum(f) == f = [n \in 0..workerCount |->
                            IF n = 0 THEN 0 ELSE f[n - 1] + counters[n - 1][field]]
           sum == CHOOSE f : Sum(f)
<1>1. workerCount \in Nat /\ 0 \in 0..workerCount /\ workerCount \in 0..workerCount
  BY Constants
<1>2. first[0] = 0
  <2>1. OfFirst(O, 0) = {}
    BY DEF OfFirst, Workers
  <2>. QED BY <1>1, <2>1, FS_EmptySet
<1>3. ASSUME NEW n \in 1..workerCount
      PROVE  n - 1 \in Workers /\ first[n] = first[n - 1] + counters[n - 1][field]
  <2>1. n - 1 \in Workers /\ n - 1 \in 0..workerCount /\ n \in 0..workerCount /\ n # 0
        /\ (n - 1) + 1 = n
    BY Constants DEF Workers
  <2>2. /\ Cardinality(OfFirst(O, n)) = Cardinality(OfFirst(O, n - 1))
                                          + Cardinality(OperationsOf(O, n - 1))
        /\ Cardinality(OfFirst(O, n - 1)) \in Nat
        /\ Cardinality(OperationsOf(O, n - 1)) \in Nat
    BY <2>1, OfNext
  <2>3. \A a, b \in Nat : (a + b) * k = a * k + b * k
    OBVIOUS
  <2>4. Cardinality(OfFirst(O, n)) * k = Cardinality(OfFirst(O, n - 1)) * k
                                           + Cardinality(OperationsOf(O, n - 1)) * k
    BY <2>2, <2>3
  <2>. QED BY <2>1, <2>4
<1>4. Sum(first)
  <2>1. \A n \in 0..workerCount : first[n] =
          IF n = 0 THEN 0 ELSE first[n - 1] + counters[n - 1][field]
    <3> HIDE DEF first
    <3>. QED BY <1>2, <1>3
  <2>2. first = [n \in 0..workerCount |-> first[n]]
    OBVIOUS
  <2> HIDE DEF first
  <2>. QED BY <2>1, <2>2
<1>5. Sum(sum)
  <2> HIDE DEF first, Sum
  <2>. QED BY <1>4
<1>6. \A n \in 0..workerCount : sum[n] =
        IF n = 0 THEN 0 ELSE sum[n - 1] + counters[n - 1][field]
  <2> HIDE DEF sum
  <2>. QED BY <1>5
<1>7. \A n \in 0..workerCount : sum[n] = first[n]
  <2> DEFINE S == {n \in 0..workerCount : sum[n] = first[n]}
  <2> HIDE DEF sum, first
  <2>1. 0 \in S
    BY <1>1, <1>2, <1>6
  <2>2. ASSUME NEW n \in 1..workerCount, n - 1 \in S PROVE n \in S
    <3>1. n \in 0..workerCount /\ n # 0
      OBVIOUS
    <3>2. sum[n] = sum[n - 1] + counters[n - 1][field]
      BY <1>6, <3>1
    <3>. QED BY <1>3, <2>2, <3>1, <3>2
  <2>3. \A n \in 0..workerCount : n \in S
    <3> HIDE DEF S
    <3>. QED BY <1>1, <2>1, <2>2, UpTo
  <2>. QED BY <2>3
<1>8. OfFirst(O, workerCount) = O
  BY Constants DEF OfFirst, Workers
<1>9. first[workerCount] = Cardinality(O) * k
  BY <1>1, <1>8
<1>10. Total(field) = sum[workerCount]
  BY DEF Total
<1> HIDE DEF sum, first
<1>. QED BY <1>1, <1>7, <1>9, <1>10

LEMMA OperationsFinite ==
  /\ IsFiniteSet(expectedAppends) /\ Cardinality(expectedAppends) \in Nat
  /\ expectedAppends \in SUBSET (Workers \X Operations)
  /\ expectedLoads \in SUBSET (Workers \X Operations)
  /\ IsFiniteSet(expectedLoads) /\ Cardinality(expectedLoads) \in Nat
<1>1. IsFiniteSet(Workers) /\ IsFiniteSet(Operations)
  BY Constants, FS_Interval DEF Workers, Operations
<1>2. IsFiniteSet(Workers \X Operations)
  BY <1>1, FS_Product
<1>3. /\ expectedAppends \in SUBSET (Workers \X Operations)
      /\ expectedLoads \in SUBSET (Workers \X Operations)
  BY DEF expectedAppends, expectedLoads
<1>. QED BY <1>2, <1>3, FS_Subset, FS_CardinalityType

\* The workers' counters come to the operations expected of all.
LEMMA CountersVerified ==
  ASSUME WorkInv, \A w \in Workers : Finished(w)
  PROVE  CountersAgree
<1>1. ASSUME NEW w \in Workers
      PROVE  /\ AppendsBefore(w, op[w]) = OperationsOf(expectedAppends, w)
             /\ LoadsBefore(w, op[w]) = OperationsOf(expectedLoads, w)
             /\ Counted(w, 0)
  <2>1. op[w] = operationsPerWorker /\ Counted(w, 0)
    BY DEF WorkInv, CountInv
  <2>. QED BY <2>1 DEF AppendsBefore, LoadsBefore, OperationsOf, expectedAppends,
                       expectedLoads, Operations
<1>2. ASSUME NEW w \in Workers
      PROVE  /\ Cardinality(OperationsOf(expectedAppends, w)) \in Nat
             /\ Cardinality(OperationsOf(expectedLoads, w)) \in Nat
  BY OfNext, OperationsFinite
<1>3. ASSUME NEW w \in Workers
      PROVE  /\ counters[w].attempted = Cardinality(OperationsOf(expectedAppends, w)) * 1
             /\ counters[w].succeeded = Cardinality(OperationsOf(expectedAppends, w)) * 1
             /\ counters[w].eventCount
                  = Cardinality(OperationsOf(expectedAppends, w)) * appendBatchSize
             /\ counters[w].loads = Cardinality(OperationsOf(expectedLoads, w)) * 1
             /\ counters[w].loadsSucceeded = Cardinality(OperationsOf(expectedLoads, w)) * 1
  BY <1>1, <1>2 DEF Counted
<1>4. /\ Total("attempted") = Cardinality(expectedAppends) * 1
      /\ Total("succeeded") = Cardinality(expectedAppends) * 1
      /\ Total("eventCount") = Cardinality(expectedAppends) * appendBatchSize
      /\ Total("loads") = Cardinality(expectedLoads) * 1
      /\ Total("loadsSucceeded") = Cardinality(expectedLoads) * 1
  BY <1>3, TotalOf, OperationsFinite, Constants
<1>. QED BY <1>4, OperationsFinite DEF CountersAgree

\* What the streams hold is what is expected, no more and no less.
LEMMA StreamsVerified ==
  ASSUME WorkInv, ProcessInv, Forked = Workers, \A w \in Workers : Finished(w)
  PROVE  verifyStreams /\ \A s \in Streams : Len(events[s]) >= historyEventsPerStream
<1>0. Forked # {}
  BY Constants
<1>1. \A s \in Streams : /\ Len(events[s]) >= historyEventsPerStream
                         /\ Len(events[s]) \in Nat /\ DOMAIN events[s] = 1..Len(events[s])
  BY <1>0 DEF WorkInv, WorkTypes, EventInv, SeedInv
<1>2. \A w \in Workers : op[w] = operationsPerWorker
  BY DEF WorkInv, CountInv
<1> DEFINE expected == expectedAppends \X Batch
           Event(p) == LiveToken(p[1][1], p[1][2], p[2])
<1>3. ASSUME NEW s \in Streams, NEW v \in LiveVersions(s)
      PROVE  /\ v \in 1..Len(events[s]) /\ IsLive(s, v)
             /\ \E p \in expected : events[s][v] = Event(p) /\ StreamOf(p[1][1], p[1][2]) = s
  <2>1. v \in 1..Len(events[s]) /\ IsLive(s, v)
    BY <1>1 DEF LiveVersions, IsLive
  <2>2. PICK w \in Workers, i \in Operations, b \in Batch :
          /\ events[s][v] = LiveToken(w, i, b)
          /\ IsAppend(w, i) /\ StreamOf(w, i) = s
    BY <2>1 DEF WorkInv, EventInv, OriginInv
  <2>3. <<w, i>> \in expectedAppends
    BY <2>2 DEF expectedAppends
  <2>4. <<<<w, i>>, b>> \in expected /\ Event(<<<<w, i>>, b>>) = LiveToken(w, i, b)
    BY <2>3
  <2>. QED BY <2>1, <2>2, <2>4
<1>4. ASSUME NEW p \in expected
      PROVE  \E s \in Streams : \E v \in LiveVersions(s) : events[s][v] = Event(p)
  <2>1. PICK w \in Workers, i \in Operations, b \in Batch :
          p = <<<<w, i>>, b>> /\ IsAppend(w, i)
    BY DEF expectedAppends
  <2>2. StreamOf(w, i) \in Streams /\ i < op[w]
    <3>1. i \in Nat /\ i < operationsPerWorker /\ seed \in Nat
      BY Constants DEF WorkInv, WorkTypes, Operations
    <3>. QED BY <1>2, <3>1, StreamType
  <2>3. PICK v \in 1..Len(events[StreamOf(w, i)]) :
          /\ IsLive(StreamOf(w, i), v)
          /\ events[StreamOf(w, i)][v] = LiveToken(w, i, b)
    BY <2>1, <2>2 DEF WorkInv, EventInv, DoneInv
  <2>4. v \in LiveVersions(StreamOf(w, i))
    BY <1>1, <2>2, <2>3 DEF LiveVersions, IsLive
  <2>. QED BY <2>1, <2>2, <2>3, <2>4
<1>5. seenLiveEvents = {Event(p) : p \in expected}
  <2>1. \A e \in seenLiveEvents : \E p \in expected : e = Event(p)
    BY <1>3 DEF seenLiveEvents
  <2>2. \A p \in expected : Event(p) \in seenLiveEvents
    BY <1>4 DEF seenLiveEvents
  <2> HIDE DEF Event, expected
  <2>. QED BY <2>1, <2>2
<1>6. Cardinality(seenLiveEvents) = Cardinality(expected) /\ IsFiniteSet(expected)
  <2> DEFINE f == [p \in expected |-> Event(p)]
  <2>1. IsFiniteSet(Batch)
    BY Constants, FS_Interval DEF Batch
  <2>2. IsFiniteSet(expected)
    BY <2>1, OperationsFinite, FS_Product
  <2>3. ASSUME NEW p \in expected, NEW q \in expected, Event(p) = Event(q) PROVE p = q
    <3>1. p[1][1] = q[1][1] /\ p[1][2] = q[1][2] /\ p[2] = q[2]
      BY <2>3 DEF LiveToken
    <3>2. /\ p = <<<<p[1][1], p[1][2]>>, p[2]>>
          /\ q = <<<<q[1][1], q[1][2]>>, q[2]>>
      BY DEF expectedAppends
    <3>. QED BY <3>1, <3>2
  <2>4. f \in Bijection(expected, seenLiveEvents)
    <3> HIDE DEF Event, expected
    <3>1. f \in [expected -> seenLiveEvents]
      BY <1>5
    <3>2. \A p, q \in expected : f[p] = f[q] => p = q
      BY <2>3
    <3>3. \A e \in seenLiveEvents : \E p \in expected : f[p] = e
      BY <1>5
    <3>. QED BY <3>1, <3>2, <3>3 DEF Bijection, Injection, IsInjective, Surjection
  <2>5. ExistsBijection(expected, seenLiveEvents)
    BY <2>4 DEF ExistsBijection
  <2> HIDE DEF f, expected
  <2>. QED BY <2>2, <2>5, FS_Bijection
<1>7. Cardinality(expected) = Cardinality(expectedAppends) * appendBatchSize
  <2>1. IsFiniteSet(Batch) /\ Cardinality(Batch) = appendBatchSize
    BY Constants, FS_Interval DEF Batch
  <2>. QED BY <2>1, OperationsFinite, FS_Product
<1>8. ASSUME NEW s \in Streams, NEW v \in DOMAIN events[s]
      PROVE  validateEvent(s, v)
  <2>1. v \in 1..Len(events[s]) /\ v \in Nat
    BY <1>1
  <2>2. CASE v <= historyEventsPerStream
    BY <2>1, <2>2 DEF WorkInv, EventInv, SeedInv, validateEvent, validateSeedEvent
  <2>3. CASE ~(v <= historyEventsPerStream)
    <3>1. v \in LiveVersions(s)
      BY <2>1, <2>3, Constants DEF LiveVersions
    <3>2. events[s][v] \in expectedLiveEvents(s)
      <4>1. PICK p \in expected : events[s][v] = Event(p) /\ StreamOf(p[1][1], p[1][2]) = s
        BY <1>3, <3>1
      <4>2. p[1] \in {a \in expectedAppends : StreamOf(a[1], a[2]) = s} /\ p[2] \in Batch
        BY <4>1
      <4>. QED BY <4>1, <4>2 DEF expectedLiveEvents, Batch
    <3>3. ASSUME NEW u \in LiveVersions(s), events[s][u] = events[s][v] PROVE u = v
      BY <1>3, <3>1, <3>3 DEF WorkInv, EventInv, OnceInv
    <3>. QED BY <2>3, <3>2, <3>3 DEF validateEvent, validateLiveEvent
  <2>. QED BY <2>2, <2>3
<1>9. \A s \in Streams : verifyStream(s)
  BY <1>8 DEF verifyStream
<1> HIDE DEF expected
<1>. QED BY <1>1, <1>6, <1>7, <1>9 DEF verifyStreams

LEMMA VerificationFindsNothing ==
  ASSUME WorkInv, ProcessInv, pc = "verify"
  PROVE  Verified
<1>1. Forked = Workers /\ \A w \in Workers : Finished(w)
  BY DEF ProcessInv, ForkInv, CompletionInv, Finished
<1>. QED BY <1>1, CountersVerified, StreamsVerified DEF Verified

LEMMA NextWork == WorkInv /\ ProcessInv /\ [Next]_vars => WorkInv'
<1> SUFFICES ASSUME WorkInv, ProcessInv, [Next]_vars PROVE WorkInv'
  OBVIOUS
<1>1. CASE Events \/ RunDeadline \/ ContainerStops
  <2>1. WorkTypes' /\ EventInv' /\ CountInv'
    BY <1>1, CoordinatorStep
  <2>2. report' = report \/ Verify
    BY <1>1, CoordinatorEffect
  <2>3. Verify => report' = "written"
    BY VerificationFindsNothing DEF Verify
  <2>. QED BY <2>1, <2>2, <2>3 DEF WorkInv
<1>2. ASSUME NEW w \in Workers, Work(w) \/ Exit(w) PROVE WorkInv'
  BY <1>2, PlainStep, ReadVersionStep, LoadStreamStep, AppendEventsStep, RetryStep,
     LoseAnswerStep DEF Work
<1>3. CASE UNCHANGED vars
  <2>1. UNCHANGED <<seed, events, op, attempt, counters, worker, report, inbox, completed>>
    BY <1>3 DEF vars, store, coordinator, promises, outcome, work
  <2>2. WorkTypes' /\ Forked' = Forked
    BY <2>1 DEF WorkInv, WorkTypes, Forked
  <2>3. EventInv'
    BY <2>1, <2>2, StreamsStand
  <2>4. CountInv'
    <3>1. \A w, p : Counted(w, p)' <=> Counted(w, p)
      BY <2>1, SameCounts DEF Counted
    <3>2. \A w, i : IsAppend(w, i)' <=> IsAppend(w, i)
      BY <2>1, SameOperations
    <3>3. \A w : (Appending(w)' <=> Appending(w)) /\ (Finished(w)' <=> Finished(w))
      BY <2>1 DEF Appending, Finished, Sent
    <3>. QED BY <2>1, <3>1, <3>2, <3>3 DEF WorkInv, CountInv
  <2>. QED BY <2>1, <2>2, <2>3, <2>4 DEF WorkInv
<1>. QED BY <1>1, <1>2, <1>3 DEF Next, Ended

\* A run whose workers have all completed verifies: retries after conflicts store an
\* operation's events once and count its attempt once, and a worker that lost an answer
\* does not complete.  Verification reports no error that is not one.
THEOREM VerificationNeverMisjudges == Spec => []VerificationAgrees
<1>1. Init => WorkInv
  BY InitWork
<1>2. WorkInv /\ ProcessInv /\ [Next]_vars => WorkInv'
  BY NextWork
<1>3. WorkInv => VerificationAgrees
  BY DEF WorkInv, VerificationAgrees
<1>. QED BY <1>1, <1>2, <1>3, Processes, PTL DEF Spec
=============================================================================
