-------------------------- MODULE Delivery_proofs ---------------------------
(***************************************************************************)
(* What becomes of committed events: subscriptions, for any number of      *)
(* subscribers, any pool, any batch size and any number of positions, and  *)
(* in the second part the outbox relay.                                    *)
(*                                                                         *)
(* Whatever the waker, the pool and the writers do, each subscriber        *)
(* implements OrderedDelivery, and connections are lost to failed          *)
(* listeners only.  Delivery rests on the certificate: what becomes        *)
(* visible later lies above it, and so above every cursor and every batch  *)
(* that was read.                                                          *)
(***************************************************************************)
EXTENDS Subscription, Outbox, FiniteSetTheorems, TLAPS

\* What is in flight lies above the certificate.
LogInv ==
  /\ inFlight \cap committed = {}
  /\ \A p \in inFlight : certified < p

\* A batch being yielded holds every matching event between the cursor and its end.
BatchInv(s) ==
  step[s] = "yield" =>
    /\ batch[s] # {} /\ batch[s] \subseteq committed \cap matching
    /\ \A p \in batch[s] :
         /\ cursor[s] < p /\ p <= watermark[s]
         /\ \A q \in committed \cap matching : cursor[s] < q /\ q <= p => q \in batch[s]

CursorInv(s) ==
  /\ cursor[s] = LastDelivered(s)
  /\ cursor[s] <= certified /\ watermark[s] <= certified

SubInv == \A s \in Subscribers : CursorInv(s) /\ BatchInv(s)

\* Who connects to listen does not listen yet.
PoolInv ==
  /\ OnlyDropsLoseConnections
  /\ \A s \in Subscribers : step[s] \in {"connectListen", "listen", "done"} => ~listening[s]

SInv == TypeOK /\ LogInv /\ SubInv /\ PoolInv

-----------------------------------------------------------------------------
(* Lemmas.                                                                 *)

LEMMA Numbers ==
  ASSUME TypeOK
  PROVE  /\ MaxPosition \in Nat /\ lastValue \in Nat /\ certified \in Nat /\ certified <= lastValue
         /\ committed \subseteq Positions /\ inFlight \subseteq Positions
         /\ Positions \subseteq Nat
         /\ \A s \in Subscribers : cursor[s] \in Nat /\ watermark[s] \in Nat
BY SubscriptionAssumption DEF TypeOK, Positions

LEMMA CountsAreNaturals ==
  /\ IsFiniteSet(Listeners) /\ Cardinality(Listeners) \in Nat
  /\ IsFiniteSet(Querying) /\ Cardinality(Querying) \in Nat
<1>1. Listeners \subseteq Subscribers /\ Querying \subseteq Subscribers
  BY DEF Listeners, Querying
<1>. QED BY <1>1, SubscriptionAssumption, FS_Subset, FS_CardinalityType

One(b) == IF b THEN 1 ELSE 0
Queries(s) == step[s] \in {"certify", "read", "listen"}

\* A set that changes in one element changes its size accordingly.
LEMMA OneElement ==
  ASSUME NEW S, NEW T, IsFiniteSet(S), NEW x, S \ {x} = T \ {x}
  PROVE  Cardinality(T) = Cardinality(S) + One(x \in T) - One(x \in S)
<1>1. Cardinality(S) \in Nat
  BY FS_CardinalityType
<1>2. CASE x \in S /\ x \notin T
  <2>1. T = S \ {x}
    BY <1>2
  <2>. QED BY <1>1, <1>2, <2>1, FS_RemoveElement DEF One
<1>3. CASE x \notin S /\ x \in T
  <2>1. T = S \cup {x}
    BY <1>3
  <2>. QED BY <1>1, <1>3, <2>1, FS_AddElement DEF One
<1>4. CASE x \in S <=> x \in T
  <2>1. S = T
    BY <1>4
  <2>. QED BY <1>1, <2>1 DEF One
<1>. QED BY <1>2, <1>3, <1>4

\* What a step of s alone does to the pool.
LEMMA Accounting ==
  ASSUME SInv, NEW s \in Subscribers,
         \A q \in Subscribers \ {s} : listening'[q] = listening[q] /\ step'[q] = step[q],
         free' + One(listening'[s]) + One(Queries(s)') + drops'
           = free + One(listening[s]) + One(Queries(s)) + drops,
         free \in Int, drops \in Int, free' \in Int, drops' \in Int
  PROVE  OnlyDropsLoseConnections'
<1>1. Listeners \ {s} = Listeners' \ {s} /\ Querying \ {s} = Querying' \ {s}
  BY DEF Listeners, Querying
<1>2. /\ (s \in Listeners <=> listening[s]) /\ (s \in Listeners' <=> listening'[s])
      /\ (s \in Querying <=> Queries(s)) /\ (s \in Querying' <=> Queries(s)')
  BY DEF Listeners, Querying, Queries
<1>3. Cardinality(Listeners') = Cardinality(Listeners) + One(listening'[s]) - One(listening[s])
  <2>1. Cardinality(Listeners') = Cardinality(Listeners) + One(s \in Listeners') - One(s \in Listeners)
    BY <1>1, CountsAreNaturals, OneElement
  <2>. QED BY <1>2, <2>1 DEF One
<1>4. Cardinality(Querying') = Cardinality(Querying) + One(Queries(s)') - One(Queries(s))
  <2>1. Cardinality(Querying') = Cardinality(Querying) + One(s \in Querying') - One(s \in Querying)
    BY <1>1, CountsAreNaturals, OneElement
  <2>. QED BY <1>2, <2>1 DEF One
<1>5. free + Cardinality(Listeners) + Cardinality(Querying) + drops = PoolSize
  BY DEF SInv, PoolInv, OnlyDropsLoseConnections
<1>7. /\ One(listening'[s]) \in Int /\ One(listening[s]) \in Int
      /\ One(Queries(s)') \in Int /\ One(Queries(s)) \in Int
  BY DEF One
<1>8. PoolSize \in Int /\ Cardinality(Listeners) \in Int /\ Cardinality(Querying) \in Int
  BY SubscriptionAssumption, CountsAreNaturals
<1> DEFINE L == Cardinality(Listeners)
           Q == Cardinality(Querying)
           l0 == One(listening[s])
           l1 == One(listening'[s])
           q0 == One(Queries(s))
           q1 == One(Queries(s)')
<1>9. /\ L \in Int /\ Q \in Int /\ l0 \in Int /\ l1 \in Int /\ q0 \in Int /\ q1 \in Int
      /\ free + L + Q + drops = PoolSize
      /\ free' + l1 + q1 + drops' = free + l0 + q0 + drops
  BY <1>5, <1>7, <1>8
<1>10. Cardinality(Listeners') = L + l1 - l0 /\ Cardinality(Querying') = Q + q1 - q0
  BY <1>3, <1>4
<1>11. free' + (L + l1 - l0) + (Q + q1 - q0) + drops' = PoolSize
  <2> HIDE DEF L, Q, l0, l1, q0, q1
  <2>1. PICK f1 \in Int, d1 \in Int : f1 = free' /\ d1 = drops'
    OBVIOUS
  <2>2. PICK f0 \in Int, d0 \in Int, size \in Int : f0 = free /\ d0 = drops /\ size = PoolSize
    BY <1>8
  <2>3. f0 + L + Q + d0 = size /\ f1 + l1 + q1 + d1 = f0 + l0 + q0 + d0
    BY <1>9, <2>1, <2>2
  <2>4. f1 + (L + l1 - l0) + (Q + q1 - q0) + d1 = size
    BY <1>9, <2>3
  <2>. QED BY <2>1, <2>2, <2>4
<1>. QED BY <1>10, <1>11 DEF OnlyDropsLoseConnections

\* A subscriber that does not touch its cursor keeps its invariant, while events
\* become visible above the certificate and the certificate moves up.
LEMMA SubKept ==
  ASSUME SInv, NEW s \in Subscribers,
         cursor'[s] = cursor[s], delivered'[s] = delivered[s], watermark'[s] = watermark[s],
         step'[s] # "yield" \/ (step'[s] = step[s] /\ batch'[s] = batch[s]),
         matching' = matching, certified' \in Nat, certified <= certified',
         committed \subseteq committed', committed' \subseteq Positions,
         \A p \in committed' \ committed : certified < p
  PROVE  CursorInv(s)' /\ BatchInv(s)'
<1>1. CursorInv(s) /\ BatchInv(s)
  BY DEF SInv, SubInv
<1>2. CursorInv(s)'
  <2>1. LastDelivered(s)' = LastDelivered(s)
    BY DEF LastDelivered
  <2>2. cursor[s] \in Nat /\ watermark[s] \in Nat /\ certified \in Nat
    BY Numbers DEF SInv
  <2>. QED BY <1>1, <2>1, <2>2 DEF CursorInv
<1>3. CASE step'[s] # "yield"
  BY <1>2, <1>3 DEF BatchInv
<1>4. CASE step[s] = "yield" /\ step'[s] = "yield" /\ batch'[s] = batch[s]
  <2>1. ASSUME NEW p \in batch[s], NEW q \in committed' \cap matching, cursor[s] < q, q <= p
        PROVE  q \in batch[s]
    <3>1. p <= certified /\ p \in Nat /\ q \in Nat
      <4>1. p <= watermark[s] /\ watermark[s] <= certified /\ p \in committed
        BY <1>1, <1>4 DEF CursorInv, BatchInv
      <4>2. p \in Nat /\ q \in Nat /\ watermark[s] \in Nat /\ certified \in Nat
        BY <4>1, Numbers DEF SInv
      <4>. QED BY <4>1, <4>2
    <3>2. q <= certified /\ certified \in Nat
      BY <2>1, <3>1, Numbers DEF SInv
    <3>3. q \in committed
      BY <3>1, <3>2
    <3>. QED BY <1>1, <1>4, <2>1, <3>3 DEF BatchInv
  <2>. QED BY <1>1, <1>2, <1>4, <2>1 DEF BatchInv
<1>. QED BY <1>2, <1>3, <1>4

-----------------------------------------------------------------------------
LEMMA InitSInv == Init => SInv
<1> SUFFICES ASSUME Init PROVE SInv
  OBVIOUS
<1> USE SubscriptionAssumption DEF Init
<1>1. TypeOK
  BY DEF TypeOK
<1>2. LogInv /\ SubInv
  BY DEF LogInv, SubInv, CursorInv, BatchInv, LastDelivered
<1>3. Listeners = {} /\ Querying = {}
  BY DEF Listeners, Querying
<1>4. PoolInv
  BY <1>3, FS_EmptySet DEF PoolInv, OnlyDropsLoseConnections
<1>. QED BY <1>1, <1>2, <1>4 DEF SInv

\* Writers.
LEMMA WriterSInv ==
  ASSUME SInv, InsertEvent \/ \E p \in Positions : CommitEvent(p) \/ RollbackEvent(p)
  PROVE  SInv'
<1> USE DEF poolVars, pumpVars, wakerVars
<1>1. /\ UNCHANGED <<certified, matching, free, drops, stops, cursor, watermark, batch, caughtUp,
                     delivered, aborted, listening>>
      /\ lastValue' \in Nat /\ lastValue <= lastValue' /\ lastValue' <= MaxPosition
      /\ committed \subseteq committed' /\ committed' \subseteq committed \cup inFlight
      /\ inFlight' \subseteq (inFlight \cup {lastValue + 1}) \ (committed' \ committed)
      /\ inFlight' \subseteq 1..lastValue'
  <2>1. /\ lastValue \in Nat /\ lastValue <= MaxPosition /\ MaxPosition \in Nat
        /\ inFlight \subseteq 1..lastValue /\ committed \subseteq 1..lastValue
    BY SubscriptionAssumption DEF SInv, TypeOK
  <2>2. CASE InsertEvent
    BY <2>1, <2>2 DEF InsertEvent
  <2>3. ASSUME NEW p \in inFlight, inFlight' = inFlight \ {p}, lastValue' = lastValue,
               committed' = committed \/ committed' = committed \cup {p}
        PROVE  /\ lastValue' \in Nat /\ lastValue <= lastValue' /\ lastValue' <= MaxPosition
               /\ committed \subseteq committed' /\ committed' \subseteq committed \cup inFlight
               /\ inFlight' \subseteq (inFlight \cup {lastValue + 1}) \ (committed' \ committed)
               /\ inFlight' \subseteq 1..lastValue'
    BY <2>1, <2>3
  <2>4. ASSUME NEW p \in Positions, CommitEvent(p) \/ RollbackEvent(p)
        PROVE  /\ p \in inFlight /\ inFlight' = inFlight \ {p} /\ lastValue' = lastValue
               /\ committed' = committed \/ committed' = committed \cup {p}
               /\ UNCHANGED <<certified, matching, free, drops, stops, cursor, watermark, batch,
                              caughtUp, delivered, aborted, listening>>
    BY <2>4 DEF CommitEvent, RollbackEvent
  <2>5. CASE \E p \in Positions : CommitEvent(p) \/ RollbackEvent(p)
    <3>1. PICK p \in Positions : CommitEvent(p) \/ RollbackEvent(p)
      BY <2>5
    <3>. QED BY <2>3, <2>4, <3>1
  <2>. QED BY <2>2, <2>5
<1>2. \A s \in Subscribers :
        step'[s] = step[s] \/ (step[s] = "waiting" /\ step'[s] = "top")
  BY DEF InsertEvent, CommitEvent, RollbackEvent, Signal
<1>3. /\ step' \in [Subscribers ->
           {"top", "connectPump", "certify", "read", "yield", "wait", "connectListen", "listen",
            "checkPending", "waiting", "sleep", "close", "done"}]
      /\ pending' \in [Subscribers -> BOOLEAN]
  BY DEF SInv, TypeOK, InsertEvent, CommitEvent, RollbackEvent, Signal
<1>4. TypeOK'
  BY <1>1, <1>3, Numbers DEF SInv, TypeOK
<1>5. LogInv'
  <2>1. \A p \in committed' : p <= lastValue /\ p \in Nat
    BY <1>1 DEF SInv, TypeOK
  <2>2. certified < lastValue + 1
    BY Numbers DEF SInv
  <2>. QED BY <1>1, <2>1, <2>2, Numbers DEF SInv, LogInv
<1>6. SubInv'
  <2>1. committed' \subseteq Positions /\ \A p \in committed' \ committed : certified < p
    BY <1>1, Numbers DEF SInv, LogInv
  <2>. QED BY <1>1, <1>2, <2>1, Numbers, SubKept DEF SInv, SubInv
<1>7. Listeners' = Listeners /\ Querying' = Querying
  BY <1>1, <1>2 DEF Listeners, Querying
<1>8. PoolInv'
  BY <1>1, <1>2, <1>7 DEF SInv, PoolInv, OnlyDropsLoseConnections
<1>. QED BY <1>4, <1>5, <1>6, <1>8 DEF SInv

\* A step of s that leaves the log and the pump alone.
LEMMA ControlSInv ==
  ASSUME SInv, NEW s \in Subscribers, UNCHANGED <<logVars, pumpVars>>,
         step'[s] # "yield" \/ step'[s] = step[s],
         \A q \in Subscribers \ {s} : listening'[q] = listening[q] /\ step'[q] = step[q],
         step'[s] \in {"connectListen", "listen", "done"} => ~listening'[s],
         free' + One(listening'[s]) + One(Queries(s)') + drops'
           = free + One(listening[s]) + One(Queries(s)) + drops,
         TypeOK'
  PROVE  SInv'
<1> USE DEF logVars, pumpVars
<1>1. LogInv'
  BY DEF SInv, LogInv
<1>2. SubInv'
  <2>1. \A q \in Subscribers : step'[q] # "yield" \/ step'[q] = step[q]
    OBVIOUS
  <2>. QED BY <2>1, Numbers, SubKept DEF SInv, SubInv
<1>3. free \in Int /\ drops \in Int /\ free' \in Int /\ drops' \in Int
  BY DEF SInv, TypeOK
<1>4. PoolInv'
  BY <1>3, Accounting DEF SInv, PoolInv
<1>. QED BY <1>1, <1>2, <1>4 DEF SInv

\* The connections of the waker and of the pump, one action after the other.
LEMMA ConnectSInv ==
  ASSUME SInv, NEW s \in Subscribers, ConnectPump(s) \/ ConnectListen(s)
  PROVE  SInv'
<1> USE DEF Connect, ConnectPump, ConnectListen, Goto, poolVars, pumpVars, wakerVars
<1>1. /\ free > 0 /\ free' = free - 1 /\ drops' = drops /\ listening' = listening
      /\ UNCHANGED <<logVars, pumpVars, stops, aborted, pending>>
      /\ step[s] \in {"connectPump", "connectListen"}
      /\ step' = [step EXCEPT ![s] = IF step[s] = "connectPump" THEN "certify" ELSE "listen"]
  OBVIOUS
<1> HIDE DEF Connect, ConnectPump, ConnectListen
<1>2. TypeOK'
  BY <1>1 DEF SInv, TypeOK, logVars
<1>3. /\ step'[s] = IF step[s] = "connectPump" THEN "certify" ELSE "listen"
      /\ \A q \in Subscribers \ {s} : step'[q] = step[q]
  BY <1>1 DEF SInv, TypeOK
<1>4. step'[s] = "listen" => ~listening[s]
  BY <1>1, <1>3 DEF SInv, PoolInv
<1>5. One(Queries(s)) = 0 /\ One(Queries(s)') = 1
  BY <1>1, <1>3 DEF Queries, One
<1>6. One(listening[s]) \in Int /\ free \in Int /\ drops \in Int
  BY DEF One, SInv, TypeOK
<1>7. free' + One(listening'[s]) + One(Queries(s)') + drops'
        = free + One(listening[s]) + One(Queries(s)) + drops
  BY <1>1, <1>5, <1>6
<1>. QED BY <1>1, <1>2, <1>3, <1>4, <1>7, ControlSInv

\* Steps that neither take nor return a connection.
LEMMA QuietSInv ==
  ASSUME SInv, NEW s \in Subscribers,
         LoopTop(s) \/ Wait(s) \/ CheckPending(s) \/ TimerFires(s) \/ Abort(s)
  PROVE  SInv'
<1>1. /\ free' = free /\ drops' = drops /\ listening' = listening
      /\ UNCHANGED <<logVars, pumpVars>>
      /\ stops' \in Nat
  <2>1. stops' = stops \/ stops' = stops + 1
    BY DEF poolVars, LoopTop, Wait, CheckPending, TimerFires, Abort
  <2>2. stops' \in Nat
    BY <2>1 DEF SInv, TypeOK
  <2>3. /\ free' = free /\ drops' = drops /\ listening' = listening
        /\ UNCHANGED <<logVars, pumpVars>>
    BY DEF poolVars, wakerVars, LoopTop, Wait, CheckPending, TimerFires, Abort
  <2>. QED BY <2>2, <2>3
<1>2. \/ step' = step
      \/ \E to \in {"top", "close", "connectPump", "checkPending", "connectListen", "waiting"} :
           /\ step' = [step EXCEPT ![s] = to]
           /\ step[s] \notin {"certify", "read", "listen"}
           /\ to = "connectListen" => ~listening[s]
  <2>1. CASE LoopTop(s)
    BY <2>1 DEF LoopTop, Goto
  <2>2. CASE Wait(s)
    BY <2>2 DEF Wait, Goto, SInv, TypeOK
  <2>3. CASE CheckPending(s)
    BY <2>3 DEF CheckPending, Goto
  <2>4. CASE TimerFires(s)
    BY <2>4 DEF TimerFires, Goto
  <2>5. CASE Abort(s)
    <3>1. CASE step[s] \in {"waiting", "sleep"}
      BY <2>5, <3>1 DEF Abort
    <3>2. CASE step[s] \notin {"waiting", "sleep"}
      BY <2>5, <3>2 DEF Abort, SInv, TypeOK
    <3>. QED BY <3>1, <3>2
  <2>. QED BY <2>1, <2>2, <2>3, <2>4, <2>5
<1>3. aborted' \in [Subscribers -> BOOLEAN] /\ pending' \in [Subscribers -> BOOLEAN]
  <2>1. \/ aborted' = aborted
        \/ aborted' = [aborted EXCEPT ![s] = TRUE]
    BY DEF LoopTop, Wait, CheckPending, TimerFires, Abort
  <2>2. \/ pending' = pending
        \/ pending' = [pending EXCEPT ![s] = FALSE]
    <3>1. CASE LoopTop(s) \/ Wait(s)
      BY <3>1 DEF LoopTop, Wait, wakerVars
    <3>2. CASE CheckPending(s)
      BY <3>2 DEF CheckPending
    <3>3. ASSUME TimerFires(s) \/ Abort(s)
          PROVE  \E b \in {FALSE, pending[s]} : pending' = [pending EXCEPT ![s] = b]
      BY <3>3 DEF TimerFires, Abort
    <3>4. [pending EXCEPT ![s] = pending[s]] = pending
      BY DEF SInv, TypeOK
    <3>. QED BY <3>1, <3>2, <3>3, <3>4
  <2>. QED BY <2>1, <2>2 DEF SInv, TypeOK
<1>4. /\ step' \in [Subscribers ->
           {"top", "connectPump", "certify", "read", "yield", "wait", "connectListen", "listen",
            "checkPending", "waiting", "sleep", "close", "done"}]
      /\ \A q \in Subscribers \ {s} : step'[q] = step[q]
      /\ step'[s] = step[s] \/ step'[s] \notin {"yield", "certify", "read", "listen", "done"}
      /\ step'[s] = step[s] \/ ~Queries(s)
      /\ step'[s] = step[s] \/ (step'[s] = "connectListen" => ~listening[s])
  BY <1>2 DEF SInv, TypeOK, Queries
<1>5. TypeOK'
  BY <1>1, <1>3, <1>4 DEF SInv, TypeOK, logVars, pumpVars
<1>6. One(Queries(s)') = One(Queries(s))
  BY <1>4 DEF One, Queries
<1>7. step'[s] \in {"connectListen", "listen", "done"} => ~listening'[s]
  BY <1>1, <1>4 DEF SInv, PoolInv
<1>8. free' + One(listening'[s]) + One(Queries(s)') + drops'
        = free + One(listening[s]) + One(Queries(s)) + drops
  BY <1>1, <1>6
<1>. QED BY <1>1, <1>4, <1>5, <1>7, <1>8, ControlSInv

\* Steps of the listen connection, and the end of a subscription.
LEMMA ListenSInv ==
  ASSUME SInv, NEW s \in Subscribers,
         Listen(s) \/ ListenFails(s) \/ ListenConnectionDrops(s) \/ StopSubscription(s) \/ Close(s)
  PROVE  SInv'
<1> USE DEF poolVars, wakerVars, Goto
<1>1. /\ UNCHANGED <<logVars, pumpVars, aborted>>
      /\ free' \in Nat /\ drops' \in Nat /\ stops' \in Nat /\ free \in Nat /\ drops \in Nat
      /\ pending' \in [Subscribers -> BOOLEAN]
  <2>1. /\ UNCHANGED <<logVars, pumpVars>> /\ free \in Nat /\ drops \in Nat /\ stops \in Nat
        /\ pending \in [Subscribers -> BOOLEAN]
    BY DEF SInv, TypeOK, Listen, ListenFails, ListenConnectionDrops, StopSubscription, Close
  <2>2. UNCHANGED aborted /\ free' \in Nat /\ drops' \in Nat /\ stops' \in Nat
    <3>1. aborted' = aborted
      BY DEF Listen, ListenFails, ListenConnectionDrops, StopSubscription, Close
    <3>2. free' = free \/ free' = free + 0 \/ free' = free + 1
      BY DEF Listen, ListenFails, ListenConnectionDrops, StopSubscription, Close
    <3>3. drops' = drops \/ drops' = drops + 1
      BY DEF Listen, ListenFails, ListenConnectionDrops, StopSubscription, Close
    <3>4. stops' = stops \/ stops' = stops + 1
      BY DEF Listen, ListenFails, ListenConnectionDrops, StopSubscription, Close
    <3>. QED BY <2>1, <3>1, <3>2, <3>3, <3>4
  <2>3. pending' \in [Subscribers -> BOOLEAN]
    <3>1. CASE ListenFails(s)
      BY <2>1, <3>1 DEF ListenFails
    <3>2. CASE ListenConnectionDrops(s)
      BY <2>1, <3>2 DEF ListenConnectionDrops, Signal
    <3>3. CASE pending' = pending
      BY <2>1, <3>3
    <3>. QED BY <3>1, <3>2, <3>3 DEF Listen, StopSubscription, Close
  <2>. QED BY <2>1, <2>2, <2>3
<1>2. /\ listening' \in [Subscribers -> BOOLEAN]
      /\ \A q \in Subscribers \ {s} : listening'[q] = listening[q]
      /\ \A q \in Subscribers \ {s} : step'[q] = step[q]
      /\ step' \in [Subscribers ->
           {"top", "connectPump", "certify", "read", "yield", "wait", "connectListen", "listen",
            "checkPending", "waiting", "sleep", "close", "done"}]
  BY DEF SInv, TypeOK, Listen, ListenFails, ListenConnectionDrops, Signal, StopSubscription, Close
<1>3. TypeOK'
  BY <1>1, <1>2 DEF SInv, TypeOK, logVars, pumpVars
<1>4. CASE Listen(s)
  <2>0. free' = free /\ drops' = drops
    BY <1>4 DEF Listen
  <2>1. /\ step[s] = "listen" /\ step'[s] = "checkPending" /\ listening'[s] = TRUE
    BY <1>4 DEF Listen, SInv, TypeOK
  <2>2. listening[s] = FALSE
    BY <2>1 DEF SInv, PoolInv, TypeOK
  <2>3. /\ One(listening[s]) = 0 /\ One(listening'[s]) = 1
        /\ One(Queries(s)) = 1 /\ One(Queries(s)') = 0
    BY <2>1, <2>2 DEF One, Queries
  <2>4. free' + One(listening'[s]) + One(Queries(s)') + drops'
          = free + One(listening[s]) + One(Queries(s)) + drops
    <3>1. free' + 1 + 0 + drops' = free + 0 + 1 + drops
      BY <1>1, <2>0
    <3>. QED BY <2>3, <3>1
  <2>. QED BY <1>1, <1>2, <1>3, <2>1, <2>4, ControlSInv
<1>5. CASE ListenFails(s)
  <2>1. /\ step[s] = "listen" /\ step'[s] = "sleep" /\ listening'[s] = listening[s]
        /\ free' = free /\ drops' = drops + 1
    BY <1>5 DEF ListenFails, SInv, TypeOK
  <2>2. One(Queries(s)) = 1 /\ One(Queries(s)') = 0 /\ One(listening[s]) \in Int
    BY <2>1 DEF One, Queries
  <2>3. free' + One(listening'[s]) + One(Queries(s)') + drops'
          = free + One(listening[s]) + One(Queries(s)) + drops
    BY <1>1, <2>1, <2>2
  <2>. QED BY <1>1, <1>2, <1>3, <2>1, <2>3, ControlSInv
<1>6. CASE ListenConnectionDrops(s)
  <2>0. free' = free /\ drops' = drops + 1
    BY <1>6 DEF ListenConnectionDrops
  <2>1. /\ listening[s] /\ listening'[s] = FALSE
        /\ step'[s] = step[s] \/ (step[s] = "waiting" /\ step'[s] = "top")
    BY <1>6 DEF ListenConnectionDrops, Signal, SInv, TypeOK
  <2>2. /\ One(listening[s]) = 1 /\ One(listening'[s]) = 0
        /\ One(Queries(s)') = One(Queries(s)) /\ One(Queries(s)) \in Int
    BY <2>1 DEF One, Queries
  <2>3. free' + One(listening'[s]) + One(Queries(s)') + drops'
          = free + One(listening[s]) + One(Queries(s)) + drops
    BY <1>1, <2>0, <2>2
  <2>4. step'[s] # "yield" \/ step'[s] = step[s]
    BY <2>1
  <2>. QED BY <1>1, <1>2, <1>3, <2>1, <2>3, <2>4, ControlSInv
<1>7. CASE StopSubscription(s)
  <2>1. /\ step[s] \in {"certify", "read", "yield"} /\ step'[s] = "close" /\ listening' = listening
        /\ free' = (IF step[s] = "yield" THEN free ELSE free + 1) /\ drops' = drops
    BY <1>7 DEF StopSubscription, SInv, TypeOK
  <2>2. /\ One(Queries(s)) = (IF step[s] = "yield" THEN 0 ELSE 1) /\ One(Queries(s)') = 0
        /\ One(listening[s]) \in Int
    BY <2>1 DEF One, Queries
  <2>3. free' + One(listening'[s]) + One(Queries(s)') + drops'
          = free + One(listening[s]) + One(Queries(s)) + drops
    BY <1>1, <2>1, <2>2
  <2>. QED BY <1>1, <1>2, <1>3, <2>1, <2>3, ControlSInv
<1>8. CASE Close(s)
  <2>1. /\ step[s] = "close" /\ step'[s] = "done" /\ listening'[s] = FALSE
        /\ free' = (IF listening[s] THEN free + 1 ELSE free) /\ drops' = drops
    BY <1>8 DEF Close, SInv, TypeOK
  <2>2. /\ One(Queries(s)) = 0 /\ One(Queries(s)') = 0 /\ One(listening'[s]) = 0
        /\ One(listening[s]) = (IF listening[s] THEN 1 ELSE 0)
    BY <2>1 DEF One, Queries
  <2>3. free' + One(listening'[s]) + One(Queries(s)') + drops'
          = free + One(listening[s]) + One(Queries(s)) + drops
    BY <1>1, <2>1, <2>2
  <2>. QED BY <1>1, <1>2, <1>3, <2>1, <2>3, ControlSInv
<1>. QED BY <1>4, <1>5, <1>6, <1>7, <1>8

\* LIMIT cuts a batch off at its end only.
LEMMA FirstOfClosed ==
  ASSUME NEW S \in SUBSET Positions, NEW p \in FirstOf(S), NEW q \in S, q <= p
  PROVE  q \in FirstOf(S)
<1> DEFINE Upto(x) == {y \in S : y <= x}
<1>1. IsFiniteSet(S) /\ S \subseteq Int
  <2>1. 1 \in Int /\ MaxPosition \in Int
    BY SubscriptionAssumption
  <2>2. IsFiniteSet(1..MaxPosition)
    BY <2>1, FS_Interval
  <2>3. IsFiniteSet(S)
    BY <2>2, FS_Subset DEF Positions
  <2>. QED BY <2>3 DEF Positions
<1>2. IsFiniteSet(Upto(p)) /\ Upto(q) \subseteq Upto(p)
  <2>1. Upto(p) \subseteq S
    OBVIOUS
  <2>2. p \in Int /\ q \in Int
    BY <1>1 DEF FirstOf
  <2>3. ASSUME NEW y \in S, y <= q PROVE y <= p
    BY <1>1, <2>2, <2>3
  <2>4. Upto(q) \subseteq Upto(p)
    BY <2>3
  <2>. QED BY <1>1, <2>1, <2>4, FS_Subset
<1>3. Cardinality(Upto(q)) <= Cardinality(Upto(p)) /\ Cardinality(Upto(q)) \in Nat /\ Cardinality(Upto(p)) \in Nat
  BY <1>2, FS_Subset, FS_CardinalityType
<1>4. Cardinality(Upto(p)) <= BatchSize /\ BatchSize \in Nat
  BY SubscriptionAssumption DEF FirstOf
<1>5. Cardinality(Upto(q)) <= BatchSize
  BY <1>3, <1>4
<1>. QED BY <1>5 DEF FirstOf

LEMMA CertifySInv ==
  ASSUME SInv, NEW s \in Subscribers, CertifyPump(s)
  PROVE  SInv'
<1> USE DEF wakerVars, Goto
<1>1. PICK w \in committed \cup {certified} :
        /\ IsCertificate(w) /\ certified' = w /\ watermark' = [watermark EXCEPT ![s] = w]
        /\ \/ /\ free' = free + 1 /\ caughtUp' = [caughtUp EXCEPT ![s] = TRUE]
              /\ step' = [step EXCEPT ![s] = "wait"]
           \/ free' = free /\ caughtUp' = caughtUp /\ step' = [step EXCEPT ![s] = "read"]
  BY DEF CertifyPump
<1>2. /\ step[s] = "certify"
      /\ UNCHANGED <<lastValue, inFlight, committed, matching, drops, stops, cursor, batch,
                     delivered, aborted, listening, pending>>
  BY DEF CertifyPump
<1>3. /\ w \in Nat /\ certified \in Nat /\ certified <= w /\ w <= lastValue /\ lastValue \in Nat
      /\ \A p \in inFlight : w < p
  <2>1. w \in Nat /\ certified \in Nat /\ w <= lastValue /\ lastValue \in Nat
    BY Numbers DEF SInv, TypeOK
  <2>2. certified <= w /\ \A p \in inFlight : w < p
    BY <1>1, <2>1 DEF IsCertificate, SInv, LogInv
  <2>. QED BY <2>1, <2>2
<1>4. TypeOK'
  <2>1. certified' \in 0..lastValue' /\ watermark' \in [Subscribers -> Nat]
    BY <1>1, <1>2, <1>3 DEF SInv, TypeOK
  <2>2. free' \in Nat
    BY <1>1 DEF SInv, TypeOK
  <2>3. caughtUp' \in [Subscribers -> BOOLEAN]
    BY <1>1 DEF SInv, TypeOK
  <2>4. step' \in [Subscribers ->
         {"top", "connectPump", "certify", "read", "yield", "wait", "connectListen", "listen",
          "checkPending", "waiting", "sleep", "close", "done"}]
    BY <1>1 DEF SInv, TypeOK
  <2>. QED BY <1>2, <2>1, <2>2, <2>3, <2>4 DEF SInv, TypeOK
<1>5. LogInv'
  BY <1>1, <1>2, <1>3 DEF SInv, LogInv
<1>6. /\ step'[s] \in {"wait", "read"} /\ watermark'[s] = w
      /\ \A q \in Subscribers \ {s} : step'[q] = step[q] /\ watermark'[q] = watermark[q]
      /\ free' = IF step'[s] = "wait" THEN free + 1 ELSE free
  BY <1>1 DEF SInv, TypeOK
<1>7. SubInv'
  <2>1. ASSUME NEW q \in Subscribers \ {s} PROVE CursorInv(q)' /\ BatchInv(q)'
    BY <1>1, <1>2, <1>3, <1>6, Numbers, SubKept DEF SInv
  <2>2. cursor[s] = LastDelivered(s) /\ cursor[s] <= certified /\ cursor[s] \in Nat
    BY Numbers DEF SInv, SubInv, CursorInv
  <2>3. cursor'[s] = LastDelivered(s)' /\ cursor'[s] <= certified' /\ watermark'[s] <= certified'
    BY <1>1, <1>2, <1>3, <1>6, <2>2 DEF LastDelivered
  <2>4. CursorInv(s)' /\ BatchInv(s)'
    BY <1>6, <2>3 DEF CursorInv, BatchInv
  <2>. QED BY <2>1, <2>4 DEF SubInv
<1>8. PoolInv'
  <2>1. /\ One(Queries(s)) = 1 /\ One(Queries(s)') = (IF step'[s] = "wait" THEN 0 ELSE 1)
        /\ One(listening[s]) \in Int /\ One(listening'[s]) = One(listening[s])
    BY <1>2, <1>6 DEF One, Queries
  <2>2. free \in Int /\ drops \in Int /\ free' \in Int /\ drops' \in Int
    BY <1>4 DEF SInv, TypeOK
  <2>3. free' + One(listening'[s]) + One(Queries(s)') + drops'
          = free + One(listening[s]) + One(Queries(s)) + drops
    BY <1>2, <1>6, <2>1, <2>2
  <2>4. OnlyDropsLoseConnections'
    BY <1>2, <1>6, <2>2, <2>3, Accounting
  <2>. QED BY <1>2, <1>6, <2>4 DEF SInv, PoolInv
<1>. QED BY <1>4, <1>5, <1>7, <1>8 DEF SInv

LEMMA ReadSInv ==
  ASSUME SInv, NEW s \in Subscribers, ReadPump(s)
  PROVE  SInv'
<1> USE DEF wakerVars, Goto, logVars
<1> DEFINE rows == FirstOf(Readable(s))
<1>1. /\ step[s] = "read" /\ free' = free + 1
      /\ batch' = [batch EXCEPT ![s] = rows]
      /\ step' = [step EXCEPT ![s] = IF rows = {} THEN "wait" ELSE "yield"]
      /\ caughtUp' = [caughtUp EXCEPT ![s] = Cardinality(rows) < BatchSize]
      /\ UNCHANGED <<logVars, drops, stops, cursor, watermark, delivered, aborted, listening, pending>>
  BY DEF ReadPump
<1>2. /\ Readable(s) \in SUBSET Positions /\ rows \subseteq Readable(s)
      /\ \A p \in Readable(s) : /\ p \in committed \cap matching /\ p \in Nat
                                /\ cursor[s] < p /\ p <= watermark[s]
  BY Numbers DEF Readable, FirstOf, SInv
<1> HIDE DEF rows
<1>3. TypeOK'
  <2>1. caughtUp' \in [Subscribers -> BOOLEAN]
    BY <1>1 DEF SInv, TypeOK
  <2>2. batch' \in [Subscribers -> SUBSET Positions] /\ free' \in Nat
    BY <1>1, <1>2 DEF SInv, TypeOK
  <2>3. step' \in [Subscribers ->
         {"top", "connectPump", "certify", "read", "yield", "wait", "connectListen", "listen",
          "checkPending", "waiting", "sleep", "close", "done"}]
    BY <1>1 DEF SInv, TypeOK
  <2>. QED BY <1>1, <2>1, <2>2, <2>3 DEF SInv, TypeOK
<1>4. LogInv'
  BY <1>1 DEF SInv, LogInv
<1>5. /\ batch'[s] = rows /\ step'[s] = (IF rows = {} THEN "wait" ELSE "yield")
      /\ \A q \in Subscribers \ {s} : batch'[q] = batch[q] /\ step'[q] = step[q]
  BY <1>1 DEF SInv, TypeOK
<1>6. SubInv'
  <2>1. ASSUME NEW q \in Subscribers \ {s} PROVE CursorInv(q)' /\ BatchInv(q)'
    BY <1>1, <1>5, Numbers, SubKept DEF SInv
  <2>2. CursorInv(s)'
    BY <1>1 DEF SInv, SubInv, CursorInv, LastDelivered
  <2>3. ASSUME NEW p \in rows, NEW q \in committed \cap matching, cursor[s] < q, q <= p
        PROVE  q \in rows
    <3>1. q \in Readable(s)
      BY <1>2, <2>3, Numbers DEF Readable, SInv
    <3>. QED BY <1>2, <2>3, <3>1, FirstOfClosed DEF rows
  <2>4. BatchInv(s)'
    BY <1>1, <1>2, <1>5, <2>3 DEF BatchInv
  <2>. QED BY <2>1, <2>2, <2>4 DEF SubInv
<1>7. PoolInv'
  <2>1. /\ One(Queries(s)) = 1 /\ One(Queries(s)') = 0
        /\ One(listening[s]) \in Int /\ One(listening'[s]) = One(listening[s])
    BY <1>1, <1>5 DEF One, Queries
  <2>2. free \in Int /\ drops \in Int /\ free' \in Int /\ drops' \in Int
    BY <1>3 DEF SInv, TypeOK
  <2>3. free' + One(listening'[s]) + One(Queries(s)') + drops'
          = free + One(listening[s]) + One(Queries(s)) + drops
    BY <1>1, <2>1, <2>2
  <2>4. OnlyDropsLoseConnections'
    BY <1>1, <1>5, <2>2, <2>3, Accounting
  <2>. QED BY <1>1, <1>5, <2>4 DEF SInv, PoolInv
<1>. QED BY <1>3, <1>4, <1>6, <1>7 DEF SInv

\* A row is yielded: it is the last one delivered, and the rest of the batch is
\* what follows it.
LEMMA YieldSInv ==
  ASSUME SInv, NEW s \in Subscribers, Yield(s)
  PROVE  SInv'
<1> USE DEF wakerVars, poolVars, logVars, Goto
<1>1. PICK p \in batch[s] :
        /\ \A q \in batch[s] : p <= q
        /\ delivered' = [delivered EXCEPT ![s] = Append(@, p)]
        /\ cursor' = [cursor EXCEPT ![s] = p]
        /\ batch' = [batch EXCEPT ![s] = @ \ {p}]
        /\ step' = [step EXCEPT ![s] = IF batch[s] # {p} THEN "yield"
                                      ELSE IF caughtUp[s] THEN "wait" ELSE "top"]
  BY DEF Yield
<1>2. /\ step[s] = "yield"
      /\ UNCHANGED <<logVars, free, drops, stops, watermark, caughtUp, aborted, listening, pending>>
  BY DEF Yield
<1>3. BatchInv(s) /\ CursorInv(s)
  BY DEF SInv, SubInv
<1>4. /\ p \in committed \cap matching /\ p \in Positions /\ p \in Nat
      /\ cursor[s] < p /\ p <= watermark[s] /\ p <= certified
      /\ batch[s] \subseteq committed /\ batch[s] \subseteq Nat
  <2>1. p \in committed \cap matching /\ cursor[s] < p /\ p <= watermark[s] /\ batch[s] \subseteq committed
    BY <1>2, <1>3 DEF BatchInv
  <2>2. p \in Positions /\ p \in Nat /\ batch[s] \subseteq Nat /\ watermark[s] \in Nat /\ certified \in Nat
    BY <2>1, Numbers DEF SInv
  <2>. QED BY <1>3, <2>1, <2>2 DEF CursorInv
<1>5. /\ delivered[s] \in Seq(Positions) /\ delivered'[s] = Append(delivered[s], p)
      /\ cursor'[s] = p /\ batch'[s] = batch[s] \ {p}
      /\ step'[s] = (IF batch[s] # {p} THEN "yield" ELSE IF caughtUp[s] THEN "wait" ELSE "top")
      /\ \A q \in Subscribers \ {s} :
           /\ delivered'[q] = delivered[q] /\ cursor'[q] = cursor[q] /\ batch'[q] = batch[q]
           /\ step'[q] = step[q]
  BY <1>1 DEF SInv, TypeOK
<1>6. TypeOK'
  <2>1. delivered' \in [Subscribers -> Seq(Positions)]
    BY <1>1, <1>4 DEF SInv, TypeOK
  <2>2. cursor' \in [Subscribers -> Nat] /\ batch' \in [Subscribers -> SUBSET Positions]
    BY <1>1, <1>4 DEF SInv, TypeOK
  <2>3. step' \in [Subscribers ->
         {"top", "connectPump", "certify", "read", "yield", "wait", "connectListen", "listen",
          "checkPending", "waiting", "sleep", "close", "done"}]
    BY <1>1 DEF SInv, TypeOK
  <2>. QED BY <1>2, <2>1, <2>2, <2>3 DEF SInv, TypeOK
<1>7. LogInv'
  BY <1>2 DEF SInv, LogInv
<1>8. SubInv'
  <2>1. ASSUME NEW q \in Subscribers \ {s} PROVE CursorInv(q)' /\ BatchInv(q)'
    BY <1>2, <1>5, Numbers, SubKept DEF SInv
  <2>2. LastDelivered(s)' = p
    <3>1. delivered'[s] # <<>> /\ delivered'[s][Len(delivered'[s])] = p
      BY <1>5
    <3>. QED BY <3>1 DEF LastDelivered
  <2>3. CursorInv(s)'
    BY <1>2, <1>3, <1>4, <1>5, <2>2 DEF CursorInv
  <2>4. ASSUME batch[s] # {p} PROVE BatchInv(s)'
    <3>1. batch'[s] # {} /\ batch'[s] \subseteq committed \cap matching
      BY <1>2, <1>3, <1>5, <2>4 DEF BatchInv
    <3>2. ASSUME NEW x \in batch'[s] PROVE p < x /\ x <= watermark[s] /\ x \in Nat
      BY <1>1, <1>2, <1>3, <1>4, <1>5, <3>2 DEF BatchInv
    <3>3. ASSUME NEW x \in batch'[s], NEW q \in committed \cap matching, p < q, q <= x
          PROVE  q \in batch'[s]
      <4>1. q \in Nat /\ cursor[s] \in Nat
        BY Numbers DEF SInv
      <4>2. cursor[s] < q /\ x \in batch[s] /\ q # p
        BY <1>4, <1>5, <3>3, <4>1
      <4>3. q \in batch[s]
        BY <1>2, <1>3, <3>3, <4>2 DEF BatchInv
      <4>. QED BY <1>5, <4>2, <4>3
    <3>. QED BY <1>2, <1>5, <3>1, <3>2, <3>3 DEF BatchInv
  <2>5. batch[s] = {p} => BatchInv(s)'
    BY <1>5 DEF BatchInv
  <2>. QED BY <2>1, <2>3, <2>4, <2>5 DEF SubInv
<1>9. PoolInv'
  <2>1. Listeners' = Listeners /\ Querying' = Querying
    BY <1>2, <1>5 DEF Listeners, Querying
  <2>. QED BY <1>2, <1>5, <2>1 DEF SInv, PoolInv, OnlyDropsLoseConnections
<1>. QED BY <1>6, <1>7, <1>8, <1>9 DEF SInv

LEMMA ResumeSInv ==
  ASSUME SInv, NEW s \in Subscribers, Resume(s)
  PROVE  SInv'
<1> USE DEF poolVars, logVars, Goto
<1>1. /\ step[s] = "done" /\ step' = [step EXCEPT ![s] = "top"]
      /\ cursor' = [cursor EXCEPT ![s] = LastDelivered(s)]
      /\ watermark' = [watermark EXCEPT ![s] = 0]
      /\ batch' = [batch EXCEPT ![s] = {}]
      /\ caughtUp' = [caughtUp EXCEPT ![s] = FALSE]
      /\ aborted' = [aborted EXCEPT ![s] = FALSE]
      /\ pending' = [pending EXCEPT ![s] = FALSE]
      /\ UNCHANGED <<logVars, free, drops, stops, delivered, listening>>
  BY DEF Resume
<1>2. CursorInv(s) /\ cursor[s] \in Nat /\ certified \in Nat
  BY Numbers DEF SInv, SubInv
<1>3. cursor' = cursor
  BY <1>1, <1>2 DEF SInv, TypeOK, CursorInv
<1>4. TypeOK'
  BY <1>1, <1>3 DEF SInv, TypeOK
<1>5. LogInv'
  BY <1>1 DEF SInv, LogInv
<1>6. /\ step'[s] = "top" /\ watermark'[s] = 0
      /\ \A q \in Subscribers \ {s} :
           watermark'[q] = watermark[q] /\ batch'[q] = batch[q] /\ step'[q] = step[q]
  BY <1>1 DEF SInv, TypeOK
<1>7. SubInv'
  <2>1. ASSUME NEW q \in Subscribers \ {s} PROVE CursorInv(q)' /\ BatchInv(q)'
    BY <1>1, <1>3, <1>6, Numbers, SubKept DEF SInv
  <2>2. CursorInv(s)' /\ BatchInv(s)'
    BY <1>1, <1>2, <1>3, <1>6 DEF CursorInv, BatchInv, LastDelivered
  <2>. QED BY <2>1, <2>2 DEF SubInv
<1>8. PoolInv'
  <2>1. Listeners' = Listeners /\ Querying' = Querying
    BY <1>1, <1>6 DEF Listeners, Querying
  <2>. QED BY <1>1, <1>6, <2>1 DEF SInv, PoolInv, OnlyDropsLoseConnections
<1>. QED BY <1>4, <1>5, <1>7, <1>8 DEF SInv

LEMMA StepSInv == SInv /\ [Next]_vars => SInv'
<1> SUFFICES ASSUME SInv, [Next]_vars PROVE SInv'
  OBVIOUS
<1>1. ASSUME NEW s \in Subscribers, SubscriberStep(s) \/ Failure(s) PROVE SInv'
  BY <1>1, ConnectSInv, QuietSInv, ListenSInv, CertifySInv, ReadSInv, YieldSInv, ResumeSInv
     DEF SubscriberStep, PumpStep, WakerStep, Failure
<1>2. CASE UNCHANGED vars
  <2>1. UNCHANGED <<lastValue, inFlight, committed, certified, matching, free, drops, stops, step,
                    cursor, watermark, batch, caughtUp, delivered, aborted, listening, pending>>
    BY <1>2 DEF vars, logVars, poolVars, pumpVars, wakerVars
  <2>. QED BY <2>1 DEF SInv, TypeOK, LogInv, SubInv, CursorInv, BatchInv, LastDelivered, PoolInv,
                       OnlyDropsLoseConnections, Listeners, Querying
<1>. QED BY <1>1, <1>2, WriterSInv DEF Next

THEOREM SInvariance == Spec => []SInv
BY InitSInv, StepSInv, PTL DEF Spec

\* The state of subscribers, wakers and pool stays within its types; in
\* particular the pool never hands out more than it has.
THEOREM TypeCorrect == Spec => []TypeOK
<1>1. SInv => TypeOK
  BY DEF SInv
<1>. QED BY <1>1, SInvariance, PTL

\* Every connection that no subscriber uses and that is not free belongs to a
\* listener that failed.
THEOREM ConnectionsAccountedFor == Spec => []OnlyDropsLoseConnections
<1>1. SInv => OnlyDropsLoseConnections
  BY DEF SInv, PoolInv
<1>. QED BY <1>1, SInvariance, PTL

-----------------------------------------------------------------------------
(* Every subscriber implements OrderedDelivery.                            *)

LEMMA InitDelivers == ASSUME Init, NEW s \in Subscribers PROVE OD(s)!Init
<1>1. LastDelivered(s) = 0 /\ delivered[s] = <<>> /\ committed = {}
  BY DEF Init, LastDelivered
<1>. QED BY <1>1 DEF OD!Init, Positions

\* What a writer does is a publication above the cursor, or nothing.
LEMMA WriterDelivers ==
  ASSUME SInv, NEW s \in Subscribers,
         InsertEvent \/ \E p \in Positions : CommitEvent(p) \/ RollbackEvent(p)
  PROVE  [OD(s)!Next]_(OD(s)!vars)
<1> USE DEF poolVars, pumpVars
<1>1. delivered' = delivered /\ matching' = matching
  BY DEF InsertEvent, CommitEvent, RollbackEvent
<1>2. LastDelivered(s)' = LastDelivered(s) /\ (Positions \ matching)' = Positions \ matching
  BY <1>1 DEF LastDelivered, Positions
<1>3. CASE committed' = committed
  BY <1>1, <1>2, <1>3 DEF OD!vars
<1>4. ASSUME NEW p \in Positions, CommitEvent(p) PROVE OD(s)!Publish
  <2>1. LastDelivered(s) <= certified /\ LastDelivered(s) \in Nat /\ certified \in Nat
    BY Numbers DEF SInv, SubInv, CursorInv
  <2>2. certified < p /\ p \in Nat /\ p <= MaxPosition /\ MaxPosition \in Nat
    BY <1>4, Numbers DEF SInv, LogInv, CommitEvent, Positions
  <2>3. {p} \in SUBSET (LastDelivered(s) + 1 .. MaxPosition)
    BY <2>1, <2>2
  <2>4. committed' = committed \cup {p}
    BY <1>4 DEF CommitEvent
  <2>. QED BY <1>1, <1>2, <2>3, <2>4 DEF OD!Publish
<1>5. CASE \E p \in Positions : CommitEvent(p)
  BY <1>4, <1>5 DEF OD!Next
<1>6. CASE InsertEvent \/ \E p \in Positions : RollbackEvent(p)
  BY <1>3, <1>6 DEF InsertEvent, RollbackEvent
<1>. QED BY <1>5, <1>6

\* A yield delivers the first matching event above the cursor.
LEMMA YieldDelivers ==
  ASSUME SInv, NEW s \in Subscribers, Yield(s)
  PROVE  OD(s)!Deliver
<1>1. PICK p \in batch[s] :
        (\A q \in batch[s] : p <= q) /\ delivered' = [delivered EXCEPT ![s] = Append(@, p)]
  BY DEF Yield
<1>2. step[s] = "yield" /\ UNCHANGED <<committed, matching>>
  BY DEF Yield, logVars
<1>3. BatchInv(s) /\ cursor[s] = LastDelivered(s) /\ cursor[s] \in Nat
  BY Numbers DEF SInv, SubInv, CursorInv
<1>4. p \in committed \cap matching /\ cursor[s] < p /\ p \in Nat /\ p <= MaxPosition /\ MaxPosition \in Nat
  <2>1. p \in committed \cap matching /\ cursor[s] < p
    BY <1>2, <1>3 DEF BatchInv
  <2>. QED BY <2>1, Numbers DEF SInv, Positions
<1> DEFINE old == delivered[s]
<1>5. old \in Seq(Positions) /\ delivered'[s] = Append(old, p) /\ p \in Positions
  BY <1>1, <1>4, Numbers DEF SInv, TypeOK
<1>6. /\ Len(delivered'[s]) = Len(old) + 1 /\ delivered'[s][Len(old) + 1] = p /\ Len(old) \in Nat
      /\ \A i \in 1..Len(old) : delivered'[s][i] = old[i]
  BY <1>5
<1>7. LastDelivered(s)' = p
  <2>1. delivered'[s] # <<>> /\ delivered'[s][Len(delivered'[s])] = p
    BY <1>5
  <2>. QED BY <2>1 DEF LastDelivered
<1>8. OD(s)!Handled = {p}
  <2>1. Len(old) + 1 .. Len(delivered'[s]) = {Len(old) + 1}
    BY <1>6
  <2>. QED BY <1>6, <2>1 DEF OD!Handled
<1>9. OD(s)!Extended
  <2>1. ASSUME NEW i \in Len(old) + 1 .. Len(delivered'[s]),
               NEW j \in Len(old) + 1 .. Len(delivered'[s]), i < j
        PROVE  FALSE
    BY <1>6, <2>1
  <2>. QED BY <1>6, <2>1 DEF OD!Extended
<1> DEFINE passed == {x \in committed : LastDelivered(s) < x /\ x <= p}
<1>10. passed \ (Positions \ matching) \subseteq {p}
  <2>1. SUFFICES ASSUME NEW x \in passed, x \in matching PROVE x = p
    BY Numbers DEF SInv
  <2>2. x \in batch[s]
    BY <1>2, <1>3, <2>1 DEF BatchInv
  <2>. QED BY <1>1, <1>4, <2>1, <2>2, Numbers DEF SInv
<1>11. {p} \subseteq passed
  BY <1>3, <1>4
<1>12. p \in LastDelivered(s) + 1 .. MaxPosition
  BY <1>3, <1>4
<1>13. (Positions \ matching)' = Positions \ matching /\ committed' = committed
  BY <1>2 DEF Positions
<1>. QED BY <1>7, <1>8, <1>9, <1>10, <1>11, <1>12, <1>13 DEF OD!Deliver

LEMMA OthersStutter ==
  ASSUME SInv, NEW s \in Subscribers, UNCHANGED <<committed, matching>>, delivered'[s] = delivered[s]
  PROVE  UNCHANGED OD(s)!vars
BY DEF OD!vars, LastDelivered, Positions

LEMMA StepDelivers ==
  ASSUME SInv, [Next]_vars, NEW s \in Subscribers
  PROVE  [OD(s)!Next]_(OD(s)!vars)
<1>1. CASE InsertEvent \/ \E p \in Positions : CommitEvent(p) \/ RollbackEvent(p)
  BY <1>1, WriterDelivers
<1>2. CASE Yield(s)
  BY <1>2, YieldDelivers DEF OD!Next
<1>3. ASSUME NEW q \in Subscribers, Yield(q), q # s PROVE UNCHANGED OD(s)!vars
  BY <1>3, OthersStutter DEF Yield, logVars, SInv, TypeOK
<1>4. ASSUME NEW q \in Subscribers, SubscriberStep(q) \/ Failure(q), ~Yield(q)
      PROVE  UNCHANGED OD(s)!vars
  <2>1. UNCHANGED <<committed, matching, delivered>>
    BY <1>4 DEF SubscriberStep, PumpStep, WakerStep, Failure, LoopTop, ConnectPump, ConnectListen,
      Connect, CertifyPump, ReadPump, Wait, Listen, CheckPending, TimerFires, Close, Resume,
      ListenFails, ListenConnectionDrops, Abort, StopSubscription, logVars, pumpVars
  <2>. QED BY <2>1, OthersStutter
<1>5. CASE UNCHANGED vars
  BY <1>5, OthersStutter DEF vars, logVars, pumpVars
<1>. QED BY <1>1, <1>2, <1>3, <1>4, <1>5 DEF Next

\* Exactly once and in order, for every subscriber: nothing that a late commit,
\* a dropped connection, an abort or a resumption does makes it miss an event or
\* see one twice.
THEOREM DeliversOnceInOrder == Spec => YieldsEachEventOnceInOrder
<1> DEFINE Delivers == \A s \in Subscribers : [OD(s)!Next]_(OD(s)!vars)
<1>1. Init => \A s \in Subscribers : OD(s)!Init
  BY InitDelivers
<1>2. SInv /\ [Next]_vars => [Delivers]_vars
  BY StepDelivers
<1>. QED BY <1>1, <1>2, SInvariance, PTL DEF Spec, YieldsEachEventOnceInOrder

-----------------------------------------------------------------------------
(***************************************************************************)
(* The outbox: delivery at least once with an account of every repetition, *)
(* for any number of workers, entries and failures.  An entry that is      *)
(* published once more than runs failed with it is either locked by the    *)
(* run that published it or marked; and a run that lost its connection has *)
(* been counted as failed before it publishes what it still has.           *)
(***************************************************************************)

\* The workers whose handler has yet to publish entry i.
Due(i) == {w \in Workers : i \in todo[w]}

BasicTypes ==
  /\ lastId \in 0..MaxId
  /\ inserting \subseteq Ids /\ unprocessed \subseteq Ids
  /\ processed \subseteq Ids /\ deleted \subseteq Ids
  /\ rowLock \in [Ids -> Workers \cup {Nobody}]
  /\ pc \in [Workers -> {"idle", "handle", "mark", "commit"}]
  /\ entries \in [Workers -> SUBSET Ids]
  /\ todo \in [Workers -> SUBSET Ids]
  /\ lost \subseteq Workers
  /\ published \in [Ids -> Nat]
  /\ failures \in 0..MaxFailures
  /\ failedWith \in [Ids -> Nat]

\* An id is in one state of its life, an unused one in none, and only pending rows
\* are locked.
TableInv ==
  /\ \A i \in inserting \cup unprocessed \cup processed \cup deleted : i <= lastId
  /\ inserting \cap (unprocessed \cup processed \cup deleted) = {}
  /\ unprocessed \cap (processed \cup deleted) = {}
  /\ \A i \in Ids : rowLock[i] # Nobody => i \in unprocessed

\* What a run with a connection has polled is locked by it and nothing else is.
RunInv ==
  \A w \in Workers :
    /\ w \notin lost => entries[w] = {i \in Ids : rowLock[i] = w}
    /\ w \in lost => \A i \in Ids : rowLock[i] # w
    /\ todo[w] \subseteq entries[w]
    /\ \A i \in entries[w] \ todo[w] : published[i] > 0
    /\ pc[w] \in {"idle", "mark", "commit"} => todo[w] = {}
    /\ pc[w] = "idle" => entries[w] = {} /\ w \notin lost

\* One publication more than failed runs is in the hands of the row's holder or
\* has been marked.
Account(i) ==
  published[i] + Cardinality(Due(i)) <=
    failedWith[i] + IF rowLock[i] # Nobody \/ i \in processed \cup deleted THEN 1 ELSE 0

AccountInv ==
  /\ \A i \in Ids : Account(i)
  /\ \A i \in Ids : failedWith[i] <= failures

IInv == BasicTypes /\ TableInv /\ RunInv /\ ProcessedWasPublished /\ AccountInv

-----------------------------------------------------------------------------
LEMMA DueIsFinite ==
  ASSUME NEW i
  PROVE  IsFiniteSet(Due(i)) /\ Cardinality(Due(i)) \in Nat
<1>1. Due(i) \in SUBSET Workers
  BY DEF Due
<1>. QED BY <1>1, OutboxAssumption, FS_Subset, FS_CardinalityType

LEMMA InitIInv == OInit => IInv
<1> SUFFICES ASSUME OInit PROVE IInv
  OBVIOUS
<1>1. BasicTypes /\ TableInv /\ RunInv /\ ProcessedWasPublished
  BY OutboxAssumption DEF OInit, BasicTypes, TableInv, RunInv, ProcessedWasPublished, Ids
<1>2. ASSUME NEW i \in Ids PROVE Account(i) /\ failedWith[i] <= failures
  <2>1. Due(i) = {}
    BY DEF OInit, Due
  <2>2. Cardinality(Due(i)) = 0
    BY <2>1, FS_EmptySet
  <2>. QED BY <2>2 DEF OInit, Account
<1>. QED BY <1>1, <1>2 DEF IInv, AccountInv

\* Appends and the cleanup move rows between the sets of the table; runs and
\* their account do not notice.
TableStep ==
  \/ InsertOutboxRow
  \/ \E i \in Ids : CommitAppend(i) \/ RollbackAppend(i)
  \/ CleanupOutbox

LEMMA TableStepIInv ==
  ASSUME IInv, TableStep
  PROVE  IInv'
<1>1. /\ UNCHANGED <<rowLock, workerVars, published, history>>
      /\ processed' \cup deleted' = processed \cup deleted
  BY DEF TableStep, InsertOutboxRow, CommitAppend, RollbackAppend, CleanupOutbox
<1>2. BasicTypes' /\ TableInv'
  <2> USE OutboxAssumption DEF IInv, BasicTypes, TableInv, Ids, workerVars, history
  <2>1. CASE InsertOutboxRow
    <3>1. /\ lastId' = lastId + 1 /\ lastId + 1 \in 1..MaxId
          /\ inserting' = inserting \cup {lastId + 1}
          /\ UNCHANGED <<unprocessed, processed, deleted, rowLock, workerVars, published, history>>
      BY <2>1 DEF InsertOutboxRow
    <3>2. BasicTypes'
      BY <3>1
    <3>3. lastId + 1 \notin unprocessed \cup processed \cup deleted
      <4>1. lastId \in Nat /\ ~(lastId + 1 <= lastId)
        OBVIOUS
      <4>. QED BY <4>1
    <3>4. TableInv'
      BY <3>1, <3>3
    <3>. QED BY <3>2, <3>4
  <2>2. ASSUME NEW i \in Ids, CommitAppend(i) PROVE BasicTypes' /\ TableInv'
    <3>1. BasicTypes'
      BY <2>2 DEF CommitAppend
    <3>2. TableInv'
      BY <2>2 DEF CommitAppend
    <3>. QED BY <3>1, <3>2
  <2>3. ASSUME NEW i \in Ids, RollbackAppend(i) PROVE BasicTypes' /\ TableInv'
    <3>1. BasicTypes'
      BY <2>3 DEF RollbackAppend
    <3>2. TableInv'
      BY <2>3 DEF RollbackAppend
    <3>. QED BY <3>1, <3>2
  <2>4. CASE CleanupOutbox
    <3>1. PICK S \in (SUBSET processed) \ {{}} :
            /\ processed' = processed \ S /\ deleted' = deleted \cup S
            /\ UNCHANGED <<lastId, inserting, unprocessed, rowLock, workerVars, published, history>>
      BY <2>4 DEF CleanupOutbox
    <3>. QED BY <3>1
  <2>. QED BY <2>1, <2>2, <2>3, <2>4 DEF TableStep
<1>3. RunInv' /\ ProcessedWasPublished'
  BY <1>1 DEF IInv, RunInv, ProcessedWasPublished, workerVars
<1>4. AccountInv'
  BY <1>1 DEF IInv, AccountInv, Account, Due, workerVars, history
<1>. QED BY <1>2, <1>3, <1>4 DEF IInv

-----------------------------------------------------------------------------
\* A poll locks rows that nobody held, so that they may be published once.
LEMMA PollIInv ==
  ASSUME IInv, NEW w \in Workers, PollOutbox(w)
  PROVE  IInv'
<1> DEFINE B == Oldest(Available)
<1> USE DEF IInv
<1>1. B \subseteq Available /\ Available \subseteq unprocessed
  BY DEF Oldest, Available
<1>2. /\ pc[w] = "idle" /\ w \notin lost
      /\ entries' = [entries EXCEPT ![w] = B]
      /\ todo' = [todo EXCEPT ![w] = B]
      /\ rowLock' = [i \in Ids |-> IF i \in B THEN w ELSE rowLock[i]]
      /\ pc' = [pc EXCEPT ![w] = "handle"]
      /\ UNCHANGED <<table, lost, published, history>>
  BY DEF PollOutbox, RunInv
<1> HIDE DEF B
<1>3. BasicTypes' /\ TableInv'
  BY <1>1, <1>2, OutboxAssumption DEF BasicTypes, TableInv, table, history
<1>4. RunInv'
  <2> SUFFICES ASSUME NEW v \in Workers PROVE RunInv!(v)'
    BY DEF RunInv
  <2>. QED BY <1>1, <1>2, OutboxAssumption DEF BasicTypes, RunInv, Available
<1>5. ProcessedWasPublished'
  BY <1>2 DEF ProcessedWasPublished, table
<1>6. ASSUME NEW i \in Ids PROVE Account(i)'
  <2>1. CASE i \in B
    <3>1. /\ i \in unprocessed /\ rowLock[i] = Nobody /\ rowLock'[i] # Nobody
          /\ i \notin processed \cup deleted
      BY <1>1, <1>2, <2>1, OutboxAssumption DEF Available, TableInv
    <3>2. Due(i)' = Due(i) \cup {w} /\ w \notin Due(i)
      BY <1>2, <2>1 DEF Due, RunInv, BasicTypes
    <3>3. Cardinality(Due(i)') = Cardinality(Due(i)) + 1
      BY <3>2, DueIsFinite, FS_AddElement
    <3>. QED BY <1>2, <3>1, <3>3, DueIsFinite DEF AccountInv, Account, BasicTypes, table, history
  <2>2. CASE i \notin B
    <3>1. Due(i)' = Due(i)
      BY <1>2, <2>2 DEF Due, RunInv, BasicTypes
    <3>. QED BY <1>2, <2>2, <3>1 DEF AccountInv, Account, BasicTypes, table, history
  <2>. QED BY <2>1, <2>2
<1>. QED BY <1>2, <1>3, <1>4, <1>5, <1>6 DEF AccountInv, history

\* Publishing turns what is due into what is published.
LEMMA PublishIInv ==
  ASSUME IInv, NEW w \in Workers, Publish(w)
  PROVE  IInv'
<1> USE DEF IInv
<1>1. PICK i \in todo[w] :
        /\ published' = [published EXCEPT ![i] = @ + 1]
        /\ todo' = [todo EXCEPT ![w] = @ \ {i}]
        /\ pc' = [pc EXCEPT ![w] = IF todo[w] = {i} THEN "mark" ELSE "handle"]
  BY DEF Publish
<1>2. i \in Ids /\ pc[w] = "handle" /\ UNCHANGED <<table, rowLock, entries, lost, history>>
  BY DEF Publish, BasicTypes
<1>3. BasicTypes' /\ TableInv'
  BY <1>1, <1>2 DEF BasicTypes, TableInv, table, history
<1>4. RunInv'
  <2> SUFFICES ASSUME NEW v \in Workers PROVE RunInv!(v)'
    BY DEF RunInv
  <2>. QED BY <1>1, <1>2 DEF BasicTypes, RunInv
<1>5. ProcessedWasPublished'
  BY <1>1, <1>2 DEF ProcessedWasPublished, BasicTypes, table
<1>6. ASSUME NEW j \in Ids PROVE Account(j)'
  <2>1. CASE j = i
    <3>1. Due(j)' = Due(j) \ {w} /\ w \in Due(j)
      BY <1>1, <2>1 DEF Due, BasicTypes
    <3>2. Cardinality(Due(j)') = Cardinality(Due(j)) - 1
      BY <3>1, DueIsFinite, FS_RemoveElement
    <3>. QED BY <1>1, <1>2, <2>1, <3>2, DueIsFinite
             DEF AccountInv, Account, BasicTypes, table, history
  <2>2. CASE j # i
    <3>1. Due(j)' = Due(j)
      BY <1>1, <2>2 DEF Due, BasicTypes
    <3>. QED BY <1>1, <1>2, <2>2, <3>1 DEF AccountInv, Account, BasicTypes, table, history
  <2>. QED BY <2>1, <2>2
<1>. QED BY <1>2, <1>3, <1>4, <1>5, <1>6 DEF AccountInv, history

LEMMA MarkIInv ==
  ASSUME IInv, NEW w \in Workers, MarkOutboxProcessed(w)
  PROVE  IInv'
<1> USE DEF IInv, MarkOutboxProcessed
<1>1. BasicTypes' /\ TableInv' /\ ProcessedWasPublished'
  BY DEF BasicTypes, TableInv, ProcessedWasPublished, table, history
<1>2. RunInv'
  BY DEF RunInv, BasicTypes
<1>3. AccountInv'
  BY DEF AccountInv, Account, Due, table, history
<1>. QED BY <1>1, <1>2, <1>3

-----------------------------------------------------------------------------
\* The end of a run releases its locks; nobody else's run is touched.
LEMMA EndRunInv ==
  ASSUME IInv, NEW w \in Workers, EndRun(w), UNCHANGED published
  PROVE  /\ RunInv'
         /\ rowLock' \in [Ids -> Workers \cup {Nobody}]
         /\ pc' \in [Workers -> {"idle", "handle", "mark", "commit"}]
         /\ entries' \in [Workers -> SUBSET Ids] /\ todo' \in [Workers -> SUBSET Ids]
         /\ lost' \subseteq Workers
         /\ \A i \in Ids : Cardinality(Due(i)') <= Cardinality(Due(i))
         /\ \A i \in Ids : Cardinality(Due(i)') \in Nat
<1> USE OutboxAssumption DEF IInv
<1>1. /\ rowLock' \in [Ids -> Workers \cup {Nobody}]
      /\ pc' \in [Workers -> {"idle", "handle", "mark", "commit"}]
      /\ entries' \in [Workers -> SUBSET Ids] /\ todo' \in [Workers -> SUBSET Ids]
      /\ lost' \subseteq Workers
  BY DEF EndRun, BasicTypes
<1>2. RunInv'
  <2> SUFFICES ASSUME NEW v \in Workers PROVE RunInv!(v)'
    BY DEF RunInv
  <2>. QED BY DEF EndRun, BasicTypes, RunInv
<1>3. ASSUME NEW i \in Ids
      PROVE  Cardinality(Due(i)') <= Cardinality(Due(i)) /\ Cardinality(Due(i)') \in Nat
  <2>1. Due(i)' \in SUBSET Due(i)
    BY DEF EndRun, Due, BasicTypes
  <2>. QED BY <2>1, DueIsFinite, FS_Subset, FS_CardinalityType
<1>. QED BY <1>1, <1>2, <1>3

LEMMA CommitIInv ==
  ASSUME IInv, NEW w \in Workers, CommitBatch(w)
  PROVE  IInv'
<1> USE OutboxAssumption DEF IInv
<1>1. /\ pc[w] = "commit" /\ w \notin lost /\ EndRun(w)
      /\ unprocessed' = unprocessed \ entries[w] /\ processed' = processed \cup entries[w]
      /\ UNCHANGED <<lastId, inserting, deleted, published, history>>
  BY DEF CommitBatch
<1>2. entries[w] \subseteq Ids /\ entries[w] = {i \in Ids : rowLock[i] = w}
  BY <1>1 DEF BasicTypes, RunInv
<1>3. BasicTypes' /\ RunInv'
  BY <1>1, <1>2, EndRunInv DEF BasicTypes, history
<1>4. TableInv'
  BY <1>1, <1>2 DEF TableInv, EndRun, BasicTypes
<1>5. ProcessedWasPublished'
  BY <1>1, <1>2 DEF ProcessedWasPublished, RunInv
<1>6. ASSUME NEW i \in Ids PROVE Account(i)'
  <2>1. Cardinality(Due(i)') <= Cardinality(Due(i)) /\ Cardinality(Due(i)') \in Nat
    BY <1>1, EndRunInv DEF history
  <2>. QED BY <1>1, <1>2, <2>1, DueIsFinite DEF AccountInv, Account, BasicTypes, EndRun, history
<1>. QED BY <1>1, <1>3, <1>4, <1>5, <1>6 DEF AccountInv, history

-----------------------------------------------------------------------------
\* A failed run is counted for each entry it had, and gives its claim back.
LEMMA FailIInv ==
  ASSUME IInv, NEW w \in Workers, FailBatch(w)
  PROVE  IInv'
<1> USE OutboxAssumption DEF IInv
<1>1. /\ w \notin lost /\ EndRun(w) /\ failures < MaxFailures /\ failures' = failures + 1
      /\ failedWith' = [i \in Ids |-> failedWith[i] + IF i \in entries[w] THEN 1 ELSE 0]
      /\ UNCHANGED <<table, published>>
  BY DEF FailBatch, CountFailure
<1>2. entries[w] = {i \in Ids : rowLock[i] = w}
  BY <1>1 DEF RunInv
<1>3. BasicTypes' /\ RunInv'
  BY <1>1, EndRunInv DEF BasicTypes, table
<1>4. TableInv' /\ ProcessedWasPublished'
  BY <1>1 DEF TableInv, ProcessedWasPublished, EndRun, table
<1>5. ASSUME NEW i \in Ids PROVE Account(i)' /\ failedWith'[i] <= failures'
  <2>1. Cardinality(Due(i)') <= Cardinality(Due(i)) /\ Cardinality(Due(i)') \in Nat
    BY <1>1, EndRunInv
  <2>. QED BY <1>1, <1>2, <2>1, DueIsFinite DEF AccountInv, Account, BasicTypes, EndRun, table
<1>. QED BY <1>3, <1>4, <1>5 DEF AccountInv

\* So is a run whose connection is lost, although its handler goes on.
LEMMA LoseConnectionIInv ==
  ASSUME IInv, NEW w \in Workers, LoseConnection(w)
  PROVE  IInv'
<1> USE OutboxAssumption DEF IInv
<1>1. /\ pc[w] # "idle" /\ w \notin lost /\ lost' = lost \cup {w}
      /\ failures < MaxFailures /\ failures' = failures + 1
      /\ failedWith' = [i \in Ids |-> failedWith[i] + IF i \in entries[w] THEN 1 ELSE 0]
      /\ rowLock' = [i \in Ids |-> IF rowLock[i] = w THEN Nobody ELSE rowLock[i]]
      /\ UNCHANGED <<table, pc, entries, todo, published>>
  BY DEF LoseConnection, CountFailure
<1>2. entries[w] = {i \in Ids : rowLock[i] = w}
  BY <1>1 DEF RunInv
<1>3. BasicTypes'
  BY <1>1 DEF BasicTypes, table
<1>4. TableInv' /\ ProcessedWasPublished'
  BY <1>1 DEF TableInv, ProcessedWasPublished, table
<1>5. RunInv'
  <2> SUFFICES ASSUME NEW v \in Workers PROVE RunInv!(v)'
    BY DEF RunInv
  <2>. QED BY <1>1 DEF BasicTypes, RunInv
<1>6. ASSUME NEW i \in Ids PROVE Account(i)' /\ failedWith'[i] <= failures'
  <2>1. Due(i)' = Due(i)
    BY <1>1 DEF Due
  <2>. QED BY <1>1, <1>2, <2>1, DueIsFinite DEF AccountInv, Account, BasicTypes, table
<1>. QED BY <1>3, <1>4, <1>5, <1>6 DEF AccountInv

LEMMA NoticeIInv ==
  ASSUME IInv, NEW w \in Workers, NoticeLoss(w)
  PROVE  IInv'
<1> USE OutboxAssumption DEF IInv
<1>1. w \in lost /\ EndRun(w) /\ UNCHANGED <<table, published, history>>
  BY DEF NoticeLoss
<1>2. BasicTypes' /\ RunInv'
  BY <1>1, EndRunInv DEF BasicTypes, table, history
<1>3. rowLock' = rowLock
  BY <1>1 DEF RunInv, BasicTypes, EndRun
<1>4. TableInv' /\ ProcessedWasPublished'
  BY <1>1, <1>3 DEF TableInv, ProcessedWasPublished, table
<1>5. ASSUME NEW i \in Ids PROVE Account(i)'
  <2>1. Cardinality(Due(i)') <= Cardinality(Due(i)) /\ Cardinality(Due(i)') \in Nat
    BY <1>1, EndRunInv
  <2>. QED BY <1>1, <1>3, <2>1, DueIsFinite DEF AccountInv, Account, BasicTypes, table, history
<1>. QED BY <1>1, <1>2, <1>4, <1>5 DEF AccountInv, history

-----------------------------------------------------------------------------
LEMMA StepIInv == IInv /\ [ONext]_ovars => IInv'
<1> SUFFICES ASSUME IInv, [ONext]_ovars PROVE IInv'
  OBVIOUS
<1>1. CASE TableStep
  BY <1>1, TableStepIInv
<1>2. ASSUME NEW w \in Workers, PollEmpty(w) \/ RelayStep(w) \/ FailBatch(w) \/ LoseConnection(w)
      PROVE  IInv'
  <2>1. CASE UNCHANGED ovars
    BY <2>1 DEF IInv, BasicTypes, TableInv, RunInv, ProcessedWasPublished, AccountInv, Account,
                Due, ovars, table, workerVars, history
  <2>. QED BY <1>2, <2>1, PollIInv, PublishIInv, MarkIInv, CommitIInv, FailIInv,
              LoseConnectionIInv, NoticeIInv
           DEF RelayStep, PollEmpty
<1>3. CASE UNCHANGED ovars
  BY <1>3 DEF IInv, BasicTypes, TableInv, RunInv, ProcessedWasPublished, AccountInv, Account,
              Due, ovars, table, workerVars, history
<1>. QED BY <1>1, <1>2, <1>3 DEF ONext, TableStep

THEOREM Invariance == OSpec => []IInv
<1>. QED BY InitIInv, StepIInv, PTL DEF OSpec

\* No entry is lost: rows are marked, and deleted, only after the handler has
\* published them, whichever runs fail or lose their connection.
THEOREM NothingLost == OSpec => []ProcessedWasPublished
<1>1. IInv => ProcessedWasPublished
  BY DEF IInv
<1>. QED BY <1>1, Invariance, PTL

\* An entry is published at most once more than runs that contained it failed,
\* however many workers poll at once (FOR UPDATE SKIP LOCKED).
THEOREM NoRepetitionWithoutFailure == OSpec => []RepeatedOnlyAfterFailure
<1>1. ASSUME IInv, NEW i \in Ids PROVE published[i] <= 1 + failedWith[i]
  <2>1. Account(i) /\ Cardinality(Due(i)) \in Nat /\ published[i] \in Nat /\ failedWith[i] \in Nat
    BY <1>1, DueIsFinite DEF IInv, AccountInv, BasicTypes
  <2>. QED BY <2>1 DEF Account
<1>2. IInv => RepeatedOnlyAfterFailure
  BY <1>1 DEF RepeatedOnlyAfterFailure
<1>. QED BY <1>2, Invariance, PTL

\* The variables keep their types; the bound on published is the account again.
THEOREM OTypeCorrect == OSpec => []OTypeOK
<1>1. ASSUME IInv PROVE OTypeOK
  <2>1. ASSUME NEW i \in Ids PROVE published[i] <= 1 + failures /\ failedWith[i] <= failures
    <3>1. Account(i) /\ Cardinality(Due(i)) \in Nat /\ failedWith[i] <= failures
      BY <1>1, DueIsFinite DEF IInv, AccountInv
    <3>. QED BY <1>1, <3>1, OutboxAssumption DEF Account, IInv, BasicTypes
  <2>2. /\ published \in [Ids -> 0 .. 1 + MaxFailures]
        /\ failedWith \in [Ids -> 0..MaxFailures]
    BY <1>1, <2>1, OutboxAssumption DEF IInv, BasicTypes
  <2>. QED BY <1>1, <2>2 DEF IInv, BasicTypes, OTypeOK
<1>. QED BY <1>1, Invariance, PTL
=============================================================================
