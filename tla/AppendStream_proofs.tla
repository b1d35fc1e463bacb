------------------------- MODULE AppendStream_proofs ------------------------
(***************************************************************************)
(* Appends keep streams gap-free and in the order of the log, and the      *)
(* outbox in step with them, for any number of clients, streams, keys and  *)
(* positions.  The properties speak of committed rows only; what makes     *)
(* them inductive is that they hold of what each client sees, committed    *)
(* rows and its own together, and that the stream lock keeps the rows of   *)
(* two open transactions on different streams.                             *)
(***************************************************************************)
EXTENDS AppendStream, TLAPS

\* The states of pc in which an append is under way.
Appending == {"lock", "checkKey", "validate", "insert", "recordKey"}

CallInv ==
  \A c \in Clients :
    /\ pc[c] \in Appending => req[c] \in Requests
    /\ pc[c] = "lockStream" => req[c].stream \in Streams
    /\ pc[c] = "recordKey" => /\ req[c].key \in Keys
                              /\ result[c] \in [from : Positions, to : Positions]

\* A client past the lock holds it, and so does one that has put rows on a stream.
LockInv ==
  \A c \in Clients :
    /\ pc[c] \in Appending \ {"lock"} => streamLock[req[c].stream] = c
    /\ \A r \in tx[c].rows : streamLock[r.stream] = c

\* The rows R of each stream have consecutive versions, in the order of the log.
Chained(R) ==
  /\ \A q, r \in R : (q.stream = r.stream /\ q.version = r.version) => q = r
  /\ \A r \in R : \A v \in 1..r.version :
       \E q \in R : q.stream = r.stream /\ q.version = v
  /\ \A q, r \in R : (q.stream = r.stream /\ q.version < r.version) => q.pos < r.pos

ChainInv ==
  /\ Chained(rows)
  /\ \A r \in rows : r.version <= r.pos /\ r.pos <= lastValue
  /\ \A c \in Clients :
       /\ Chained(VisibleRows(c))
       /\ \A r \in tx[c].rows : r.version <= r.pos /\ r.pos <= lastValue
       /\ pc[c] = "insert" => IsStreamVersion(current[c], req[c].stream, VisibleRows(c))

OutboxInv ==
  /\ OutboxMatchesEvents
  /\ \A c \in Clients : tx[c].outbox = {r.pos : r \in {x \in tx[c].rows : x.body.topics}}

IInv == TypeOK /\ CallInv /\ LockInv /\ ChainInv /\ OutboxInv

-----------------------------------------------------------------------------
LEMMA InitIInv == Init => IInv
BY AppendStreamAssumption
   DEF Init, IInv, TypeOK, CallInv, LockInv, ChainInv, OutboxInv, OutboxMatchesEvents, Chained,
       VisibleRows, IsStreamVersion, EmptyTx, NoRequest, OnlyLock, NoResult, Versions, Positions,
       Appending

\* What a step of client c that writes nothing leaves alone.
Quiet ==
  /\ UNCHANGED <<tables, lastValue>>
  /\ \A c \in Clients : /\ tx'[c].rows = tx[c].rows
                        /\ tx'[c].keys = tx[c].keys
                        /\ tx'[c].outbox = tx[c].outbox

\* The transactions of all clients keep their type when one of them does.
TxType ==
  [rows : SUBSET Rows, keys : SUBSET KeyRecords, outbox : SUBSET Positions, calls : 0..MaxAppends]

LEMMA TxUpdate ==
  ASSUME NEW T, NEW t \in T, NEW c \in Clients, tx \in [Clients -> T], tx' = [tx EXCEPT ![c] = t]
  PROVE  /\ tx' \in [Clients -> T] /\ tx'[c] = t
         /\ \A d \in Clients \ {c} : tx'[d] = tx[d]
OBVIOUS

LEMMA TxCounts ==
  ASSUME NEW x \in TxType, x.calls < MaxAppends
  PROVE  LET t == [x EXCEPT !.calls = @ + 1]
         IN  t \in TxType /\ t.rows = x.rows /\ t.keys = x.keys /\ t.outbox = x.outbox
BY AppendStreamAssumption DEF TxType

LEMMA TxRecords ==
  ASSUME NEW x \in TxType, NEW k \in KeyRecords
  PROVE  LET t == [x EXCEPT !.keys = @ \cup {k}]
         IN  t \in TxType /\ t.rows = x.rows /\ t.outbox = x.outbox
BY DEF TxType

\* Steps that write nothing: the calls, the locks, the checks and their errors.
QuietStep(c) ==
  \/ StartAppend(c) \/ StartLockStream(c) \/ AcquireStreamLock(c) \/ CheckIdempotencyKey(c)
  \/ ValidateVersion(c) \/ CatchError(c) \/ DeadlockDetected(c)

LEMMA QuietTypes ==
  ASSUME TypeOK, CallInv, NEW c \in Clients, QuietStep(c)
  PROVE  TypeOK' /\ CallInv' /\ Quiet
<1> USE AppendStreamAssumption DEF TypeOK, CallInv, Quiet, tables, Appending
<1>0. /\ NoRequest \in {OnlyLock(s) : s \in Streams \cup {NoStream}}
      /\ NoResult \in [from : Versions, to : Versions]
  BY DEF NoRequest, NoResult, Versions
<1>1. CASE StartAppend(c)
  BY <1>0, <1>1 DEF StartAppend, Call, Requests, Versions
<1>2. CASE StartLockStream(c)
  <2>1. PICK s \in Streams : Call(c, OnlyLock(s), "lockStream")
    BY <1>2 DEF StartLockStream
  <2>2. /\ OnlyLock(s) \in {OnlyLock(t) : t \in Streams \cup {NoStream}}
        /\ OnlyLock(s).stream = s
    BY DEF OnlyLock
  <2>3. /\ tx' = [tx EXCEPT ![c].calls = @ + 1] /\ tx[c].calls < MaxAppends
        /\ req' = [req EXCEPT ![c] = OnlyLock(s)]
        /\ pc' = [pc EXCEPT ![c] = "lockStream"]
        /\ result' = [result EXCEPT ![c] = NoResult]
        /\ current' = [current EXCEPT ![c] = 0]
        /\ UNCHANGED <<rows, keys, outbox, expired, lastValue, streamLock>>
    BY <2>1 DEF Call
  <2>4. /\ tx' \in [Clients -> [rows : SUBSET Rows, keys : SUBSET KeyRecords,
                                outbox : SUBSET Positions, calls : 0..MaxAppends]]
        /\ Quiet
    <3> DEFINE t == [tx[c] EXCEPT !.calls = @ + 1]
    <3>1. tx \in [Clients -> TxType] /\ tx' = [tx EXCEPT ![c] = t]
      BY <2>3 DEF TxType
    <3> HIDE DEF TypeOK, CallInv
    <3>2. /\ t \in TxType
          /\ t.rows = tx[c].rows /\ t.keys = tx[c].keys /\ t.outbox = tx[c].outbox
      BY <2>3, <3>1, TxCounts
    <3> HIDE DEF t
    <3>3. /\ tx' \in [Clients -> TxType] /\ tx'[c] = t
          /\ \A d \in Clients \ {c} : tx'[d] = tx[d]
      BY <3>1, <3>2, TxUpdate
    <3>. QED BY <2>3, <3>2, <3>3 DEF TxType
  <2>5. /\ req' \in [Clients -> Requests \cup {OnlyLock(t) : t \in Streams \cup {NoStream}}]
        /\ current' \in [Clients -> Versions]
        /\ result' \in [Clients -> [from : Versions, to : Versions]]
    BY <1>0, <2>2, <2>3 DEF Versions
  <2>6. pc' \in [Clients -> {"idle", "open", "lockStream", "lock", "checkKey",
                             "validate", "insert", "recordKey", "failed", "aborted"}]
    BY <2>3
  <2>7. TypeOK'
    BY <2>3, <2>4, <2>5, <2>6
  <2>8. ASSUME NEW d \in Clients
        PROVE  /\ pc'[d] \in Appending => req'[d] \in Requests
               /\ pc'[d] = "lockStream" => req'[d].stream \in Streams
               /\ pc'[d] = "recordKey" => /\ req'[d].key \in Keys
                                          /\ result'[d] \in [from : Positions, to : Positions]
    <3>1. CASE d = c
      BY <2>2, <2>3, <3>1
    <3>2. CASE d # c
      BY <2>3, <3>2
    <3>. QED BY <3>1, <3>2
  <2>. QED BY <2>4, <2>7, <2>8
<1>3. CASE AcquireStreamLock(c)
  <2>1. streamLock' \in [Streams -> Clients \cup {Nobody}]
    BY <1>3 DEF AcquireStreamLock
  <2>2. CASE pc[c] = "lock"
    <3>1. /\ pc' = [pc EXCEPT ![c] = "checkKey"] /\ req' = [req EXCEPT ![c] = req[c]]
          /\ UNCHANGED <<tables, lastValue, tx, current, result>>
      BY <1>3, <2>2 DEF AcquireStreamLock
    <3>. QED BY <2>1, <2>2, <3>1
  <2>3. CASE pc[c] = "lockStream"
    <3>1. /\ pc' = [pc EXCEPT ![c] = "open"] /\ req' = [req EXCEPT ![c] = NoRequest]
          /\ UNCHANGED <<tables, lastValue, tx, current, result>>
      BY <1>3, <2>3 DEF AcquireStreamLock
    <3>. QED BY <1>0, <2>1, <2>3, <3>1
  <2>. QED BY <1>3, <2>2, <2>3 DEF AcquireStreamLock
<1>4. CASE CheckIdempotencyKey(c)
  <2>1. CASE pc' = [pc EXCEPT ![c] = "validate"] /\ UNCHANGED <<req, result>>
    BY <1>4, <2>1 DEF CheckIdempotencyKey, Fail
  <2>2. CASE Fail(c, "failed")
    BY <1>0, <1>4, <2>2 DEF CheckIdempotencyKey, Fail
  <2>3. ASSUME NEW k \in VisibleKeys(c), pc' = [pc EXCEPT ![c] = "open"], UNCHANGED req,
               result' = [result EXCEPT ![c] = [from |-> k.from, to |-> k.to]]
        PROVE  TypeOK' /\ CallInv' /\ Quiet
    <3>1. [from |-> k.from, to |-> k.to] \in [from : Versions, to : Versions]
      BY DEF VisibleKeys, KeyRecords, Versions, Positions
    <3>. QED BY <1>4, <2>3, <3>1 DEF CheckIdempotencyKey
  <2>. QED BY <1>4, <2>1, <2>2, <2>3 DEF CheckIdempotencyKey
<1>5. CASE ValidateVersion(c)
  <2>1. PICK v \in Versions, expected \in ExpectedVersions :
          IF VersionMatches(expected, v)
          THEN /\ pc' = [pc EXCEPT ![c] = "insert"]
               /\ current' = [current EXCEPT ![c] = v]
               /\ UNCHANGED <<req, result>>
          ELSE /\ Fail(c, "failed")
               /\ UNCHANGED current
    BY <1>5 DEF ValidateVersion
  <2>2. pc[c] = "validate" /\ UNCHANGED <<tables, lastValue, streamLock, tx>>
    BY <1>5 DEF ValidateVersion
  <2>3. CASE VersionMatches(expected, v)
    <3>1. /\ pc' = [pc EXCEPT ![c] = "insert"] /\ current' = [current EXCEPT ![c] = v]
          /\ req' = req /\ result' = result
      BY <2>1, <2>3
    <3>2. TypeOK'
      BY <2>2, <3>1
    <3>3. CallInv'
      BY <2>2, <3>1
    <3>. QED BY <2>2, <3>2, <3>3
  <2>4. CASE ~VersionMatches(expected, v)
    <3>1. /\ pc' = [pc EXCEPT ![c] = "failed"] /\ req' = [req EXCEPT ![c] = NoRequest]
          /\ result' = [result EXCEPT ![c] = NoResult] /\ current' = current
      BY <2>1, <2>4 DEF Fail
    <3>2. TypeOK'
      BY <1>0, <2>2, <3>1
    <3>3. CallInv'
      BY <2>2, <3>1
    <3>. QED BY <2>2, <3>2, <3>3
  <2>. QED BY <2>3, <2>4
<1>6. CASE CatchError(c)
  BY <1>6 DEF CatchError
<1>7. CASE DeadlockDetected(c)
  BY <1>0, <1>7 DEF DeadlockDetected, Fail
<1>. QED BY <1>1, <1>2, <1>3, <1>4, <1>5, <1>6, <1>7 DEF QuietStep

LEMMA QuietLocks ==
  ASSUME IInv, NEW c \in Clients, QuietStep(c)
  PROVE  LockInv'
<1> USE AppendStreamAssumption DEF IInv, LockInv, TypeOK, Appending
<1>1. Quiet
  BY QuietTypes
<1>2. CASE AcquireStreamLock(c)
  <2>1. /\ streamLock[req[c].stream] \in {Nobody, c}
        /\ streamLock' = [streamLock EXCEPT ![req[c].stream] = c]
        /\ \A d \in Clients \ {c} : pc'[d] = pc[d] /\ req'[d] = req[d]
    BY <1>2 DEF AcquireStreamLock
  <2>2. req[c].stream \in Streams
    BY <1>2 DEF AcquireStreamLock, CallInv, Requests
  <2>3. (pc'[c] = "checkKey" /\ req'[c] = req[c]) \/ pc'[c] = "open"
    BY <1>2 DEF AcquireStreamLock
  <2>4. ASSUME NEW d \in Clients, NEW s \in Streams, streamLock[s] = d PROVE streamLock'[s] = d
    BY <2>1, <2>4
  <2>5. ASSUME NEW d \in Clients, NEW r \in tx'[d].rows PROVE streamLock'[r.stream] = d
    BY <1>1, <2>4 DEF Quiet, Rows
  <2>6. ASSUME NEW d \in Clients, pc'[d] \in Appending \ {"lock"}
        PROVE  streamLock'[req'[d].stream] = d
    <3>1. CASE d = c
      BY <2>1, <2>2, <2>3, <2>6, <3>1
    <3>2. CASE d # c
      <4>1. req[d].stream \in Streams /\ streamLock[req[d].stream] = d
        BY <2>1, <2>6, <3>2 DEF CallInv, Requests
      <4>. QED BY <2>1, <2>4, <3>2, <4>1
    <3>. QED BY <3>1, <3>2
  <2>. QED BY <2>5, <2>6
<1>3. CASE ~AcquireStreamLock(c)
  <2>1. /\ streamLock' = streamLock
        /\ \A d \in Clients \ {c} : pc'[d] = pc[d] /\ req'[d] = req[d]
        /\ pc'[c] \in Appending \ {"lock"} =>
             pc[c] \in Appending \ {"lock"} /\ req'[c] = req[c]
    BY <1>3 DEF QuietStep, StartAppend, StartLockStream, Call, CheckIdempotencyKey,
                ValidateVersion, CatchError, DeadlockDetected, Fail
  <2>. QED BY <1>1, <2>1 DEF Quiet
<1>. QED BY <1>2, <1>3

LEMMA QuietChain ==
  ASSUME IInv, NEW c \in Clients, QuietStep(c)
  PROVE  ChainInv' /\ OutboxInv'
<1> USE DEF IInv, TypeOK
<1>1. Quiet
  BY QuietTypes
<1>2. /\ rows' = rows /\ lastValue' = lastValue /\ outbox' = outbox
      /\ \A d \in Clients : VisibleRows(d)' = VisibleRows(d)
  BY <1>1 DEF Quiet, tables, VisibleRows
<1>3. ASSUME NEW d \in Clients, pc'[d] = "insert"
      PROVE  IsStreamVersion(current'[d], req'[d].stream, VisibleRows(d))
  <2>1. CASE pc[d] = "insert" /\ current'[d] = current[d] /\ req'[d] = req[d]
    BY <2>1 DEF ChainInv
  <2>2. CASE ValidateVersion(c) /\ d = c
    BY <1>3, <2>2 DEF ValidateVersion, Fail
  <2>3. d # c => pc'[d] = pc[d] /\ current'[d] = current[d] /\ req'[d] = req[d]
    BY DEF QuietStep, StartAppend, StartLockStream, Call, AcquireStreamLock, CheckIdempotencyKey,
           ValidateVersion, CatchError, DeadlockDetected, Fail
  <2>4. d = c /\ ~ValidateVersion(c) => pc'[d] # "insert"
    BY DEF QuietStep, StartAppend, StartLockStream, Call, AcquireStreamLock, CheckIdempotencyKey,
           CatchError, DeadlockDetected, Fail
  <2>. QED BY <1>3, <2>1, <2>2, <2>3, <2>4
<1>4. ChainInv'
  BY <1>1, <1>2, <1>3 DEF ChainInv, Quiet, Chained, IsStreamVersion
<1>5. OutboxInv'
  BY <1>1, <1>2 DEF OutboxInv, OutboxMatchesEvents, Quiet
<1>. QED BY <1>4, <1>5

-----------------------------------------------------------------------------
\* The new rows follow the stream's last version and every reserved position.
LEMMA NewRowsFacts ==
  ASSUME IInv, NEW c \in Clients, pc[c] = "insert", ~SequenceExhausted(c)
  PROVE  /\ NewRows(c) \subseteq Rows
         /\ \A r \in NewRows(c) :
              /\ r.stream = req[c].stream /\ r.key = req[c].key /\ r.body = req[c].body
              /\ \E i \in 1..req[c].body.events :
                   r.version = current[c] + i /\ r.pos = lastValue + i
         /\ \A i \in 1..req[c].body.events : \E r \in NewRows(c) : r.version = current[c] + i
         /\ \A q, r \in NewRows(c) : q.version = r.version => q = r
         /\ lastValue + req[c].body.events \in lastValue + 1 .. MaxPosition
         /\ current[c] <= lastValue
<1> DEFINE n == req[c].body.events
<1> USE AppendStreamAssumption
<1>1. /\ req[c] \in Requests /\ n \in Nat \ {0} /\ lastValue \in Nat /\ current[c] \in Nat
      /\ lastValue + n <= MaxPosition
  BY DEF IInv, TypeOK, CallInv, Appending, Requests, SequenceExhausted, Versions
<1>2. current[c] <= lastValue
  <2>1. CASE current[c] = 0
    BY <1>1, <2>1
  <2>2. CASE current[c] # 0
    <3>1. PICK r \in VisibleRows(c) : r.version = current[c]
      BY <2>2 DEF IInv, ChainInv, IsStreamVersion
    <3>2. r \in Rows /\ r.version <= r.pos /\ r.pos <= lastValue
      BY DEF IInv, TypeOK, ChainInv, VisibleRows
    <3>. QED BY <1>1, <3>1, <3>2 DEF Rows, Positions
  <2>. QED BY <2>1, <2>2
<1>3. ASSUME NEW i \in 1..n
      PROVE  [stream |-> req[c].stream, version |-> current[c] + i, pos |-> lastValue + i,
              key |-> req[c].key, body |-> req[c].body] \in Rows
  <2>1. current[c] + i \in Positions /\ lastValue + i \in Positions
    BY <1>1, <1>2 DEF Positions
  <2>. QED BY <1>1, <2>1 DEF Rows, Requests
<1>4. NewRows(c) \subseteq Rows
  BY <1>3 DEF NewRows
<1>5. \A r \in NewRows(c) :
         /\ r.stream = req[c].stream /\ r.key = req[c].key /\ r.body = req[c].body
         /\ \E i \in 1..n : r.version = current[c] + i /\ r.pos = lastValue + i
  BY DEF NewRows
<1>6. ASSUME NEW i \in 1..n PROVE \E r \in NewRows(c) : r.version = current[c] + i
  <2> DEFINE r == [stream |-> req[c].stream, version |-> current[c] + i, pos |-> lastValue + i,
                   key |-> req[c].key, body |-> req[c].body]
  <2>1. r \in NewRows(c)
    BY DEF NewRows
  <2>2. r.version = current[c] + i
    OBVIOUS
  <2>. QED BY <2>1, <2>2
<1>7. ASSUME NEW q \in NewRows(c), NEW r \in NewRows(c), q.version = r.version PROVE q = r
  <2>1. PICK i \in 1..n :
          q = [stream |-> req[c].stream, version |-> current[c] + i, pos |-> lastValue + i,
               key |-> req[c].key, body |-> req[c].body]
    BY DEF NewRows
  <2>2. PICK j \in 1..n :
          r = [stream |-> req[c].stream, version |-> current[c] + j, pos |-> lastValue + j,
               key |-> req[c].key, body |-> req[c].body]
    BY DEF NewRows
  <2>3. i = j
    BY <1>1, <1>7, <2>1, <2>2
  <2>. QED BY <2>1, <2>2, <2>3
<1>8. lastValue + n \in lastValue + 1 .. MaxPosition
  BY <1>1
<1>. QED BY <1>2, <1>4, <1>5, <1>6, <1>7, <1>8

LEMMA InsertIInv ==
  ASSUME IInv, NEW c \in Clients, InsertEvents(c)
  PROVE  IInv'
<1> DEFINE N == NewRows(c)
           s == req[c].stream
           n == req[c].body.events
<1> USE AppendStreamAssumption
<1>0. NoResult \in [from : Versions, to : Versions]
      /\ NoRequest \in {OnlyLock(t) : t \in Streams \cup {NoStream}}
  BY DEF NoResult, NoRequest, Versions
<1>1. CASE SequenceExhausted(c)
  <2>1. /\ pc[c] = "insert" /\ pc' = [pc EXCEPT ![c] = "aborted"]
        /\ req' = [req EXCEPT ![c] = NoRequest] /\ result' = [result EXCEPT ![c] = NoResult]
        /\ UNCHANGED <<tables, streamLock, current, lastValue, tx>>
    BY <1>1 DEF InsertEvents, Fail
  <2>2. TypeOK' /\ CallInv' /\ LockInv'
    BY <1>0, <2>1 DEF IInv, TypeOK, CallInv, LockInv, Appending, tables
  <2>3. ChainInv' /\ OutboxInv'
    BY <2>1 DEF IInv, ChainInv, TypeOK, OutboxInv, OutboxMatchesEvents, VisibleRows,
                IsStreamVersion, tables
  <2>. QED BY <2>2, <2>3 DEF IInv
<1>2. CASE ~SequenceExhausted(c)
  <2>1. /\ pc[c] = "insert"
        /\ lastValue' = lastValue + n
        /\ tx' = [tx EXCEPT ![c].rows = @ \cup N, ![c].outbox = @ \cup OutboxRows(c)]
        /\ result' = [result EXCEPT ![c] = AppendedRange(c)]
        /\ pc' = [pc EXCEPT ![c] = IF req[c].key = NoKey THEN "open" ELSE "recordKey"]
        /\ UNCHANGED <<tables, streamLock, current, req>>
    BY <1>2 DEF InsertEvents
  <2>2. /\ N \subseteq Rows
        /\ \A r \in N : /\ r.stream = s /\ r.key = req[c].key /\ r.body = req[c].body
                        /\ \E i \in 1..n : r.version = current[c] + i /\ r.pos = lastValue + i
        /\ \A i \in 1..n : \E r \in N : r.version = current[c] + i
        /\ \A q, r \in N : q.version = r.version => q = r
        /\ lastValue + n \in lastValue + 1 .. MaxPosition
        /\ current[c] <= lastValue
    BY <1>2, <2>1, NewRowsFacts
  <2>3. /\ req[c] \in Requests /\ n \in Nat \ {0} /\ lastValue \in Nat /\ current[c] \in Nat
        /\ s \in Streams
    BY <2>1 DEF IInv, TypeOK, CallInv, Appending, Requests, Versions
  <2>4. OutboxRows(c) = {r.pos : r \in {x \in N : x.body.topics}}
    BY DEF OutboxRows
  <2> HIDE DEF N, s, n
  <2>5. /\ \A d \in Clients \ {c} : tx'[d] = tx[d] /\ pc'[d] = pc[d] /\ result'[d] = result[d]
        /\ tx'[c].rows = tx[c].rows \cup N /\ tx'[c].keys = tx[c].keys
        /\ tx'[c].outbox = tx[c].outbox \cup OutboxRows(c)
        /\ result'[c] = AppendedRange(c)
        /\ pc'[c] = IF req[c].key = NoKey THEN "open" ELSE "recordKey"
    BY <2>1 DEF IInv, TypeOK
  <2>6. AppendedRange(c) \in [from : Positions, to : Positions]
    BY <2>2, <2>3 DEF AppendedRange, Positions, n
  <2>7. TypeOK'
    <3>1. OutboxRows(c) \subseteq Positions
      BY <2>2, <2>4 DEF Rows
    <3>2. tx' \in [Clients -> [rows : SUBSET Rows, keys : SUBSET KeyRecords,
                               outbox : SUBSET Positions, calls : 0..MaxAppends]]
      <4> DEFINE T == [rows : SUBSET Rows, keys : SUBSET KeyRecords,
                       outbox : SUBSET Positions, calls : 0..MaxAppends]
                 t == [tx[c] EXCEPT !.rows = @ \cup N, !.outbox = @ \cup OutboxRows(c)]
      <4>1. tx \in [Clients -> T]
        BY DEF IInv, TypeOK
      <4>2. t \in T
        <5>1. tx[c] \in T /\ tx[c].rows \cup N \in SUBSET Rows
              /\ tx[c].outbox \cup OutboxRows(c) \in SUBSET Positions
          BY <2>2, <3>1, <4>1
        <5>. QED BY <5>1
      <4>3. tx' = [tx EXCEPT ![c] = t]
        BY <2>1
      <4> HIDE DEF T, t
      <4>4. tx' \in [Clients -> T]
        BY <4>1, <4>2, <4>3
      <4>. QED BY <4>4 DEF T
    <3>3. result' \in [Clients -> [from : Versions, to : Versions]]
      BY <2>1, <2>6 DEF IInv, TypeOK, Versions, Positions
    <3>4. pc' \in [Clients -> {"idle", "open", "lockStream", "lock", "checkKey",
                               "validate", "insert", "recordKey", "failed", "aborted"}]
      BY <2>1 DEF IInv, TypeOK
    <3>5. lastValue' \in 0..MaxPosition
      BY <2>1, <2>2, <2>3
    <3>. QED BY <2>1, <3>2, <3>3, <3>4, <3>5 DEF IInv, TypeOK, tables
  <2>8. CallInv' /\ LockInv'
    <3>1. CallInv'
      BY <2>1, <2>3, <2>5, <2>6 DEF IInv, CallInv, Requests, Appending
    <3>2. streamLock[s] = c
      BY <2>1 DEF IInv, LockInv, Appending, s
    <3>3. LockInv'
      <4>1. ASSUME NEW d \in Clients, NEW r \in tx'[d].rows PROVE streamLock[r.stream] = d
        BY <2>2, <2>5, <3>2, <4>1 DEF IInv, LockInv
      <4>2. ASSUME NEW d \in Clients, pc'[d] \in Appending \ {"lock"}
            PROVE  streamLock[req[d].stream] = d
        BY <2>1, <2>5, <3>2, <4>2 DEF IInv, LockInv, Appending, s
      <4>. QED BY <2>1, <4>1, <4>2 DEF LockInv
    <3>. QED BY <3>1, <3>3
  <2>9. ChainInv'
    <3>1. VisibleRows(c)' = VisibleRows(c) \cup N /\ IsStreamVersion(current[c], s, VisibleRows(c))
      BY <2>1, <2>5 DEF IInv, ChainInv, VisibleRows, tables, s
    <3>2. \A d \in Clients \ {c} : VisibleRows(d)' = VisibleRows(d)
      BY <2>1, <2>5 DEF VisibleRows, tables
    <3>3. \A r \in VisibleRows(c) : r \in Rows /\ r.pos <= lastValue
      BY DEF IInv, TypeOK, ChainInv, VisibleRows
    <3>4. Chained(VisibleRows(c) \cup N)
      <4> DEFINE V == VisibleRows(c)
      <4>0. Chained(V) /\ \A r \in V : r.stream = s => r.version <= current[c]
        BY <3>1 DEF IInv, ChainInv, IsStreamVersion
      <4> HIDE DEF V
      <4>1. ASSUME NEW q \in V \cup N, NEW r \in V \cup N, q.stream = r.stream,
                   q.version = r.version
            PROVE  q = r
        BY <2>2, <2>3, <4>0, <4>1 DEF Chained
      <4>2. ASSUME NEW r \in V \cup N, NEW v \in 1..r.version
            PROVE  \E q \in V \cup N : q.stream = r.stream /\ q.version = v
        <5>1. CASE r \in V
          BY <4>0, <5>1 DEF Chained
        <5>2. CASE r \in N /\ v <= current[c]
          <6>1. PICK t \in V : t.stream = s /\ t.version = current[c]
            BY <2>3, <3>1, <5>2 DEF IsStreamVersion, V
          <6>. QED BY <2>2, <2>3, <4>0, <5>2, <6>1 DEF Chained
        <5>3. CASE r \in N /\ v > current[c]
          <6>1. PICK i \in 1..n : r.version = current[c] + i
            BY <2>2, <5>3
          <6>2. v - current[c] \in 1..n /\ current[c] + (v - current[c]) = v
            BY <2>3, <5>3, <6>1
          <6>. QED BY <2>2, <5>3, <6>2
        <5>. QED BY <2>3, <5>1, <5>2, <5>3
      <4>3. ASSUME NEW q \in V \cup N, NEW r \in V \cup N, q.stream = r.stream,
                   q.version < r.version
            PROVE  q.pos < r.pos
        <5>1. CASE q \in V /\ r \in V
          BY <4>0, <4>3, <5>1 DEF Chained
        <5>2. CASE q \in V /\ r \in N
          BY <2>2, <2>3, <3>3, <5>2 DEF Rows, Positions, V
        <5>3. CASE q \in N /\ r \in V
          BY <2>2, <2>3, <3>3, <4>0, <4>3, <5>3 DEF Rows, Positions, V
        <5>4. CASE q \in N /\ r \in N
          BY <2>2, <2>3, <4>3, <5>4
        <5>. QED BY <5>1, <5>2, <5>3, <5>4
      <4>. QED BY <4>1, <4>2, <4>3 DEF Chained, V
    <3>5. \A d \in Clients : \A r \in tx'[d].rows : r.version <= r.pos /\ r.pos <= lastValue'
      <4>1. \A d \in Clients : \A r \in tx[d].rows : r \in Rows /\ r.version <= r.pos /\ r.pos <= lastValue
        BY DEF IInv, TypeOK, ChainInv
      <4>2. \A r \in N : r.version <= r.pos /\ r.pos <= lastValue + n
        BY <2>2, <2>3
      <4>3. ASSUME NEW d \in Clients, NEW r \in tx[d].rows PROVE r.pos <= lastValue + n
        BY <2>3, <4>1, <4>3 DEF Rows, Positions
      <4>. QED BY <2>1, <2>5, <4>1, <4>2, <4>3
    <3>6. \A r \in rows' : r.version <= r.pos /\ r.pos <= lastValue'
      BY <2>1, <2>2, <2>3 DEF IInv, TypeOK, ChainInv, tables, Rows, Positions
    <3>7. \A d \in Clients : Chained(VisibleRows(d)')
      BY <3>1, <3>2, <3>4 DEF IInv, ChainInv
    <3>8. \A d \in Clients : pc'[d] = "insert" =>
             IsStreamVersion(current'[d], req'[d].stream, VisibleRows(d)')
      BY <2>1, <2>5, <3>2 DEF IInv, ChainInv
    <3>9. Chained(rows')
      BY <2>1 DEF IInv, ChainInv, tables
    <3>. QED BY <3>5, <3>6, <3>7, <3>8, <3>9 DEF ChainInv, Chained, IsStreamVersion
  <2>10. OutboxInv'
    <3>1. tx'[c].outbox = {r.pos : r \in {x \in tx'[c].rows : x.body.topics}}
      BY <2>4, <2>5 DEF IInv, OutboxInv
    <3>. QED BY <2>1, <2>5, <3>1 DEF IInv, OutboxInv, OutboxMatchesEvents, tables
  <2>. QED BY <2>7, <2>8, <2>9, <2>10 DEF IInv
<1>. QED BY <1>1, <1>2

\* The record of an idempotency key is no row of a stream.
LEMMA RecordIInv ==
  ASSUME IInv, NEW c \in Clients, RecordIdempotencyKey(c)
  PROVE  IInv'
<1> USE AppendStreamAssumption DEF IInv, TypeOK
<1>1. /\ pc[c] = "recordKey"
      /\ UNCHANGED <<tables, lastValue, streamLock, current>>
  BY DEF RecordIdempotencyKey
<1>2. /\ tx' \in [Clients -> [rows : SUBSET Rows, keys : SUBSET KeyRecords,
                              outbox : SUBSET Positions, calls : 0..MaxAppends]]
      /\ \A d \in Clients : tx'[d].rows = tx[d].rows /\ tx'[d].outbox = tx[d].outbox
  <2>1. CASE UNCHANGED tx
    BY <2>1
  <2>2. CASE tx' = [tx EXCEPT ![c].keys = @ \cup {NewKey(c)}]
    <3>1. NewKey(c) \in KeyRecords
      BY <1>1 DEF CallInv, Appending, NewKey, KeyRecords, Requests
    <3> DEFINE t == [tx[c] EXCEPT !.keys = @ \cup {NewKey(c)}]
    <3>2. tx \in [Clients -> TxType] /\ tx' = [tx EXCEPT ![c] = t]
      BY <2>2 DEF TxType
    <3> HIDE DEF IInv, TypeOK
    <3>3. t \in TxType /\ t.rows = tx[c].rows /\ t.outbox = tx[c].outbox
      BY <3>1, <3>2, TxRecords
    <3> HIDE DEF t
    <3>4. /\ tx' \in [Clients -> TxType] /\ tx'[c] = t
          /\ \A d \in Clients \ {c} : tx'[d] = tx[d]
      BY <3>2, <3>3, TxUpdate
    <3>. QED BY <3>3, <3>4 DEF TxType
  <2>. QED BY <2>1, <2>2 DEF RecordIdempotencyKey
<1>3. \/ pc' = [pc EXCEPT ![c] = "open"] /\ UNCHANGED <<req, result>>
      \/ Fail(c, "aborted")
  BY DEF RecordIdempotencyKey
<1>4. TypeOK' /\ CallInv' /\ LockInv'
  <2>1. CASE pc' = [pc EXCEPT ![c] = "open"] /\ UNCHANGED <<req, result>>
    BY <1>1, <1>2, <2>1 DEF CallInv, LockInv, Appending, tables
  <2>2. CASE Fail(c, "aborted")
    <3>1. /\ NoResult \in [from : Versions, to : Versions]
          /\ NoRequest \in {OnlyLock(t) : t \in Streams \cup {NoStream}}
      BY DEF NoResult, NoRequest, Versions
    <3>. QED BY <1>1, <1>2, <2>2, <3>1 DEF CallInv, LockInv, Appending, tables, Fail
  <2>. QED BY <1>3, <2>1, <2>2
<1>5. \A d \in Clients :
        /\ pc'[d] = "insert" => pc[d] = "insert" /\ req'[d] = req[d]
        /\ VisibleRows(d)' = VisibleRows(d)
  BY <1>1, <1>2, <1>3 DEF Fail, VisibleRows, tables
<1>6. ChainInv' /\ OutboxInv'
  BY <1>1, <1>2, <1>5 DEF ChainInv, Chained, IsStreamVersion, OutboxInv, OutboxMatchesEvents, tables
<1>. QED BY <1>4, <1>6

-----------------------------------------------------------------------------
\* The end of a transaction, for whoever ends it.
LEMMA EndTxFacts ==
  ASSUME IInv, NEW c \in Clients, EndTx(c)
  PROVE  /\ streamLock' \in [Streams -> Clients \cup {Nobody}]
         /\ tx' \in [Clients -> [rows : SUBSET Rows, keys : SUBSET KeyRecords,
                                 outbox : SUBSET Positions, calls : 0..MaxAppends]]
         /\ pc' \in [Clients -> {"idle", "open", "lockStream", "lock", "checkKey",
                                 "validate", "insert", "recordKey", "failed", "aborted"}]
         /\ req' \in [Clients -> Requests \cup {OnlyLock(s) : s \in Streams \cup {NoStream}}]
         /\ current' \in [Clients -> Versions]
         /\ result' \in [Clients -> [from : Versions, to : Versions]]
         /\ tx'[c].rows = {} /\ tx'[c].keys = {} /\ tx'[c].outbox = {} /\ pc'[c] = "idle"
         /\ \A d \in Clients \ {c} : /\ tx'[d] = tx[d] /\ pc'[d] = pc[d] /\ req'[d] = req[d]
                                     /\ current'[d] = current[d] /\ result'[d] = result[d]
         /\ CallInv' /\ LockInv'
<1> USE AppendStreamAssumption DEF IInv, TypeOK, EndTx
<1>1. /\ NoResult \in [from : Versions, to : Versions]
      /\ NoRequest \in {OnlyLock(t) : t \in Streams \cup {NoStream}}
      /\ EmptyTx \in [rows : SUBSET Rows, keys : SUBSET KeyRecords,
                      outbox : SUBSET Positions, calls : 0..MaxAppends]
      /\ EmptyTx.rows = {} /\ EmptyTx.keys = {} /\ EmptyTx.outbox = {}
      /\ 0 \in Versions
  BY DEF NoResult, NoRequest, Versions, EmptyTx
<1>2. /\ streamLock' \in [Streams -> Clients \cup {Nobody}]
      /\ tx' \in [Clients -> [rows : SUBSET Rows, keys : SUBSET KeyRecords,
                              outbox : SUBSET Positions, calls : 0..MaxAppends]]
      /\ pc' \in [Clients -> {"idle", "open", "lockStream", "lock", "checkKey",
                              "validate", "insert", "recordKey", "failed", "aborted"}]
      /\ req' \in [Clients -> Requests \cup {OnlyLock(s) : s \in Streams \cup {NoStream}}]
      /\ current' \in [Clients -> Versions]
      /\ result' \in [Clients -> [from : Versions, to : Versions]]
  BY <1>1
<1>3. /\ tx'[c] = EmptyTx /\ pc'[c] = "idle"
      /\ \A d \in Clients \ {c} : /\ tx'[d] = tx[d] /\ pc'[d] = pc[d] /\ req'[d] = req[d]
                                  /\ current'[d] = current[d] /\ result'[d] = result[d]
  OBVIOUS
<1>4. CallInv'
  BY <1>3 DEF CallInv, Appending
<1>5. \A d \in Clients \ {c} : \A s \in Streams : streamLock[s] = d => streamLock'[s] = d
  OBVIOUS
<1>6. LockInv'
  <2>1. ASSUME NEW d \in Clients, NEW r \in tx'[d].rows PROVE streamLock'[r.stream] = d
    <3>1. d # c /\ r \in tx[d].rows /\ r.stream \in Streams
      BY <1>1, <1>3 DEF Rows
    <3>. QED BY <1>5, <3>1 DEF LockInv
  <2>2. ASSUME NEW d \in Clients, pc'[d] \in Appending \ {"lock"}
        PROVE  streamLock'[req'[d].stream] = d
    <3>1. d # c /\ pc'[d] = pc[d] /\ req'[d] = req[d]
      BY <1>3, <2>2 DEF Appending
    <3>2. req[d].stream \in Streams /\ streamLock[req[d].stream] = d
      BY <2>2, <3>1 DEF CallInv, LockInv, Requests
    <3>. QED BY <1>5, <3>1, <3>2
  <2>. QED BY <2>1, <2>2 DEF LockInv
<1>. QED BY <1>1, <1>2, <1>3, <1>4, <1>6

\* The rows of two open transactions are on different streams.
LEMMA StreamsApart ==
  ASSUME IInv, NEW c \in Clients, NEW d \in Clients, c # d,
         NEW q \in tx[c].rows
  PROVE  /\ \A r \in tx[d].rows : q.stream # r.stream
         /\ pc[d] \in Appending \ {"lock"} => q.stream # req[d].stream
BY DEF IInv, LockInv

\* What client d sees once c has committed is still a chain on every stream: each
\* stream has rows of at most one of the two.
LEMMA MergedChain ==
  ASSUME IInv, NEW c \in Clients, NEW d \in Clients, c # d
  PROVE  Chained(VisibleRows(c) \cup VisibleRows(d))
<1> DEFINE C == VisibleRows(c)
           D == VisibleRows(d)
<1>1. Chained(C) /\ Chained(D) /\ C = rows \cup tx[c].rows /\ D = rows \cup tx[d].rows
  BY DEF IInv, ChainInv, VisibleRows
<1>2. \A q \in tx[c].rows, r \in tx[d].rows : q.stream # r.stream
  BY StreamsApart
<1>3. ASSUME NEW q \in C \cup D, NEW r \in C \cup D, q.stream = r.stream
      PROVE  (q \in C /\ r \in C) \/ (q \in D /\ r \in D)
  BY <1>1, <1>2, <1>3
<1> HIDE DEF C, D
<1>4. ASSUME NEW q \in C \cup D, NEW r \in C \cup D, q.stream = r.stream, q.version = r.version
      PROVE  q = r
  BY <1>1, <1>3, <1>4 DEF Chained
<1>5. ASSUME NEW r \in C \cup D, NEW v \in 1..r.version
      PROVE  \E q \in C \cup D : q.stream = r.stream /\ q.version = v
  BY <1>1, <1>5 DEF Chained
<1>6. ASSUME NEW q \in C \cup D, NEW r \in C \cup D, q.stream = r.stream, q.version < r.version
      PROVE  q.pos < r.pos
  BY <1>1, <1>3, <1>6 DEF Chained
<1>. QED BY <1>4, <1>5, <1>6 DEF Chained, C, D

LEMMA CommitIInv ==
  ASSUME IInv, NEW c \in Clients, Commit(c)
  PROVE  IInv'
<1>1. /\ pc[c] = "open" /\ EndTx(c)
      /\ rows' = rows \cup tx[c].rows /\ keys' = keys \cup tx[c].keys
      /\ outbox' = outbox \cup tx[c].outbox
      /\ UNCHANGED <<expired, lastValue>>
  BY DEF Commit
<1>2. TypeOK' /\ CallInv' /\ LockInv'
  BY <1>1, EndTxFacts DEF IInv, TypeOK
<1>3. /\ tx'[c].rows = {} /\ tx'[c].outbox = {} /\ pc'[c] = "idle"
      /\ \A d \in Clients \ {c} : /\ tx'[d] = tx[d] /\ pc'[d] = pc[d] /\ req'[d] = req[d]
                                  /\ current'[d] = current[d]
  BY <1>1, EndTxFacts
<1>4. VisibleRows(c)' = VisibleRows(c) /\ rows' = VisibleRows(c)
  BY <1>1, <1>3 DEF VisibleRows
<1>5. \A d \in Clients \ {c} : VisibleRows(d)' = VisibleRows(c) \cup VisibleRows(d)
  BY <1>1, <1>3 DEF VisibleRows
<1>6. Chained(rows') /\ \A d \in Clients : Chained(VisibleRows(d)')
  BY <1>4, <1>5, MergedChain DEF IInv, ChainInv
<1>7. /\ \A r \in rows' : r.version <= r.pos /\ r.pos <= lastValue'
      /\ \A d \in Clients : \A r \in tx'[d].rows : r.version <= r.pos /\ r.pos <= lastValue'
  BY <1>1, <1>3 DEF IInv, ChainInv
<1>8. ASSUME NEW d \in Clients, pc'[d] = "insert"
      PROVE  IsStreamVersion(current'[d], req'[d].stream, VisibleRows(d)')
  <2>1. /\ d # c /\ pc[d] = "insert" /\ req'[d] = req[d] /\ current'[d] = current[d]
    BY <1>3, <1>8
  <2>2. IsStreamVersion(current[d], req[d].stream, VisibleRows(d))
    BY <2>1 DEF IInv, ChainInv
  <2>3. \A r \in tx[c].rows : r.stream # req[d].stream
    BY <2>1, StreamsApart DEF Appending
  <2>. QED BY <1>5, <2>1, <2>2, <2>3 DEF IsStreamVersion, VisibleRows
<1>9. ChainInv'
  BY <1>6, <1>7, <1>8 DEF ChainInv, Chained, IsStreamVersion
<1>10. OutboxInv'
  BY <1>1, <1>3 DEF IInv, OutboxInv, OutboxMatchesEvents
<1>. QED BY <1>2, <1>9, <1>10 DEF IInv

LEMMA RollbackIInv ==
  ASSUME IInv, NEW c \in Clients, Rollback(c)
  PROVE  IInv'
<1>1. EndTx(c) /\ UNCHANGED <<tables, lastValue>>
  BY DEF Rollback
<1>2. TypeOK' /\ CallInv' /\ LockInv'
  BY <1>1, EndTxFacts DEF IInv, TypeOK, tables
<1>3. /\ tx'[c].rows = {} /\ tx'[c].outbox = {} /\ pc'[c] = "idle"
      /\ \A d \in Clients \ {c} : /\ tx'[d] = tx[d] /\ pc'[d] = pc[d] /\ req'[d] = req[d]
                                  /\ current'[d] = current[d]
  BY <1>1, EndTxFacts
<1>4. /\ VisibleRows(c)' = rows
      /\ \A d \in Clients \ {c} : VisibleRows(d)' = VisibleRows(d)
  BY <1>1, <1>3 DEF VisibleRows, tables
<1>5. ChainInv'
  BY <1>1, <1>3, <1>4 DEF IInv, ChainInv, Chained, IsStreamVersion, tables
<1>6. OutboxInv'
  BY <1>1, <1>3 DEF IInv, OutboxInv, OutboxMatchesEvents, tables
<1>. QED BY <1>2, <1>5, <1>6 DEF IInv

LEMMA CleanupIInv ==
  ASSUME IInv, CleanupIdempotencyKeys
  PROVE  IInv'
<1>1. /\ keys' \subseteq keys /\ expired' \subseteq Positions
      /\ UNCHANGED <<rows, outbox, lastValue, streamLock, tx, pc, req, current, result>>
  BY DEF CleanupIdempotencyKeys, IInv, TypeOK, Rows
<1>. QED BY <1>1 DEF IInv, TypeOK, CallInv, LockInv, ChainInv, Chained, IsStreamVersion,
                     VisibleRows, OutboxInv, OutboxMatchesEvents

LEMMA StepIInv == IInv /\ [Next]_vars => IInv'
<1> SUFFICES ASSUME IInv, [Next]_vars PROVE IInv'
  OBVIOUS
<1>1. ASSUME NEW c \in Clients, QuietStep(c) PROVE IInv'
  BY <1>1, QuietTypes, QuietLocks, QuietChain DEF IInv
<1>2. ASSUME NEW c \in Clients, InsertEvents(c) \/ RecordIdempotencyKey(c) PROVE IInv'
  BY <1>2, InsertIInv, RecordIInv
<1>3. ASSUME NEW c \in Clients, Commit(c) \/ Rollback(c) PROVE IInv'
  BY <1>3, CommitIInv, RollbackIInv
<1>4. CASE CleanupIdempotencyKeys
  BY <1>4, CleanupIInv
<1>5. CASE UNCHANGED vars
  BY <1>5 DEF IInv, TypeOK, CallInv, LockInv, ChainInv, Chained, IsStreamVersion,
              VisibleRows, OutboxInv, OutboxMatchesEvents, vars, tables
<1>. QED BY <1>1, <1>2, <1>3, <1>4, <1>5 DEF Next, AppendStep, QuietStep

THEOREM Invariance == Spec => []IInv
BY InitIInv, StepIInv, PTL DEF Spec

-----------------------------------------------------------------------------
\* Every variable keeps its type; above all, versions never exceed positions.
THEOREM TypeCorrect == Spec => []TypeOK
BY Invariance, PTL DEF IInv

\* The version a client read under the stream lock is still the stream's last one
\* when it inserts: the committed events of a stream never collide or leave a gap,
\* and the UNIQUE constraint of the table never fires.
THEOREM GapFree == Spec => []GapFreeVersions
<1>1. IInv => GapFreeVersions
  BY DEF IInv, ChainInv, Chained, GapFreeVersions
<1>. QED BY <1>1, Invariance, PTL

\* The version that optimistic concurrency checked still is the stream's last one
\* when the rows are inserted, whatever the other transactions have written.
THEOREM CheckedVersionHolds == Spec => []ValidatedVersionHolds
<1>1. IInv => ValidatedVersionHolds
  <2> SUFFICES ASSUME IInv, NEW c \in Clients, pc[c] = "insert", NEW d \in Clients,
                      NEW r \in rows \cup tx[d].rows, r.stream = req[c].stream
               PROVE  r.version <= current[c]
    BY DEF ValidatedVersionHolds
  <2>1. r \in VisibleRows(c)
    BY DEF IInv, LockInv, Appending, VisibleRows
  <2>. QED BY <2>1 DEF IInv, ChainInv, IsStreamVersion
<1>. QED BY <1>1, Invariance, PTL

\* Reading the log in position order meets every stream in version order.
THEOREM LogOrder == Spec => []StreamFollowsLog
<1>1. IInv => StreamFollowsLog
  BY DEF IInv, ChainInv, Chained, StreamFollowsLog
<1>. QED BY <1>1, Invariance, PTL

\* Events and their outbox rows become visible together or not at all.
THEOREM OutboxAgrees == Spec => []OutboxMatchesEvents
<1>1. IInv => OutboxMatchesEvents
  BY DEF IInv, OutboxInv
<1>. QED BY <1>1, Invariance, PTL

-----------------------------------------------------------------------------
(***************************************************************************)
(* Idempotency: a key appends once while its record is retained, and the   *)
(* answer given for it is true, for any number of clients, streams and     *)
(* keys.  Records and rows are related in what each client sees; while a   *)
(* client has inserted rows and not yet recorded their key, the relation   *)
(* holds of everything but those rows.  Two streams may be under way with  *)
(* one key, so that the stream locks do not help: what keeps the relation  *)
(* when one of them commits is that the key's record is unique among the   *)
(* committed records and every open transaction (its primary key).         *)
(***************************************************************************)

\* The rows that the running append has inserted and not yet recorded the key of.
Fresh(c) ==
  {r \in tx[c].rows : /\ r.stream = req[c].stream
                      /\ r.version \in result[c].from .. result[c].to}

\* What client c sees without them.
SettledRows(c) ==
  IF pc[c] = "recordKey" THEN rows \cup (tx[c].rows \ Fresh(c)) ELSE VisibleRows(c)

\* The rows of R with a retained key are the ones its record in K names, and they
\* are there.  E is the set of positions whose record has been deleted.
KeyedIn(R, K, E) ==
  /\ \A x, y \in K : x.key = y.key => x = y
  /\ \A r \in R : (r.key \in Keys /\ r.pos \notin E) => \E x \in K : x.key = r.key
  /\ \A x \in K : \A r \in R :
       (r.key = x.key /\ r.pos \notin E) <=>
       (r.stream = x.stream /\ r.version \in x.from .. x.to)
  /\ \A x \in K :
       /\ x.to - x.from + 1 = x.body.events
       /\ \A v \in x.from .. x.to : \E r \in R :
            r.stream = x.stream /\ r.version = v /\ r.key = x.key /\ r.body = x.body

Keyed(R, K) == KeyedIn(R, K, expired)

\* A position belongs to one row, and it is reserved before it can expire.
PositionInv ==
  /\ \A q, r \in rows : q.pos = r.pos => q = r
  /\ \A p \in expired : p <= lastValue
  /\ \A c \in Clients :
       /\ \A q, r \in tx[c].rows : q.pos = r.pos => q = r
       /\ \A q \in rows : \A r \in tx[c].rows : q.pos # r.pos
  /\ \A c, d \in Clients : c # d =>
       \A q \in tx[c].rows : \A r \in tx[d].rows : q.pos # r.pos

\* The primary key: uncommitted records share their key with no other record.
RecordsApart ==
  \A c \in Clients :
    /\ \A x \in tx[c].keys : \A y \in keys : x.key # y.key
    /\ \A d \in Clients : c # d => \A x \in tx[c].keys : \A y \in tx[d].keys : x.key # y.key

\* The rows whose key is about to be recorded are all there, and new.
FreshInv ==
  \A c \in Clients : pc[c] = "recordKey" =>
    /\ result[c].to - result[c].from + 1 = req[c].body.events
    /\ \A v \in result[c].from .. result[c].to : \E r \in Fresh(c) : r.version = v
    /\ \A r \in Fresh(c) :
         r.key = req[c].key /\ r.body = req[c].body /\ r.pos \notin expired

KeyedInv ==
  /\ Keyed(rows, keys)
  /\ \A c \in Clients : pc[c] # "aborted" => Keyed(SettledRows(c), VisibleKeys(c))

AnswerInv ==
  /\ AnswerIsTrue
  /\ \A c \in Clients : pc[c] \in {"lockStream", "failed"} => result[c] = NoResult

KInv == PositionInv /\ RecordsApart /\ FreshInv /\ KeyedInv /\ AnswerInv

-----------------------------------------------------------------------------
LEMMA InitKInv == Init => KInv
BY AppendStreamAssumption
   DEF Init, KInv, PositionInv, RecordsApart, FreshInv, KeyedInv, AnswerInv, AnswerIsTrue, Keyed, KeyedIn, NoResult,
       SettledRows, VisibleRows, VisibleKeys, EmptyTx

\* A step that writes nothing keeps what rows and records have to do with each
\* other; only a known key gives an answer, and it is its record.
LEMMA QuietKInv ==
  ASSUME IInv, KInv, NEW c \in Clients, QuietStep(c)
  PROVE  KInv'
<1> USE DEF IInv, KInv, TypeOK
<1>1. Quiet /\ rows' = rows /\ keys' = keys /\ expired' = expired /\ lastValue' = lastValue
  BY QuietTypes DEF Quiet, tables
<1>2. \A d \in Clients : VisibleRows(d)' = VisibleRows(d) /\ VisibleKeys(d)' = VisibleKeys(d)
  BY <1>1 DEF Quiet, VisibleRows, VisibleKeys
<1>3. PositionInv' /\ RecordsApart'
  BY <1>1 DEF PositionInv, RecordsApart, Quiet
<1>4. /\ \A d \in Clients \ {c} : pc'[d] = pc[d] /\ req'[d] = req[d] /\ result'[d] = result[d]
      /\ pc'[c] # "recordKey"
      /\ pc[c] = "recordKey" => pc'[c] = "aborted"
      /\ pc[c] = "aborted" => pc'[c] = "aborted"
  BY DEF QuietStep, StartAppend, StartLockStream, Call, AcquireStreamLock, CheckIdempotencyKey,
         ValidateVersion, CatchError, DeadlockDetected, Fail
<1>0. TypeOK /\ FreshInv /\ KeyedInv /\ AnswerInv
  OBVIOUS
<1> HIDE DEF IInv, KInv, TypeOK
<1>5. \A d \in Clients \ {c} : Fresh(d)' = Fresh(d) /\ SettledRows(d)' = SettledRows(d)
  <2>1. ASSUME NEW d \in Clients \ {c}
        PROVE  /\ pc'[d] = pc[d] /\ req'[d] = req[d] /\ tx'[d].rows = tx[d].rows
               /\ VisibleRows(d)' = VisibleRows(d)
    <3>1. d \in Clients
      BY <2>1
    <3>2. tx'[d].rows = tx[d].rows
      BY <1>1, <3>1 DEF Quiet
    <3>3. VisibleRows(d)' = VisibleRows(d)
      BY <1>2, <3>1
    <3>4. pc'[d] = pc[d] /\ req'[d] = req[d]
      BY <1>4
    <3>. QED BY <3>2, <3>3, <3>4
  <2>2. ASSUME NEW d \in Clients \ {c} PROVE Fresh(d)' = Fresh(d)
    <3>1. result'[d] = result[d]
      BY <1>4
    <3>. QED BY <2>1, <3>1 DEF Fresh
  <2>3. ASSUME NEW d \in Clients \ {c} PROVE SettledRows(d)' = SettledRows(d)
    BY <1>1, <2>1, <2>2 DEF SettledRows
  <2>. QED BY <2>2, <2>3
<1>6. pc'[c] # "aborted" => SettledRows(c)' = SettledRows(c) /\ pc[c] # "aborted"
  BY <1>2, <1>4 DEF SettledRows
<1>7. FreshInv'
  <2>1. ASSUME NEW d \in Clients, pc'[d] = "recordKey"
        PROVE  /\ d # c /\ pc[d] = "recordKey" /\ Fresh(d)' = Fresh(d)
               /\ result'[d] = result[d] /\ req'[d] = req[d]
    BY <1>4, <1>5, <2>1
  <2>. QED BY <1>0, <1>1, <2>1 DEF FreshInv
<1>8. KeyedInv'
  <2>1. Keyed(rows, keys)'
    BY <1>0, <1>1 DEF KeyedInv, Keyed, KeyedIn
  <2>2. ASSUME NEW d \in Clients, pc'[d] # "aborted" PROVE Keyed(SettledRows(d), VisibleKeys(d))'
    <3>1. /\ pc[d] # "aborted" /\ SettledRows(d)' = SettledRows(d)
          /\ VisibleKeys(d)' = VisibleKeys(d)
      BY <1>2, <1>4, <1>5, <1>6, <2>2
    <3>. QED BY <1>0, <1>1, <3>1 DEF KeyedInv, Keyed, KeyedIn
  <2>. QED BY <2>1, <2>2 DEF KeyedInv
<1>9. pc'[c] \in {"lockStream", "failed"} => result'[c] = NoResult
  BY <1>0 DEF TypeOK, AnswerInv, QuietStep, StartAppend, StartLockStream, Call, AcquireStreamLock, CheckIdempotencyKey,
         ValidateVersion, CatchError, DeadlockDetected, Fail
<1>10. ASSUME pc'[c] = "open", result'[c] # NoResult
       PROVE  TrueAnswer(c)'
  <2>1. CASE AcquireStreamLock(c) \/ CatchError(c)
    BY <1>0, <1>10, <2>1 DEF TypeOK, AcquireStreamLock, CatchError, AnswerInv
  <2>2. CASE CheckIdempotencyKey(c)
    <3>1. PICK k \in VisibleKeys(c) :
            /\ ~Conflicts(k, req[c]) /\ k.key = req[c].key /\ req'[c] = req[c]
            /\ result'[c] = [from |-> k.from, to |-> k.to]
      BY <1>0, <1>10, <2>2 DEF TypeOK, CheckIdempotencyKey, Fail
    <3>2. k.stream = req[c].stream /\ k.body = req[c].body
      BY <3>1 DEF Conflicts, requestHash
    <3>3. pc[c] = "checkKey"
      BY <2>2 DEF CheckIdempotencyKey
    <3>4. Keyed(VisibleRows(c), VisibleKeys(c))
      BY <1>0, <3>3 DEF KeyedInv, SettledRows
    <3>. QED BY <1>2, <3>1, <3>2, <3>4 DEF Keyed, KeyedIn, TrueAnswer
  <2>3. CASE ~(AcquireStreamLock(c) \/ CatchError(c) \/ CheckIdempotencyKey(c))
    BY <1>0, <1>10, <2>3 DEF TypeOK, QuietStep, StartAppend, StartLockStream, Call, ValidateVersion,
                       DeadlockDetected, Fail
  <2>. QED BY <2>1, <2>2, <2>3
<1>11. AnswerInv'
  <2>1. ASSUME NEW d \in Clients \ {c}, TrueAnswer(d) PROVE TrueAnswer(d)'
    BY <1>2, <1>4, <2>1 DEF TrueAnswer
  <2>2. AnswerIsTrue'
    <3>1. ASSUME NEW d \in Clients \ {c}, pc'[d] = "open", result'[d] # NoResult
          PROVE  TrueAnswer(d)'
      <4>1. pc[d] = "open" /\ result[d] # NoResult
        BY <1>4, <3>1
      <4>. QED BY <1>0, <2>1, <4>1 DEF AnswerInv, AnswerIsTrue
    <3>. QED BY <1>10, <3>1 DEF AnswerIsTrue, NoResult
  <2>3. \A d \in Clients : pc'[d] \in {"lockStream", "failed"} => result'[d] = NoResult
    BY <1>0, <1>4, <1>9 DEF AnswerInv
  <2>. QED BY <2>2, <2>3 DEF AnswerInv, NoResult
<1>. QED BY <1>3, <1>7, <1>8, <1>11 DEF KInv

-----------------------------------------------------------------------------
\* A statement that fails leaves everything to the rollback.
LEMMA AbortKInv ==
  ASSUME KInv, NEW c \in Clients, pc'[c] = "aborted",
         \A d \in Clients \ {c} : pc'[d] = pc[d] /\ req'[d] = req[d] /\ result'[d] = result[d],
         UNCHANGED <<tables, tx, lastValue>>
  PROVE  KInv'
<1>1. PositionInv' /\ RecordsApart'
  BY DEF KInv, PositionInv, RecordsApart, tables
<1>2. \A d \in Clients \ {c} : /\ Fresh(d)' = Fresh(d) /\ SettledRows(d)' = SettledRows(d)
                               /\ VisibleRows(d)' = VisibleRows(d)
                               /\ VisibleKeys(d)' = VisibleKeys(d)
  BY DEF Fresh, SettledRows, VisibleRows, VisibleKeys, tables
<1>3. FreshInv' /\ KeyedInv'
  BY <1>2 DEF KInv, FreshInv, KeyedInv, Keyed, KeyedIn, tables
<1>4. AnswerInv'
  <2>1. ASSUME NEW d \in Clients \ {c}, TrueAnswer(d) PROVE TrueAnswer(d)'
    BY <1>2, <2>1 DEF TrueAnswer
  <2>. QED BY <2>1 DEF KInv, AnswerInv, AnswerIsTrue
<1>. QED BY <1>1, <1>3, <1>4 DEF KInv

\* Rows without a key, on versions that are new, belong to no record.
LEMMA KeyedWithUnkeyedRows ==
  ASSUME NEW R, NEW K, NEW N, Keyed(R, K), K \subseteq KeyRecords,
         \A r \in N : r.key \notin Keys,
         \A q \in R, r \in N : q.stream = r.stream => q.version # r.version
  PROVE  Keyed(R \cup N, K)
<1>1. ASSUME NEW x \in K, NEW r \in N, r.stream = x.stream, r.version \in x.from .. x.to
      PROVE  FALSE
  <2>1. PICK q \in R : q.stream = x.stream /\ q.version = r.version
    BY <1>1 DEF Keyed, KeyedIn
  <2>. QED BY <1>1, <2>1
<1>2. \A x \in K : x.key \in Keys
  BY DEF KeyRecords
<1>. QED BY <1>1, <1>2 DEF Keyed, KeyedIn

LEMMA InsertKInv ==
  ASSUME IInv, KInv, NEW c \in Clients, InsertEvents(c)
  PROVE  KInv'
<1> USE AppendStreamAssumption
<1>1. CASE SequenceExhausted(c)
  <2>1. /\ pc[c] = "insert" /\ pc'[c] = "aborted"
        /\ \A d \in Clients \ {c} : pc'[d] = pc[d] /\ req'[d] = req[d] /\ result'[d] = result[d]
        /\ UNCHANGED <<tables, tx, lastValue>>
    BY <1>1 DEF InsertEvents, Fail, IInv, TypeOK
  <2>. QED BY <2>1, AbortKInv
<1>2. CASE ~SequenceExhausted(c)
  <2> DEFINE N == NewRows(c)
             s == req[c].stream
             n == req[c].body.events
  <2>1. /\ pc[c] = "insert"
        /\ lastValue' = lastValue + n
        /\ tx' = [tx EXCEPT ![c].rows = @ \cup N, ![c].outbox = @ \cup OutboxRows(c)]
        /\ result' = [result EXCEPT ![c] = AppendedRange(c)]
        /\ pc' = [pc EXCEPT ![c] = IF req[c].key = NoKey THEN "open" ELSE "recordKey"]
        /\ UNCHANGED <<tables, streamLock, current, req>>
    BY <1>2 DEF InsertEvents
  <2>2. /\ \A r \in N : /\ r.stream = s /\ r.key = req[c].key /\ r.body = req[c].body
                        /\ \E i \in 1..n : r.version = current[c] + i /\ r.pos = lastValue + i
        /\ \A i \in 1..n : \E r \in N : r.version = current[c] + i
        /\ \A q, r \in N : q.version = r.version => q = r
        /\ N \subseteq Rows
    BY <1>2, <2>1, NewRowsFacts
  <2>3. /\ req[c] \in Requests /\ n \in Nat \ {0} /\ lastValue \in Nat /\ current[c] \in Nat
        /\ s \in Streams
    BY <2>1 DEF IInv, TypeOK, CallInv, Appending, Requests, Versions
  <2>4. /\ \A r \in VisibleRows(c) : r.stream = s => r.version <= current[c]
        /\ \A d \in Clients : \A r \in VisibleRows(d) :
             r \in Rows /\ r.pos <= lastValue /\ r.pos \in Nat /\ r.version \in Nat
    <3>1. \A r \in VisibleRows(c) : r.stream = s => r.version <= current[c]
      BY <2>1 DEF IInv, ChainInv, IsStreamVersion
    <3>2. ASSUME NEW d \in Clients, NEW r \in VisibleRows(d)
          PROVE  r \in Rows /\ r.pos <= lastValue
      BY DEF IInv, TypeOK, ChainInv, VisibleRows
    <3>3. \A r \in Rows : r.pos \in Nat /\ r.version \in Nat
      BY DEF Rows, Positions
    <3>. QED BY <3>1, <3>2, <3>3
  <2>5. result'[c].from = current[c] + 1 /\ result'[c].to = current[c] + n
    BY <2>1 DEF AppendedRange, IInv, TypeOK
  <2> HIDE DEF N, s, n
  <2>6. /\ \A d \in Clients \ {c} : tx'[d] = tx[d] /\ pc'[d] = pc[d] /\ result'[d] = result[d]
        /\ tx'[c].rows = tx[c].rows \cup N /\ tx'[c].keys = tx[c].keys
        /\ pc'[c] = IF req[c].key = NoKey THEN "open" ELSE "recordKey"
        /\ req' = req /\ rows' = rows /\ keys' = keys /\ expired' = expired
    BY <2>1 DEF IInv, TypeOK, tables
  <2>7. /\ \A d \in Clients \ {c} : /\ VisibleRows(d)' = VisibleRows(d)
                                    /\ VisibleKeys(d)' = VisibleKeys(d)
                                    /\ Fresh(d)' = Fresh(d) /\ SettledRows(d)' = SettledRows(d)
        /\ VisibleRows(c)' = VisibleRows(c) \cup N /\ VisibleKeys(c)' = VisibleKeys(c)
    BY <2>6 DEF VisibleRows, VisibleKeys, Fresh, SettledRows
  <2>8. ASSUME NEW r \in N
        PROVE  /\ r.version \in current[c] + 1 .. current[c] + n /\ r.version > current[c]
               /\ r.pos > lastValue /\ r.pos <= lastValue + n
    BY <2>2, <2>3
  <2>9. PositionInv'
    <3>1. ASSUME NEW q \in N, NEW r \in N, q.pos = r.pos PROVE q = r
      BY <2>2, <2>3, <3>1
    <3>2. \A d \in Clients : \A q \in VisibleRows(d), r \in N : q.pos # r.pos
      BY <2>3, <2>4, <2>8
    <3>3. \A p \in expired : p <= lastValue'
      BY <2>1, <2>3 DEF KInv, PositionInv, IInv, TypeOK, Positions
    <3>. QED BY <2>6, <3>1, <3>2, <3>3 DEF KInv, PositionInv, VisibleRows
  <2>10. RecordsApart'
    BY <2>6 DEF KInv, RecordsApart
  <2>11. Fresh(c)' = N
    <3>1. ASSUME NEW r \in tx[c].rows, r.stream = s
          PROVE  r.version \notin current[c] + 1 .. current[c] + n
      BY <2>3, <2>4, <3>1 DEF VisibleRows
    <3>. QED BY <2>2, <2>5, <2>6, <2>8, <3>1 DEF Fresh, s
  <2>12. \A r \in N : r.pos \notin expired
    <3>1. \A p \in expired : p \in Nat /\ p <= lastValue
      BY DEF KInv, PositionInv, IInv, TypeOK, Positions
    <3>2. \A r \in N : r.pos \in Nat
      BY <2>2 DEF Rows, Positions
    <3>. QED BY <2>3, <2>8, <3>1, <3>2
  <2>13. result'[c].to - result'[c].from + 1 = n
    BY <2>3, <2>5
  <2>14. \A v \in result'[c].from .. result'[c].to : \E r \in N : r.version = v
    <3>1. ASSUME NEW v \in current[c] + 1 .. current[c] + n PROVE \E r \in N : r.version = v
      <4>1. v - current[c] \in 1..n /\ current[c] + (v - current[c]) = v
        BY <2>3
      <4>. QED BY <2>2, <4>1
    <3>. QED BY <2>5, <3>1
  <2>15. FreshInv'
    BY <2>2, <2>6, <2>7, <2>11, <2>12, <2>13, <2>14 DEF KInv, FreshInv, n
  <2>16. KeyedInv'
    <3>1. Keyed(VisibleRows(c), VisibleKeys(c)) /\ VisibleKeys(c) \subseteq KeyRecords
      BY <2>1 DEF KInv, KeyedInv, SettledRows, VisibleKeys, IInv, TypeOK
    <3>2. CASE req[c].key = NoKey
      <4>1. Keyed(VisibleRows(c) \cup N, VisibleKeys(c))
        <5>1. \A q \in VisibleRows(c), r \in N : q.stream = r.stream => q.version # r.version
          BY <2>2, <2>3, <2>4, <2>8
        <5>. QED BY <2>2, <3>1, <3>2, <5>1, KeyedWithUnkeyedRows
      <4>2. SettledRows(c)' = VisibleRows(c) \cup N
        BY <2>6, <2>7, <3>2 DEF SettledRows
      <4>. QED BY <2>6, <2>7, <4>1, <4>2 DEF KInv, KeyedInv, Keyed, KeyedIn
    <3>3. CASE req[c].key # NoKey
      <4>1. \A r \in N : r \notin tx[c].rows
        BY <2>3, <2>4, <2>8 DEF VisibleRows
      <4>2. SettledRows(c)' = VisibleRows(c)
        BY <2>6, <2>11, <3>3, <4>1 DEF SettledRows, VisibleRows
      <4>. QED BY <2>6, <2>7, <3>1, <4>2 DEF KInv, KeyedInv, Keyed, KeyedIn
    <3>. QED BY <3>2, <3>3
  <2>17. AnswerInv'
    <3>1. TrueAnswer(c)'
      BY <2>2, <2>6, <2>7, <2>13, <2>14 DEF TrueAnswer, n, s
    <3>2. ASSUME NEW d \in Clients \ {c}, TrueAnswer(d) PROVE TrueAnswer(d)'
      BY <2>6, <2>7, <3>2 DEF TrueAnswer
    <3>. QED BY <2>6, <3>1, <3>2 DEF KInv, AnswerInv, AnswerIsTrue
  <2>. QED BY <2>9, <2>10, <2>15, <2>16, <2>17 DEF KInv
<1>. QED BY <1>1, <1>2

-----------------------------------------------------------------------------
\* A new record, of a key without one, that names exactly the rows F.
LEMMA KeyedWithRecord ==
  ASSUME NEW R, NEW K, NEW F, NEW k, Keyed(R, K), Chained(R \cup F),
         k.key \in Keys,
         \A x \in K : x.key # k.key,
         k.to - k.from + 1 = k.body.events,
         \A v \in k.from .. k.to : \E r \in F : r.version = v,
         \A r \in F : /\ r.stream = k.stream /\ r.version \in k.from .. k.to
                      /\ r.key = k.key /\ r.body = k.body /\ r.pos \notin expired
  PROVE  Keyed(R \cup F, K \cup {k})
<1> DEFINE V == R \cup F
<1>1. \A q, r \in V : q.stream = r.stream /\ q.version = r.version => q = r
  BY DEF Chained
<1>2. \A r \in R : ~(r.key = k.key /\ r.pos \notin expired)
  BY DEF Keyed, KeyedIn
<1>3. \A r \in F : r \notin R
  BY <1>2
<1>4. ASSUME NEW x \in K, NEW r \in F PROVE ~(r.stream = x.stream /\ r.version \in x.from .. x.to)
  <2>1. SUFFICES ASSUME r.stream = x.stream, r.version \in x.from .. x.to PROVE FALSE
    OBVIOUS
  <2>2. PICK q \in R : q.stream = x.stream /\ q.version = r.version
    BY <2>1 DEF Keyed, KeyedIn
  <2>. QED BY <1>1, <1>3, <2>1, <2>2
<1>5. ASSUME NEW r \in R PROVE ~(r.stream = k.stream /\ r.version \in k.from .. k.to)
  <2>1. SUFFICES ASSUME r.stream = k.stream, r.version \in k.from .. k.to PROVE FALSE
    OBVIOUS
  <2>2. PICK f \in F : f.version = r.version
    BY <2>1
  <2>. QED BY <1>1, <1>3, <2>1, <2>2
<1>6. \A x, y \in K \cup {k} : x.key = y.key => x = y
  BY DEF Keyed, KeyedIn
<1>7. \A r \in V : (r.key \in Keys /\ r.pos \notin expired) => \E x \in K \cup {k} : x.key = r.key
  BY DEF Keyed, KeyedIn
<1>8. ASSUME NEW x \in K \cup {k}, NEW r \in V
      PROVE  (r.key = x.key /\ r.pos \notin expired) <=>
             (r.stream = x.stream /\ r.version \in x.from .. x.to)
  <2>1. CASE x \in K /\ r \in R
    BY <2>1 DEF Keyed, KeyedIn
  <2>2. CASE x \in K /\ r \in F
    BY <1>4, <2>2
  <2>3. CASE x = k /\ r \in R
    BY <1>2, <1>5, <2>3
  <2>4. CASE x = k /\ r \in F
    BY <2>4
  <2>. QED BY <2>1, <2>2, <2>3, <2>4
<1>9. ASSUME NEW x \in K \cup {k}
      PROVE  /\ x.to - x.from + 1 = x.body.events
             /\ \A v \in x.from .. x.to : \E r \in V :
                  r.stream = x.stream /\ r.version = v /\ r.key = x.key /\ r.body = x.body
  BY DEF Keyed, KeyedIn
<1>. QED BY <1>6, <1>7, <1>8, <1>9 DEF Keyed, KeyedIn

LEMMA RecordKInv ==
  ASSUME IInv, KInv, NEW c \in Clients, RecordIdempotencyKey(c)
  PROVE  KInv'
<1> USE DEF IInv, TypeOK
<1>1. /\ pc[c] = "recordKey" /\ KeyHolders(c) = {}
      /\ UNCHANGED <<tables, lastValue, streamLock, current>>
  BY DEF RecordIdempotencyKey
<1>2. CASE \E k \in VisibleKeys(c) : k.key = req[c].key
  <2>1. /\ pc'[c] = "aborted" /\ tx' = tx
        /\ \A d \in Clients \ {c} : pc'[d] = pc[d] /\ req'[d] = req[d] /\ result'[d] = result[d]
    BY <1>2 DEF RecordIdempotencyKey, Fail
  <2>. QED BY <1>1, <2>1, AbortKInv
<1>3. CASE ~ \E k \in VisibleKeys(c) : k.key = req[c].key
  <2> DEFINE k == NewKey(c)
  <2>1. /\ pc' = [pc EXCEPT ![c] = "open"] /\ req' = req /\ result' = result
        /\ tx' = [tx EXCEPT ![c].keys = @ \cup {k}]
    BY <1>3 DEF RecordIdempotencyKey
  <2>2. /\ \A d \in Clients \ {c} : tx'[d] = tx[d] /\ pc'[d] = pc[d]
        /\ tx'[c].rows = tx[c].rows /\ tx'[c].keys = tx[c].keys \cup {k} /\ pc'[c] = "open"
        /\ rows' = rows /\ keys' = keys /\ expired' = expired /\ lastValue' = lastValue
    BY <1>1, <2>1 DEF tables
  <2>3. /\ k.key = req[c].key /\ k.stream = req[c].stream /\ k.body = req[c].body
        /\ k.from = result[c].from /\ k.to = result[c].to
    BY DEF NewKey
  <2> HIDE DEF k
  <2>4. PositionInv'
    BY <2>2 DEF KInv, PositionInv
  <2>5. RecordsApart'
    <3>1. \A y \in keys : y.key # k.key
      BY <1>3, <2>3 DEF VisibleKeys
    <3>2. \A d \in Clients \ {c} : \A y \in tx[d].keys : y.key # k.key
      BY <1>1, <2>3 DEF KeyHolders
    <3>3. ASSUME NEW d \in Clients, NEW x \in tx'[d].keys, NEW y \in keys PROVE x.key # y.key
      BY <2>2, <3>1 DEF KInv, RecordsApart
    <3>4. ASSUME NEW d \in Clients, NEW e \in Clients, d # e,
                 NEW x \in tx'[d].keys, NEW y \in tx'[e].keys
          PROVE  x.key # y.key
      <4>1. CASE x \in tx[d].keys /\ y \in tx[e].keys
        BY <3>4, <4>1 DEF KInv, RecordsApart
      <4>2. CASE d = c /\ x = k
        BY <2>2, <3>2, <3>4, <4>2
      <4>3. CASE e = c /\ y = k
        BY <2>2, <3>2, <3>4, <4>3
      <4>. QED BY <2>2, <3>4, <4>1, <4>2, <4>3
    <3>. QED BY <2>2, <3>3, <3>4 DEF RecordsApart
  <2>6. \A d \in Clients \ {c} : /\ Fresh(d)' = Fresh(d) /\ SettledRows(d)' = SettledRows(d)
                                 /\ VisibleRows(d)' = VisibleRows(d)
                                 /\ VisibleKeys(d)' = VisibleKeys(d)
    BY <2>1, <2>2 DEF Fresh, SettledRows, VisibleRows, VisibleKeys
  <2>7. FreshInv'
    BY <2>1, <2>2, <2>6 DEF KInv, FreshInv
  <2>8. Keyed(SettledRows(c) \cup Fresh(c), VisibleKeys(c) \cup {k})
    <3>1. Keyed(SettledRows(c), VisibleKeys(c))
      BY <1>1 DEF KInv, KeyedInv
    <3>2. SettledRows(c) \cup Fresh(c) = VisibleRows(c)
      BY <1>1 DEF SettledRows, Fresh, VisibleRows
    <3>3. Chained(SettledRows(c) \cup Fresh(c))
      BY <3>2 DEF ChainInv
    <3>4. k.key \in Keys /\ \A x \in VisibleKeys(c) : x.key # k.key
      BY <1>1, <1>3, <2>3 DEF CallInv
    <3>5. /\ k.to - k.from + 1 = k.body.events
          /\ \A v \in k.from .. k.to : \E r \in Fresh(c) : r.version = v
          /\ \A r \in Fresh(c) : /\ r.stream = k.stream /\ r.version \in k.from .. k.to
                                 /\ r.key = k.key /\ r.body = k.body /\ r.pos \notin expired
      BY <1>1, <2>3 DEF KInv, FreshInv, Fresh
    <3>. QED BY <3>1, <3>3, <3>4, <3>5, KeyedWithRecord
  <2>9. /\ SettledRows(c)' = SettledRows(c) \cup Fresh(c)
        /\ VisibleRows(c)' = VisibleRows(c)
        /\ VisibleKeys(c)' = VisibleKeys(c) \cup {k}
    BY <1>1, <2>2 DEF SettledRows, Fresh, VisibleRows, VisibleKeys
  <2>10. KeyedInv'
    BY <2>2, <2>6, <2>8, <2>9 DEF KInv, KeyedInv, Keyed, KeyedIn
  <2>11. TrueAnswer(c)'
    <3>1. Fresh(c) \subseteq VisibleRows(c)
      BY DEF Fresh, VisibleRows
    <3>. QED BY <1>1, <2>1, <2>9, <3>1 DEF KInv, FreshInv, Fresh, TrueAnswer
  <2>12. AnswerInv'
    <3>1. ASSUME NEW d \in Clients \ {c}, TrueAnswer(d) PROVE TrueAnswer(d)'
      BY <2>1, <2>6, <3>1 DEF TrueAnswer
    <3>. QED BY <2>1, <2>2, <2>11, <3>1 DEF KInv, AnswerInv, AnswerIsTrue
  <2>. QED BY <2>4, <2>5, <2>7, <2>10, <2>12 DEF KInv
<1>. QED BY <1>2, <1>3

-----------------------------------------------------------------------------
\* Two transactions over the same committed rows R and records K, on different
\* streams and with different keys: what holds for each holds for both.
LEMMA MergedKeyed ==
  ASSUME NEW R, NEW A, NEW B, NEW K, NEW J, NEW L,
         Keyed(R \cup A, K \cup J), Keyed(R \cup B, K \cup L),
         \A q, r \in R \cup A : (q.stream = r.stream /\ q.version = r.version) => q = r,
         \A q, r \in R \cup B : (q.stream = r.stream /\ q.version = r.version) => q = r,
         \A q \in A, r \in B : q.stream # r.stream,
         \A x \in K \cup J \cup L : x.key \in Keys,
         \A x \in J \cup L, y \in K : x.key # y.key,
         \A x \in J, y \in L : x.key # y.key
  PROVE  Keyed(R \cup A \cup B, K \cup J \cup L)
<1>1. \A x, y \in K \cup J \cup L : x.key = y.key => x = y
  BY DEF Keyed, KeyedIn
<1>2. \A r \in R \cup A \cup B :
        (r.key \in Keys /\ r.pos \notin expired) => \E x \in K \cup J \cup L : x.key = r.key
  BY DEF Keyed, KeyedIn
<1>3. \A x \in K \cup J \cup L :
        /\ x.to - x.from + 1 = x.body.events
        /\ \A v \in x.from .. x.to : \E r \in R \cup A \cup B :
             r.stream = x.stream /\ r.version = v /\ r.key = x.key /\ r.body = x.body
  BY DEF Keyed, KeyedIn
<1>4. ASSUME NEW x \in J, NEW r \in B, r \notin R
      PROVE  /\ ~(r.key = x.key /\ r.pos \notin expired)
             /\ ~(r.stream = x.stream /\ r.version \in x.from .. x.to)
  <2>1. ~(r.key = x.key /\ r.pos \notin expired)
    BY DEF Keyed, KeyedIn
  <2>2. ASSUME r.stream = x.stream, r.version \in x.from .. x.to PROVE FALSE
    <3>1. PICK q \in R \cup A : q.stream = x.stream /\ q.version = r.version
      BY <2>2 DEF Keyed, KeyedIn
    <3>. QED BY <1>4, <2>2, <3>1
  <2>. QED BY <2>1, <2>2
<1>5. ASSUME NEW x \in L, NEW r \in A, r \notin R
      PROVE  /\ ~(r.key = x.key /\ r.pos \notin expired)
             /\ ~(r.stream = x.stream /\ r.version \in x.from .. x.to)
  <2>1. ~(r.key = x.key /\ r.pos \notin expired)
    BY DEF Keyed, KeyedIn
  <2>2. ASSUME r.stream = x.stream, r.version \in x.from .. x.to PROVE FALSE
    <3>1. PICK q \in R \cup B : q.stream = x.stream /\ q.version = r.version
      BY <2>2 DEF Keyed, KeyedIn
    <3>. QED BY <1>5, <2>2, <3>1
  <2>. QED BY <2>1, <2>2
<1>6. ASSUME NEW x \in K \cup J \cup L, NEW r \in R \cup A \cup B
      PROVE  (r.key = x.key /\ r.pos \notin expired) <=>
             (r.stream = x.stream /\ r.version \in x.from .. x.to)
  <2>1. CASE x \in K \cup J /\ r \in R \cup A
    BY <2>1 DEF Keyed, KeyedIn
  <2>2. CASE x \in K \cup L /\ r \in R \cup B
    BY <2>2 DEF Keyed, KeyedIn
  <2>3. CASE x \in J /\ r \in B /\ r \notin R
    BY <1>4, <2>3
  <2>4. CASE x \in L /\ r \in A /\ r \notin R
    BY <1>5, <2>4
  <2>. QED BY <2>1, <2>2, <2>3, <2>4
<1>. QED BY <1>1, <1>2, <1>3, <1>6 DEF Keyed, KeyedIn

LEMMA CommitKInv ==
  ASSUME IInv, KInv, NEW c \in Clients, Commit(c)
  PROVE  KInv'
<1>1. /\ pc[c] = "open" /\ EndTx(c)
      /\ rows' = rows \cup tx[c].rows /\ keys' = keys \cup tx[c].keys
      /\ UNCHANGED <<expired, lastValue>>
  BY DEF Commit
<1>2. /\ tx'[c].rows = {} /\ tx'[c].keys = {} /\ pc'[c] = "idle"
      /\ \A d \in Clients \ {c} : /\ tx'[d] = tx[d] /\ pc'[d] = pc[d] /\ req'[d] = req[d]
                                  /\ result'[d] = result[d]
  BY <1>1, EndTxFacts
<1>3. PositionInv'
  BY <1>1, <1>2 DEF KInv, PositionInv
<1>4. RecordsApart'
  BY <1>1, <1>2 DEF KInv, RecordsApart
<1>5. FreshInv'
  BY <1>1, <1>2 DEF KInv, FreshInv, Fresh
<1>6. Keyed(VisibleRows(c), VisibleKeys(c))
  BY <1>1 DEF KInv, KeyedInv, SettledRows
<1>7. ASSUME NEW d \in Clients \ {c}, pc[d] # "aborted"
      PROVE  Keyed(VisibleRows(c) \cup SettledRows(d), VisibleKeys(c) \cup VisibleKeys(d))
  <2> DEFINE B == IF pc[d] = "recordKey" THEN tx[d].rows \ Fresh(d) ELSE tx[d].rows
  <2>1. SettledRows(d) = rows \cup B /\ Keyed(rows \cup B, keys \cup tx[d].keys)
    BY <1>7 DEF KInv, KeyedInv, SettledRows, VisibleRows, VisibleKeys
  <2>2. B \subseteq tx[d].rows
    OBVIOUS
  <2> HIDE DEF B
  <2>3. /\ Keyed(rows \cup tx[c].rows, keys \cup tx[c].keys)
        /\ \A q, r \in rows \cup tx[c].rows :
             (q.stream = r.stream /\ q.version = r.version) => q = r
    BY <1>6 DEF IInv, ChainInv, Chained, VisibleRows, VisibleKeys
  <2>4. \A q, r \in rows \cup B : (q.stream = r.stream /\ q.version = r.version) => q = r
    <3>1. rows \cup B \subseteq VisibleRows(d)
      BY <2>2 DEF VisibleRows
    <3>2. Chained(VisibleRows(d))
      BY DEF IInv, ChainInv
    <3>. QED BY <3>1, <3>2 DEF Chained
  <2>5. \A q \in tx[c].rows, r \in B : q.stream # r.stream
    BY <2>2, StreamsApart
  <2>6. \A x \in keys \cup tx[c].keys \cup tx[d].keys : x.key \in Keys
    BY DEF IInv, TypeOK, KeyRecords
  <2>7. /\ \A x \in tx[c].keys \cup tx[d].keys, y \in keys : x.key # y.key
        /\ \A x \in tx[c].keys, y \in tx[d].keys : x.key # y.key
    BY DEF KInv, RecordsApart
  <2>8. Keyed(rows \cup tx[c].rows \cup B, keys \cup tx[c].keys \cup tx[d].keys)
    BY <2>1, <2>3, <2>4, <2>5, <2>6, <2>7, MergedKeyed
  <2>9. /\ rows \cup tx[c].rows \cup B = VisibleRows(c) \cup SettledRows(d)
        /\ keys \cup tx[c].keys \cup tx[d].keys = VisibleKeys(c) \cup VisibleKeys(d)
    BY <2>1 DEF VisibleRows, VisibleKeys
  <2>. QED BY <2>8, <2>9
<1>8. /\ rows' = VisibleRows(c) /\ keys' = VisibleKeys(c)
      /\ SettledRows(c)' = VisibleRows(c) /\ VisibleKeys(c)' = VisibleKeys(c)
      /\ \A d \in Clients \ {c} :
           /\ SettledRows(d)' = VisibleRows(c) \cup SettledRows(d)
           /\ VisibleRows(d)' = VisibleRows(c) \cup VisibleRows(d)
           /\ VisibleKeys(d)' = VisibleKeys(c) \cup VisibleKeys(d)
  BY <1>1, <1>2 DEF SettledRows, Fresh, VisibleRows, VisibleKeys
<1>9. KeyedInv'
  <2>1. \A d \in Clients : pc'[d] # "aborted" => Keyed(SettledRows(d)', VisibleKeys(d)')
    BY <1>2, <1>6, <1>7, <1>8
  <2>. QED BY <1>1, <1>6, <1>8, <2>1 DEF KeyedInv, Keyed, KeyedIn
<1>10. AnswerInv'
  <2>1. ASSUME NEW d \in Clients \ {c}, TrueAnswer(d) PROVE TrueAnswer(d)'
    BY <1>2, <1>8, <2>1 DEF TrueAnswer
  <2>. QED BY <1>2, <2>1 DEF KInv, AnswerInv, AnswerIsTrue
<1>. QED BY <1>3, <1>4, <1>5, <1>9, <1>10 DEF KInv

LEMMA RollbackKInv ==
  ASSUME IInv, KInv, NEW c \in Clients, Rollback(c)
  PROVE  KInv'
<1>1. EndTx(c) /\ rows' = rows /\ keys' = keys /\ expired' = expired /\ lastValue' = lastValue
  BY DEF Rollback, tables
<1>2. /\ tx'[c].rows = {} /\ tx'[c].keys = {} /\ pc'[c] = "idle"
      /\ \A d \in Clients \ {c} : /\ tx'[d] = tx[d] /\ pc'[d] = pc[d] /\ req'[d] = req[d]
                                  /\ result'[d] = result[d]
  BY <1>1, EndTxFacts
<1>3. PositionInv' /\ RecordsApart'
  BY <1>1, <1>2 DEF KInv, PositionInv, RecordsApart
<1>4. /\ SettledRows(c)' = rows /\ VisibleKeys(c)' = keys
      /\ \A d \in Clients \ {c} : /\ Fresh(d)' = Fresh(d) /\ SettledRows(d)' = SettledRows(d)
                                  /\ VisibleRows(d)' = VisibleRows(d)
                                  /\ VisibleKeys(d)' = VisibleKeys(d)
  BY <1>1, <1>2 DEF SettledRows, Fresh, VisibleRows, VisibleKeys
<1>5. FreshInv' /\ KeyedInv'
  BY <1>1, <1>2, <1>4 DEF KInv, FreshInv, KeyedInv, Keyed, KeyedIn
<1>6. AnswerInv'
  <2>1. ASSUME NEW d \in Clients \ {c}, TrueAnswer(d) PROVE TrueAnswer(d)'
    BY <1>2, <1>4, <2>1 DEF TrueAnswer
  <2>. QED BY <1>2, <2>1 DEF KInv, AnswerInv, AnswerIsTrue
<1>. QED BY <1>3, <1>5, <1>6 DEF KInv

\* A record is deleted only when it is committed; the rows it names are committed
\* too, and all of them expire with it.
LEMMA CleanupKInv ==
  ASSUME IInv, KInv, CleanupIdempotencyKeys
  PROVE  KInv'
<1>1. PICK k \in keys :
        /\ keys' = keys \ {k}
        /\ expired' = expired \cup {r.pos : r \in {x \in rows : x.key = k.key}}
        /\ UNCHANGED <<rows, outbox, lastValue, streamLock, tx, pc, req, current, result>>
  BY DEF CleanupIdempotencyKeys
<1>2. \A p \in expired' : p \in expired \/ \E q \in rows : q.key = k.key /\ q.pos = p
  BY <1>1
<1>3. \A q \in rows : q.key = k.key => q.pos \in expired'
  BY <1>1
<1>4. PositionInv'
  BY <1>1, <1>2 DEF KInv, PositionInv, IInv, ChainInv
<1>5. RecordsApart'
  BY <1>1 DEF KInv, RecordsApart
<1>6. \A d \in Clients : /\ Fresh(d)' = Fresh(d) /\ SettledRows(d)' = SettledRows(d)
                         /\ VisibleRows(d)' = VisibleRows(d)
                         /\ VisibleKeys(d)' = (keys \ {k}) \cup tx[d].keys
  BY <1>1 DEF Fresh, SettledRows, VisibleRows, VisibleKeys
<1>7. FreshInv'
  <2>1. ASSUME NEW d \in Clients, NEW r \in Fresh(d), r.pos \notin expired PROVE r.pos \notin expired'
    BY <1>2, <2>1 DEF KInv, PositionInv, Fresh
  <2>. QED BY <1>1, <1>6, <2>1 DEF KInv, FreshInv
<1>8. ASSUME NEW B, NEW J, Keyed(rows \cup B, keys \cup J),
             \A x \in J : x.key # k.key,
             \A q, r \in rows \cup B : (q.stream = r.stream /\ q.version = r.version) => q = r,
             \A q, r \in rows \cup B : q.pos = r.pos => q = r
      PROVE  KeyedIn(rows \cup B, (keys \ {k}) \cup J, expired')
  <2> DEFINE V == rows \cup B
             K == (keys \ {k}) \cup J
  <2>1. \A x \in K : x \in keys \cup J /\ x.key # k.key
    BY <1>8 DEF Keyed, KeyedIn
  <2>2. ASSUME NEW r \in V, r.key = k.key PROVE r.pos \in expired'
    <3>1. SUFFICES ASSUME r.pos \notin expired PROVE r \in rows
      BY <1>1, <1>3, <2>2
    <3>2. r.stream = k.stream /\ r.version \in k.from .. k.to
      BY <1>8, <2>2, <3>1 DEF Keyed, KeyedIn
    <3>3. PICK q \in rows : q.stream = k.stream /\ q.version = r.version
      BY <3>2 DEF KInv, KeyedInv, Keyed, KeyedIn
    <3>. QED BY <1>8, <3>2, <3>3
  <2>3. ASSUME NEW r \in V, r.key # k.key, r.pos \in expired' PROVE r.pos \in expired
    BY <1>2, <1>8, <2>3
  <2>4. expired \subseteq expired'
    BY <1>1
  <2>5. \A x, y \in K : x.key = y.key => x = y
    BY <1>8 DEF Keyed, KeyedIn
  <2>6. \A r \in V : (r.key \in Keys /\ r.pos \notin expired') => \E x \in K : x.key = r.key
    BY <1>8, <2>2, <2>4 DEF Keyed, KeyedIn
  <2>7. \A x \in K : \A r \in V : (r.key = x.key /\ r.pos \notin expired') <=>
                                  (r.stream = x.stream /\ r.version \in x.from .. x.to)
    BY <1>8, <2>1, <2>3, <2>4 DEF Keyed, KeyedIn
  <2>8. \A x \in K : /\ x.to - x.from + 1 = x.body.events
                     /\ \A v \in x.from .. x.to : \E r \in V :
                          r.stream = x.stream /\ r.version = v /\ r.key = x.key /\ r.body = x.body
    BY <1>8, <2>1 DEF Keyed, KeyedIn
  <2>. QED BY <2>5, <2>6, <2>7, <2>8 DEF Keyed, KeyedIn
<1>9. Keyed(rows, keys)'
  <2>1. Keyed(rows \cup {}, keys \cup {}) /\ rows \cup {} = rows /\ keys \cup {} = keys
    BY DEF KInv, KeyedInv
  <2>2. /\ \A q, r \in rows : (q.stream = r.stream /\ q.version = r.version) => q = r
        /\ \A q, r \in rows : q.pos = r.pos => q = r
    BY DEF IInv, ChainInv, Chained, KInv, PositionInv
  <2>3. KeyedIn(rows \cup {}, (keys \ {k}) \cup {}, expired')
    BY <1>8, <2>1, <2>2
  <2>. QED BY <1>1, <2>3 DEF Keyed, KeyedIn
<1>10. ASSUME NEW d \in Clients, pc[d] # "aborted"
       PROVE  Keyed(SettledRows(d), VisibleKeys(d))'
  <2> DEFINE B == IF pc[d] = "recordKey" THEN tx[d].rows \ Fresh(d) ELSE tx[d].rows
  <2>1. SettledRows(d) = rows \cup B /\ Keyed(rows \cup B, keys \cup tx[d].keys)
    BY <1>10 DEF KInv, KeyedInv, SettledRows, VisibleRows, VisibleKeys
  <2>2. B \subseteq tx[d].rows /\ SettledRows(d)' = rows \cup B
    BY <1>6, <2>1
  <2> HIDE DEF B
  <2>3. \A x \in tx[d].keys : x.key # k.key
    BY DEF KInv, RecordsApart
  <2>4. \A q, r \in rows \cup B : (q.stream = r.stream /\ q.version = r.version) => q = r
    <3>1. rows \cup B \subseteq VisibleRows(d)
      BY <2>2 DEF VisibleRows
    <3>2. Chained(VisibleRows(d))
      BY DEF IInv, ChainInv
    <3>. QED BY <3>1, <3>2 DEF Chained
  <2>5. \A q, r \in rows \cup B : q.pos = r.pos => q = r
    BY <2>2 DEF KInv, PositionInv
  <2>6. KeyedIn(rows \cup B, (keys \ {k}) \cup tx[d].keys, expired')
    BY <1>8, <2>1, <2>3, <2>4, <2>5
  <2>. QED BY <1>1, <1>6, <2>1, <2>2, <2>6 DEF Keyed, KeyedIn
<1>11. KeyedInv'
  BY <1>1, <1>9, <1>10 DEF KeyedInv
<1>12. AnswerInv'
  BY <1>1, <1>6 DEF KInv, AnswerInv, AnswerIsTrue, TrueAnswer
<1>. QED BY <1>4, <1>5, <1>7, <1>11, <1>12 DEF KInv

LEMMA StepKInv == IInv /\ KInv /\ [Next]_vars => KInv'
<1> SUFFICES ASSUME IInv, KInv, [Next]_vars PROVE KInv'
  OBVIOUS
<1>1. ASSUME NEW c \in Clients, QuietStep(c) PROVE KInv'
  BY <1>1, QuietKInv
<1>2. ASSUME NEW c \in Clients, InsertEvents(c) \/ RecordIdempotencyKey(c) PROVE KInv'
  BY <1>2, InsertKInv, RecordKInv
<1>3. ASSUME NEW c \in Clients, Commit(c) \/ Rollback(c) PROVE KInv'
  BY <1>3, CommitKInv, RollbackKInv
<1>4. CASE CleanupIdempotencyKeys
  BY <1>4, CleanupKInv
<1>5. CASE UNCHANGED vars
  BY <1>5 DEF KInv, PositionInv, RecordsApart, FreshInv, KeyedInv, Keyed, KeyedIn, AnswerInv,
              AnswerIsTrue, TrueAnswer, Fresh, SettledRows, VisibleRows, VisibleKeys, vars, tables
<1>. QED BY <1>1, <1>2, <1>3, <1>4, <1>5 DEF Next, AppendStep, QuietStep

THEOREM KInvariance == Spec => []KInv
BY InitIInv, StepIInv, InitKInv, StepKInv, PTL DEF Spec

-----------------------------------------------------------------------------
\* An idempotency key appends once, on whatever streams and by whatever clients it
\* is used at once: the rows that carry it are exactly those its record names.
THEOREM OncePerKey == Spec => []AppendedOncePerKey
<1>1. KInv => AppendedOncePerKey
  <2> SUFFICES ASSUME Keyed(rows, keys), NEW k \in Keys
               PROVE  LET live == {r \in rows : r.key = k /\ r.pos \notin expired}
                          recs == {x \in keys : x.key = k}
                      IN  IF recs = {}
                          THEN live = {}
                          ELSE \E rec \in recs :
                                 /\ recs = {rec}
                                 /\ live = {r \in rows : /\ r.stream = rec.stream
                                                         /\ r.version \in rec.from .. rec.to}
                                 /\ rec.to - rec.from + 1 = rec.body.events
    BY DEF KInv, KeyedInv, AppendedOncePerKey
  <2>1. CASE \A x \in keys : x.key # k
    BY <2>1 DEF Keyed, KeyedIn
  <2>2. CASE \E x \in keys : x.key = k
    <3>1. PICK rec \in keys : rec.key = k
      BY <2>2
    <3>2. {x \in keys : x.key = k} = {rec}
      BY <3>1 DEF Keyed, KeyedIn
    <3>3. {r \in rows : r.key = k /\ r.pos \notin expired}
            = {r \in rows : r.stream = rec.stream /\ r.version \in rec.from .. rec.to}
      BY <3>1 DEF Keyed, KeyedIn
    <3>4. rec.to - rec.from + 1 = rec.body.events
      BY <3>1 DEF Keyed, KeyedIn
    <3>. QED BY <3>2, <3>3, <3>4
  <2>. QED BY <2>1, <2>2
<1>. QED BY <1>1, KInvariance, PTL

\* What append answers, for the first time or as a duplicate, is there to read.
THEOREM TruthfulAnswers == Spec => []AnswerIsTrue
<1>1. KInv => AnswerIsTrue
  BY DEF KInv, AnswerInv
<1>. QED BY <1>1, KInvariance, PTL

-----------------------------------------------------------------------------
(***************************************************************************)
(* Transactions implement atomic appends (EventLog).  Only a commit and a  *)
(* cleanup change anything that others see.  What a commit adds follows    *)
(* what is committed at that moment and not only what was when it was      *)
(* inserted: nobody else can have put events on its streams since.         *)
(***************************************************************************)

\* Only a commit and a cleanup change the tables.
LEMMA TablesChange ==
  ASSUME [Next]_vars
  PROVE  UNCHANGED tables \/ CleanupIdempotencyKeys \/ \E c \in Clients : Commit(c)
BY DEF Next, AppendStep, vars, StartAppend, StartLockStream, Call, AcquireStreamLock,
       CheckIdempotencyKey, ValidateVersion, InsertEvents, RecordIdempotencyKey, Rollback,
       CatchError, DeadlockDetected

\* Only the record of a committed event is ever cleaned up.
ExpiredInv == \A p \in expired : \E r \in rows : r.pos = p

LEMMA ExpiredInvariance == Spec => []ExpiredInv
<1>1. Init => ExpiredInv
  BY DEF Init, ExpiredInv
<1>2. ExpiredInv /\ [Next]_vars => ExpiredInv'
  <2> SUFFICES ASSUME ExpiredInv, [Next]_vars PROVE ExpiredInv'
    OBVIOUS
  <2>1. CASE CleanupIdempotencyKeys
    BY <2>1 DEF CleanupIdempotencyKeys, ExpiredInv
  <2>2. ASSUME NEW c \in Clients, Commit(c) PROVE ExpiredInv'
    BY <2>2 DEF Commit, ExpiredInv
  <2>3. CASE UNCHANGED tables
    BY <2>3 DEF ExpiredInv, tables
  <2>. QED BY <2>1, <2>2, <2>3, TablesChange
<1>. QED BY <1>1, <1>2, PTL DEF Spec

\* What a commit adds to the tables is what its transaction has written.
LEMMA CommitAdds ==
  ASSUME IInv, KInv, NEW c \in Clients, Commit(c)
  PROVE  /\ rows' = VisibleRows(c) /\ keys' = VisibleKeys(c)
         /\ EL!Added = tx[c].rows /\ EL!Named = tx[c].keys
         /\ \A q \in rows : \A r \in tx[c].rows : q.pos # r.pos /\ q # r
<1>1. rows' = rows \cup tx[c].rows /\ keys' = keys \cup tx[c].keys
  BY DEF Commit
<1>2. \A q \in rows : \A r \in tx[c].rows : q.pos # r.pos /\ q # r
  BY DEF KInv, PositionInv
<1>3. \A x \in tx[c].keys : x \notin keys
  BY DEF KInv, RecordsApart
<1>. QED BY <1>1, <1>2, <1>3 DEF VisibleRows, VisibleKeys, EL!Added, EL!Named

\* No event of the transaction is at a version that was committed before.
LEMMA CommitIsNew ==
  ASSUME IInv, KInv, NEW c \in Clients, Commit(c),
         NEW q \in rows, NEW r \in tx[c].rows, q.stream = r.stream
  PROVE  q.version < r.version
<1>1. q \in Rows /\ r \in Rows /\ q.version \in Nat /\ r.version \in Nat \ {0}
  BY DEF IInv, TypeOK, Rows, Positions
<1>2. CASE r.version <= q.version
  <2>1. r.version \in 1..q.version
    BY <1>1, <1>2
  <2>2. PICK p \in rows : p.stream = q.stream /\ p.version = r.version
    BY <2>1 DEF IInv, ChainInv, Chained
  <2>3. /\ Chained(VisibleRows(c)) /\ p \in VisibleRows(c) /\ r \in VisibleRows(c)
        /\ p.stream = r.stream
    BY <2>2 DEF IInv, ChainInv, VisibleRows
  <2>4. p = r
    BY <2>2, <2>3 DEF Chained
  <2>. QED BY <2>2, <2>4, CommitAdds
<1>. QED BY <1>1, <1>2

LEMMA CommitContinuesStreams ==
  ASSUME IInv, KInv, NEW c \in Clients, Commit(c)
  PROVE  EL!ContinuesStreams
<1>1. /\ rows' = VisibleRows(c) /\ EL!Added = tx[c].rows
      /\ \A q \in rows : \A r \in tx[c].rows : q.pos # r.pos
  BY CommitAdds
<1>2. Chained(VisibleRows(c)) /\ VisibleRows(c) \subseteq Rows
  BY DEF IInv, ChainInv, TypeOK, VisibleRows
<1>3. ASSUME NEW e \in rows, NEW d \in tx[c].rows, e.stream = d.stream PROVE EL!Before(e, d)
  <2>1. e.version < d.version
    BY <1>3, CommitIsNew
  <2>. QED BY <1>2, <1>3, <2>1 DEF Chained, VisibleRows, EL!Before
<1>4. ASSUME NEW e \in tx[c].rows, NEW d \in tx[c].rows, e.stream = d.stream
      PROVE  e = d \/ EL!Before(e, d) \/ EL!Before(d, e)
  <2>1. e \in VisibleRows(c) /\ d \in VisibleRows(c) /\ e.version \in Int /\ d.version \in Int
    BY <1>2 DEF VisibleRows, Rows, Positions
  <2>. QED BY <1>2, <1>4, <2>1 DEF Chained, EL!Before
<1>5. \A e, d \in tx[c].rows : e.pos = d.pos => e = d
  BY DEF KInv, PositionInv
<1>6. \A d \in tx[c].rows : \A v \in 1..d.version :
        \E e \in VisibleRows(c) : e.stream = d.stream /\ e.version = v
  BY <1>2 DEF Chained, VisibleRows
<1>. QED BY <1>1, <1>3, <1>4, <1>5, <1>6 DEF EL!ContinuesStreams

LEMMA CommitUsesKeysOnce ==
  ASSUME IInv, KInv, ExpiredInv, NEW c \in Clients, Commit(c)
  PROVE  EL!UsesKeysOnce
<1>1. EL!Added = tx[c].rows /\ EL!Named = tx[c].keys
  BY CommitAdds
<1>2. /\ Keyed(VisibleRows(c), VisibleKeys(c)) /\ Keyed(rows, keys)
      /\ tx[c].rows \subseteq VisibleRows(c) /\ tx[c].keys \subseteq VisibleKeys(c)
  BY DEF KInv, KeyedInv, SettledRows, Commit, VisibleRows, VisibleKeys
<1>3. \A e \in tx[c].rows : e.pos \notin expired
  BY CommitAdds DEF ExpiredInv
<1>4. /\ \A j \in keys, k \in tx[c].keys : j.key # k.key
      /\ \A j, k \in tx[c].keys : j.key = k.key => j = k
  BY <1>2 DEF KInv, RecordsApart, Keyed, KeyedIn
\* What a committed record names was committed with it.
<1>5. ASSUME NEW k \in keys, NEW e \in tx[c].rows, e.stream = k.stream
      PROVE  e.version \notin k.from .. k.to
  <2> SUFFICES ASSUME e.version \in k.from .. k.to PROVE FALSE
    OBVIOUS
  <2>1. PICK r \in rows : r.stream = k.stream /\ r.version = e.version
    BY <1>2 DEF Keyed, KeyedIn
  <2>2. r.version < e.version /\ e.version \in Int
    BY <1>5, <2>1, CommitIsNew DEF IInv, TypeOK, Rows, Positions
  <2>. QED BY <2>1, <2>2
<1>6. ASSUME NEW e \in tx[c].rows, e.key \in Keys PROVE \E k \in tx[c].keys : k.key = e.key
  <2>1. PICK k \in VisibleKeys(c) : k.key = e.key
    BY <1>2, <1>3, <1>6 DEF Keyed, KeyedIn
  <2>2. e.stream = k.stream /\ e.version \in k.from .. k.to
    BY <1>2, <1>3, <2>1 DEF Keyed, KeyedIn
  <2>. QED BY <1>5, <2>1, <2>2 DEF VisibleKeys
\* What a new record names is new.
<1>7. ASSUME NEW k \in tx[c].keys PROVE EL!NamesItsEvents(k)
  <2>1. k.to - k.from + 1 = k.body.events
    BY <1>2 DEF Keyed, KeyedIn
  <2>2. \A e \in tx[c].rows :
          e.key = k.key <=> (e.stream = k.stream /\ e.version \in k.from .. k.to)
    BY <1>2, <1>3 DEF Keyed, KeyedIn
  <2>3. ASSUME NEW v \in k.from .. k.to
        PROVE  \E e \in tx[c].rows : e.stream = k.stream /\ e.version = v /\ e.body = k.body
    <3>1. PICK e \in VisibleRows(c) :
            e.stream = k.stream /\ e.version = v /\ e.key = k.key /\ e.body = k.body
      BY <1>2, <2>3 DEF Keyed, KeyedIn
    <3>2. CASE e \in rows
      <4>1. k.key \in Keys
        BY DEF IInv, TypeOK, KeyRecords
      <4>2. e.pos \notin expired
        BY <1>2, <2>3, <3>1 DEF Keyed, KeyedIn
      <4>3. \E x \in keys : x.key = e.key
        BY <1>2, <3>1, <3>2, <4>1, <4>2 DEF Keyed, KeyedIn
      <4>. QED BY <1>4, <3>1, <4>3
    <3>. QED BY <3>1, <3>2 DEF VisibleRows
  <2>. QED BY <1>1, <2>1, <2>2, <2>3 DEF EL!NamesItsEvents
<1>. QED BY <1>1, <1>4, <1>6, <1>7 DEF EL!UsesKeysOnce

LEMMA CommitTransacts ==
  ASSUME IInv, KInv, ExpiredInv, NEW c \in Clients, Commit(c)
  PROVE  EL!Transact
<1>1. rows \subseteq rows' /\ keys \subseteq keys' /\ outbox' = outbox \cup tx[c].outbox
  BY DEF Commit
<1>2. tx[c].outbox = {r.pos : r \in {x \in EL!Added : x.body.topics}}
  BY CommitAdds DEF IInv, OutboxInv
<1>. QED BY <1>1, <1>2, CommitContinuesStreams, CommitUsesKeysOnce DEF EL!Transact

\* Transactions appear to run one after the other, each at the moment it commits,
\* whatever statements of theirs interleave.
THEOREM AtomicAppends == Spec => AppendsAtomically
<1>1. Init => EL!Init
  BY DEF Init, EL!Init
<1>2. IInv /\ KInv /\ ExpiredInv /\ [Next]_vars => [EL!Next]_(EL!vars)
  <2> SUFFICES ASSUME IInv, KInv, ExpiredInv, [Next]_vars PROVE [EL!Next]_(EL!vars)
    OBVIOUS
  <2>1. ASSUME NEW c \in Clients, Commit(c) PROVE EL!Next
    BY <2>1, CommitTransacts DEF EL!Next
  <2>2. CASE CleanupIdempotencyKeys
    BY <2>2 DEF CleanupIdempotencyKeys, EL!Next, EL!Forget
  <2>3. CASE UNCHANGED tables
    BY <2>3 DEF tables, EL!vars
  <2>. QED BY <2>1, <2>2, <2>3, TablesChange
<1>. QED BY <1>1, <1>2, Invariance, KInvariance, ExpiredInvariance, PTL
         DEF Spec, AppendsAtomically, EL!Spec
=============================================================================
