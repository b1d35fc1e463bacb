--------------------------- MODULE SafeWatermark ---------------------------
(***************************************************************************)
(* The commit-safe position that every cursor-based consumer reads up to.  *)
(*                                                                         *)
(* Global positions come from a BIGSERIAL: they are reserved when a row is *)
(* inserted and become visible when its transaction commits, so positions  *)
(* become visible out of order and a rollback leaves a gap for ever.       *)
(* computeSafeWatermark certifies a position below which nothing can       *)
(* change any more: a statement trigger on the events table makes every    *)
(* writer hold a shared lock (the fence) from before its first reservation *)
(* until its transaction ends, and a certifier publishes the highest       *)
(* visible position only while it holds the exclusive counterpart.         *)
(*                                                                         *)
(* Each query of the certifier is a step of its own, since writers and     *)
(* other certifiers run between any two of them.                           *)
(***************************************************************************)
EXTENDS Integers

CONSTANTS
  Writers,      \* connections that insert events inside transactions
  Certifiers,   \* connections that run computeSafeWatermark
  Nobody,       \* stands for "lock not held"
  MaxPosition   \* bound: how many positions the BIGSERIAL hands out

ASSUME SafeWatermarkAssumption ==
  /\ Nobody \notin Writers \cup Certifiers
  /\ MaxPosition \in Nat

VARIABLES
  (* The events table and its BIGSERIAL. *)
  lastValue,      \* last position reserved; never given back
  pending,        \* pending[w]: positions of w's uncommitted rows
  committed,      \* positions of the visible rows
  (* Advisory locks. *)
  fenceShared,    \* writers holding the shared WATERMARK_LOCK_KEY lock
  fenceExclusive, \* certifier holding it exclusively, or Nobody
  readerLock,     \* certifier holding WATERMARK_READER_LOCK_KEY, or Nobody
  (* The projection_safe_watermark sequence: outside every transaction. *)
  certified,
  (* Locals of a running computeSafeWatermark, per certifier. *)
  pc,             \* the query it runs next
  acquired,       \* did the try-lock succeed
  lastCertified,  \* the cached value it read
  position,       \* the maximum it read
  safePosition    \* what it returns; kept after the return

writerVars    == <<lastValue, pending, committed, fenceShared>>
lockVars      == <<fenceExclusive, readerLock>>
certifierVars == <<pc, acquired, lastCertified, position, safePosition>>
vars == <<writerVars, lockVars, certified, certifierVars>>

Positions == 1..MaxPosition

CertifierSteps ==
  {"idle", "tryFence", "readCached", "readMax", "setval", "commit"}

TypeOK ==
  /\ lastValue \in 0..MaxPosition
  /\ pending \in [Writers -> SUBSET Positions]
  /\ committed \subseteq Positions
  /\ fenceShared \subseteq Writers
  /\ fenceExclusive \in Certifiers \cup {Nobody}
  /\ readerLock \in Certifiers \cup {Nobody}
  /\ certified \in 0..MaxPosition
  /\ pc \in [Certifiers -> CertifierSteps]
  /\ acquired \in [Certifiers -> BOOLEAN]
  /\ lastCertified \in [Certifiers -> 0..MaxPosition]
  /\ position \in [Certifiers -> 0..MaxPosition]
  /\ safePosition \in [Certifiers -> 0..MaxPosition]

Init ==
  /\ lastValue = 0
  /\ pending = [w \in Writers |-> {}]
  /\ committed = {}
  /\ fenceShared = {}
  /\ fenceExclusive = Nobody
  /\ readerLock = Nobody
  /\ certified = 0
  /\ pc = [c \in Certifiers |-> "idle"]
  /\ acquired = [c \in Certifiers |-> FALSE]
  /\ lastCertified = [c \in Certifiers |-> 0]
  /\ position = [c \in Certifiers |-> 0]
  /\ safePosition = [c \in Certifiers |-> 0]

-----------------------------------------------------------------------------
(* Writers: any transaction that inserts into the events table.            *)

\* Mutant: the fence trigger is not installed, so nothing makes a writer wait.
LockEventPositions_NoTrigger(w) ==
  /\ w \notin fenceShared
  /\ fenceShared' = fenceShared \cup {w}
  /\ UNCHANGED <<lastValue, pending, committed, lockVars, certified, certifierVars>>

\* BEFORE INSERT FOR EACH STATEMENT: the trigger waits for the shared fence.
\* Later statements of the same transaction find it already held.
LockEventPositions(w) ==
  /\ w \notin fenceShared
  /\ fenceExclusive = Nobody
  /\ fenceShared' = fenceShared \cup {w}
  /\ UNCHANGED <<lastValue, pending, committed, lockVars, certified, certifierVars>>

\* One row of a statement takes nextval: rows of concurrent statements mix,
\* and a transaction may insert again after others reserved higher positions.
ReservePosition(w) ==
  /\ w \in fenceShared
  /\ lastValue < MaxPosition
  /\ lastValue' = lastValue + 1
  /\ pending' = [pending EXCEPT ![w] = @ \cup {lastValue + 1}]
  /\ UNCHANGED <<committed, fenceShared, lockVars, certified, certifierVars>>

\* COMMIT makes the rows visible and then drops the advisory locks.
CommitWriter(w) ==
  /\ w \in fenceShared
  /\ committed' = committed \cup pending[w]
  /\ pending' = [pending EXCEPT ![w] = {}]
  /\ fenceShared' = fenceShared \ {w}
  /\ UNCHANGED <<lastValue, lockVars, certified, certifierVars>>

\* ROLLBACK, a failed statement or a lost connection: the positions are gaps.
RollbackWriter(w) ==
  /\ w \in fenceShared
  /\ pending' = [pending EXCEPT ![w] = {}]
  /\ fenceShared' = fenceShared \ {w}
  /\ UNCHANGED <<lastValue, committed, lockVars, certified, certifierVars>>

-----------------------------------------------------------------------------
(* computeSafeWatermark, query by query.                                   *)

\* Mutant: certifications are not serialized.
LockReader_Unserialized(c) ==
  /\ pc[c] = "idle"
  /\ readerLock' = c
  /\ pc' = [pc EXCEPT ![c] = "tryFence"]
  /\ UNCHANGED <<writerVars, fenceExclusive, certified,
                 acquired, lastCertified, position, safePosition>>

\* BEGIN; pg_advisory_xact_lock on the reader lock: waits for its holder.
LockReader(c) ==
  /\ pc[c] = "idle"
  /\ readerLock = Nobody
  /\ readerLock' = c
  /\ pc' = [pc EXCEPT ![c] = "tryFence"]
  /\ UNCHANGED <<writerVars, fenceExclusive, certified,
                 acquired, lastCertified, position, safePosition>>

\* Mutant: the try-lock is taken in shared mode and never meets a writer.
FenceIsFree_SharedMode == fenceExclusive = Nobody

\* No lock that conflicts with the exclusive fence is held.
FenceIsFree == fenceShared = {} /\ fenceExclusive = Nobody

\* pg_try_advisory_xact_lock never waits: it reports whether it got the fence.
TryFence(c) ==
  /\ pc[c] = "tryFence"
  /\ acquired' = [acquired EXCEPT ![c] = FenceIsFree]
  /\ fenceExclusive' = IF FenceIsFree THEN c ELSE fenceExclusive
  /\ pc' = [pc EXCEPT ![c] = "readCached"]
  /\ UNCHANGED <<writerVars, readerLock, certified,
                 lastCertified, position, safePosition>>

\* SELECT last_value: the fallback when a writer is in flight.
ReadCached(c) ==
  /\ pc[c] = "readCached"
  /\ lastCertified' = [lastCertified EXCEPT ![c] = certified]
  /\ safePosition' = [safePosition EXCEPT ![c] = certified]
  /\ pc' = [pc EXCEPT ![c] = IF acquired[c] THEN "readMax" ELSE "commit"]
  /\ UNCHANGED <<writerVars, lockVars, certified, acquired, position>>

\* m is what SELECT COALESCE(MAX(global_position), 0) returns.
IsMaxCommitted(m) ==
  /\ m \in committed \cup {0}
  /\ \A p \in committed : p <= m

\* Mutant: no COALESCE, so the maximum of an empty table is NULL.
ReadMax_NoCoalesce(c) ==
  /\ pc[c] = "readMax"
  /\ \E m \in committed \cup {Nobody} :
       /\ m = Nobody <=> committed = {}
       /\ \A p \in committed : p <= m
       /\ position' = [position EXCEPT ![c] = m]
       /\ pc' = [pc EXCEPT ![c] = "setval"]
  /\ UNCHANGED <<writerVars, lockVars, certified,
                 acquired, lastCertified, safePosition>>

ReadMax(c) ==
  /\ pc[c] = "readMax"
  /\ \E m \in 0..MaxPosition :
       /\ IsMaxCommitted(m)
       /\ position' = [position EXCEPT ![c] = m]
       /\ pc' = [pc EXCEPT ![c] = IF m > lastCertified[c] THEN "setval" ELSE "commit"]
  /\ UNCHANGED <<writerVars, lockVars, certified,
                 acquired, lastCertified, safePosition>>

\* setval is not transactional: it stays even if the transaction rolls back.
SetVal(c) ==
  /\ pc[c] = "setval"
  /\ certified' = position[c]
  /\ safePosition' = [safePosition EXCEPT ![c] = position[c]]
  /\ pc' = [pc EXCEPT ![c] = "commit"]
  /\ UNCHANGED <<writerVars, lockVars, acquired, lastCertified, position>>

\* COMMIT and ROLLBACK alike drop both advisory locks and the locals.
EndFence(c) ==
  /\ readerLock' = Nobody
  /\ fenceExclusive' = IF fenceExclusive = c THEN Nobody ELSE fenceExclusive
  /\ pc' = [pc EXCEPT ![c] = "idle"]
  /\ acquired' = [acquired EXCEPT ![c] = FALSE]
  /\ lastCertified' = [lastCertified EXCEPT ![c] = 0]
  /\ position' = [position EXCEPT ![c] = 0]
  /\ UNCHANGED <<writerVars, certified>>

ReturnSafePosition(c) ==
  /\ pc[c] = "commit"
  /\ EndFence(c)
  /\ UNCHANGED safePosition

\* Any query may fail: the catch block rolls back and nothing is returned.
FailFence(c) ==
  /\ pc[c] # "idle"
  /\ EndFence(c)
  /\ safePosition' = [safePosition EXCEPT ![c] = 0]

-----------------------------------------------------------------------------
WriterStep(w) ==
  \/ LockEventPositions(w)
  \/ ReservePosition(w)
  \/ CommitWriter(w)
  \/ RollbackWriter(w)

CertifierStep(c) ==
  \/ LockReader(c)
  \/ TryFence(c)
  \/ ReadCached(c)
  \/ ReadMax(c)
  \/ SetVal(c)
  \/ ReturnSafePosition(c)

Next ==
  \/ \E w \in Writers : WriterStep(w)
  \/ \E c \in Certifiers : CertifierStep(c) \/ FailFence(c)

Spec == Init /\ [][Next]_vars

EndWriter(w) == CommitWriter(w) \/ RollbackWriter(w)

-----------------------------------------------------------------------------
(* Properties.                                                             *)

\* A position at or below the certificate has no uncommitted row, so no
\* transaction can still make it visible; and every value handed to a consumer
\* is covered by the certificate (compute-safe-watermark.ts, "safe forever").
CertifiedIsSettled ==
  /\ \A w \in Writers : \A p \in pending[w] : p > certified
  /\ \A c \in Certifiers : safePosition[c] <= certified

\* Once a position is certified its visibility never changes again, and the
\* certificate never goes back, whatever commits, rolls back or fails later.
CertifiedPrefixFrozen ==
  [][/\ certified <= certified'
     /\ \A p \in 1..certified : p \in committed' <=> p \in committed]_vars

\* Only a writer makes a certifier fall back on the cached value: a competing
\* consumer is never mistaken for one (the purpose of the reader lock).
StaleOnlyBehindWriter ==
  [][\A c \in Certifiers :
       (TryFence(c) /\ ~acquired'[c]) => fenceShared # {}]_vars
=============================================================================
