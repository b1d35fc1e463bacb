------------------------------ MODULE Projection ----------------------------
(***************************************************************************)
(* runProjection on several replicas of one projection, composed with the  *)
(* writers and certifiers of SafeWatermark.  A run first certifies a bound *)
(* in its own short transaction, and only then opens the transaction that  *)
(* locks the checkpoint, reads a batch, runs the handlers and moves the    *)
(* checkpoint; meanwhile writers and other replicas move on.               *)
(*                                                                         *)
(* Handlers write their read model through the transaction's client, so    *)
(* their effects commit or roll back with the checkpoint.                  *)
(***************************************************************************)
EXTENDS SafeWatermark, Sequences, FiniteSets

CONSTANTS
  BatchSize,    \* events per run
  Policies      \* onRedacted settings to consider: "skip", "handler", "none"

ASSUME ProjectionAssumption ==
  /\ BatchSize \in Nat \ {0}
  /\ Policies \subseteq {"skip", "handler", "none"}

VARIABLES
  policy,       \* the projection's onRedacted, fixed when it is defined
  (* The database. *)
  ignored,      \* positions whose event the projection does not handle
  redacted,     \* positions whose encrypted data cannot be decrypted any more
  checkpoint,   \* committed last_position of the projection; 0 without a row
  rowLock,      \* replica whose transaction holds the checkpoint row
  readModel,    \* positions handled, in order, by committed transactions
  (* Locals of a run, per replica. *)
  step,         \* what the run does next
  last,         \* lastPosition read under the row lock
  batch,        \* rows of the batch that are still to be handled
  newLast,      \* newLastPosition
  applied       \* positions handled so far in the open transaction

runVars == <<step, last, batch, newLast, applied>>
projectionVars == <<policy, ignored, redacted, checkpoint, rowLock, readModel, runVars>>
pvars == <<vars, projectionVars>>

Replicas == Certifiers

PTypeOK ==
  /\ policy \in Policies
  /\ ignored \subseteq Positions
  /\ redacted \subseteq Positions
  /\ checkpoint \in 0..MaxPosition
  /\ rowLock \in Replicas \cup {Nobody}
  /\ readModel \in Seq(Positions)
  /\ step \in [Replicas -> {"certify", "checkpoint", "read", "handle", "commit", "failed"}]
  /\ last \in [Replicas -> 0..MaxPosition]
  /\ batch \in [Replicas -> SUBSET Positions]
  /\ newLast \in [Replicas -> 0..MaxPosition]
  /\ applied \in [Replicas -> Seq(Positions)]

PInit ==
  /\ Init
  /\ policy \in Policies
  /\ ignored \in SUBSET Positions
  /\ redacted = {}
  /\ checkpoint = 0
  /\ rowLock = Nobody
  /\ readModel = <<>>
  /\ step = [r \in Replicas |-> "certify"]
  /\ last = [r \in Replicas |-> 0]
  /\ batch = [r \in Replicas |-> {}]
  /\ newLast = [r \in Replicas |-> 0]
  /\ applied = [r \in Replicas |-> <<>>]

-----------------------------------------------------------------------------
\* The first part of runProjection: one certification, on its own connection.
Certify(r) ==
  /\ step[r] = "certify"
  /\ CertifierStep(r)
  /\ step' = [step EXCEPT ![r] = IF pc[r] = "commit" THEN "checkpoint" ELSE @]
  /\ UNCHANGED <<policy, ignored, redacted, checkpoint, rowLock, readModel,
                 last, batch, newLast, applied>>

\* It throws: the run is over before it opened its own transaction.
FailCertify(r) ==
  /\ step[r] = "certify"
  /\ FailFence(r)
  /\ UNCHANGED projectionVars

\* Mutant: SELECT without FOR UPDATE reads the checkpoint while another run goes on.
EnsureCheckpoint_PlainSelect(r) ==
  /\ step[r] = "checkpoint"
  /\ last' = [last EXCEPT ![r] = checkpoint]
  /\ newLast' = [newLast EXCEPT ![r] = checkpoint]
  /\ step' = [step EXCEPT ![r] = IF safePosition[r] <= checkpoint THEN "commit" ELSE "read"]
  /\ UNCHANGED <<vars, policy, ignored, redacted, checkpoint, rowLock, readModel,
                 batch, applied>>

\* ensureCheckpoint: INSERT ... ON CONFLICT DO NOTHING and SELECT ... FOR UPDATE
\* wait for the transaction that holds the row and then read what it committed.
EnsureCheckpoint(r) ==
  /\ step[r] = "checkpoint"
  /\ rowLock = Nobody
  /\ rowLock' = r
  /\ last' = [last EXCEPT ![r] = checkpoint]
  /\ newLast' = [newLast EXCEPT ![r] = checkpoint]
  /\ step' = [step EXCEPT ![r] = IF safePosition[r] <= checkpoint THEN "commit" ELSE "read"]
  /\ UNCHANGED <<vars, policy, ignored, redacted, checkpoint, readModel, batch, applied>>

Smallest(S, n) == {p \in S : Cardinality({q \in S : q <= p}) <= n}

\* Rows with last < global_position <= safeWatermark.
Unread(r) == {p \in committed : p > last[r] /\ p <= safePosition[r]}

ReadBatch(r) ==
  /\ step[r] = "read"
  /\ batch' = [batch EXCEPT ![r] = Smallest(Unread(r), BatchSize)]
  /\ step' = [step EXCEPT ![r] = IF Unread(r) = {} THEN "commit" ELSE "handle"]
  /\ UNCHANGED <<vars, policy, ignored, redacted, checkpoint, rowLock, readModel,
                 last, newLast, applied>>

\* What the onRedacted policy makes of an event that cannot be decrypted.
OnRedacted ==
  CASE policy = "skip"    -> "nothing"
    [] policy = "handler" -> "apply"
    [] policy = "none"    -> "throw"

\* What may become of row p: ignoresEvent comes before the decryption, and the
\* policy decides on an event that is redacted by now, unless its key is still in
\* the keyCache of this run, from an event the run has handled before.
Handlings(r, p) ==
  IF p \in ignored THEN {"nothing"}
  ELSE IF p \notin redacted THEN {"apply"}
  ELSE {OnRedacted} \cup IF applied[r] = <<>> THEN {} ELSE {"apply"}

HandleRow(r) ==
  /\ step[r] = "handle"
  /\ \E p \in batch[r] : \E outcome \in Handlings(r, p) :
       /\ \A q \in batch[r] : p <= q
       /\ IF outcome = "throw"
          THEN /\ step' = [step EXCEPT ![r] = "failed"]
               /\ UNCHANGED <<batch, newLast, applied>>
          ELSE /\ batch' = [batch EXCEPT ![r] = @ \ {p}]
               /\ newLast' = [newLast EXCEPT ![r] = p]
               /\ applied' = [applied EXCEPT ![r] =
                                IF outcome = "apply" THEN Append(@, p) ELSE @]
               /\ step' = [step EXCEPT ![r] = IF batch[r] = {p} THEN "commit" ELSE "handle"]
  /\ UNCHANGED <<vars, policy, ignored, redacted, checkpoint, rowLock, readModel, last>>

\* Mutant: the connection goes back to the pool with its transaction open.
EndRun_LeakedTransaction(r) ==
  /\ step' = [step EXCEPT ![r] = "certify"]
  /\ last' = [last EXCEPT ![r] = 0]
  /\ batch' = [batch EXCEPT ![r] = {}]
  /\ newLast' = [newLast EXCEPT ![r] = 0]
  /\ applied' = [applied EXCEPT ![r] = <<>>]
  /\ UNCHANGED <<vars, policy, ignored, redacted, rowLock>>

\* The transaction is over, with its row lock and its locals.
EndRun(r) ==
  /\ rowLock' = IF rowLock = r THEN Nobody ELSE rowLock
  /\ step' = [step EXCEPT ![r] = "certify"]
  /\ last' = [last EXCEPT ![r] = 0]
  /\ batch' = [batch EXCEPT ![r] = {}]
  /\ newLast' = [newLast EXCEPT ![r] = 0]
  /\ applied' = [applied EXCEPT ![r] = <<>>]
  /\ UNCHANGED <<vars, policy, ignored, redacted>>

\* updateCheckpoint and COMMIT: the read model and the checkpoint move together.
CommitRun(r) ==
  /\ step[r] = "commit"
  /\ checkpoint' = newLast[r]
  /\ readModel' = readModel \o applied[r]
  /\ EndRun(r)

\* A handler throws, a query fails or the replica crashes: ROLLBACK.
FailRun(r) ==
  /\ step[r] # "certify"
  /\ EndRun(r)
  /\ UNCHANGED <<checkpoint, readModel>>

\* revokeKey of another process: the committed events of one key are redacted.
RevokeKey ==
  /\ \E S \in SUBSET committed : redacted' = redacted \cup S
  /\ UNCHANGED <<vars, policy, ignored, checkpoint, rowLock, readModel, runVars>>

-----------------------------------------------------------------------------
RunStep(r) == EnsureCheckpoint(r) \/ ReadBatch(r) \/ HandleRow(r) \/ CommitRun(r)

PNext ==
  \/ \E w \in Writers : WriterStep(w) /\ UNCHANGED projectionVars
  \/ \E r \in Replicas : Certify(r) \/ FailCertify(r) \/ RunStep(r) \/ FailRun(r)
  \/ RevokeKey

PSpec == PInit /\ [][PNext]_pvars

\* Workers call runProjection in a loop; every query and every handler returns,
\* and PostgreSQL grants advisory and row locks to their waiters in turn.
Progress(r) == Certify(r) \/ RunStep(r)

PFairness ==
  /\ \A w \in Writers : WF_pvars(EndWriter(w) /\ UNCHANGED projectionVars)
  /\ \A r \in Replicas : SF_pvars(Progress(r))

PFairSpec == PSpec /\ PFairness

-----------------------------------------------------------------------------
(* Properties.                                                             *)

\* A redacted event need not be handled when the policy is to skip it; under
\* the other policies it must be, or the checkpoint stays before it.
Excused == ignored \cup IF policy = "skip" THEN redacted ELSE {}

OD == INSTANCE OrderedDelivery WITH
        MaxPos <- MaxPosition, log <- committed, excused <- Excused,
        frontier <- checkpoint, delivered <- readModel

\* The read model and the checkpoint behave as an ordered delivery of every
\* event exactly once: no late commit is passed over, no replica, crash, failed
\* handler or stale certificate makes an event count twice or not at all.
ProjectsExactlyOnceInOrder == OD!Spec

\* Without a redaction policy an event of a revoked key fails every batch it
\* falls in, with the events before it in that batch.
Blocked == policy = "none" /\ \E q \in redacted \ ignored : checkpoint < q

\* Once the writers fall silent and runs stop failing, every committed event is
\* projected, although replicas race and runs were cut off before; only a
\* revoked key under no redaction policy may stop it.
EventuallyProjected ==
  (/\ <>[](fenceShared = {})
   /\ <>[][\A r \in Replicas : ~FailRun(r) /\ ~FailCertify(r)]_pvars) =>
    \A p \in Positions : (p \in committed) ~> (p <= checkpoint \/ Blocked)
=============================================================================
