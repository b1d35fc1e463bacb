------------------------------ MODULE Deployment ---------------------------
(***************************************************************************)
(* Replicas setting up the event store over one database: migrating it, or *)
(* with migrationMode "verify" checking that somebody has.                 *)
(*                                                                         *)
(* A migration is one transaction of several statements under an advisory  *)
(* lock; a verification is statements without a transaction.  Callers of   *)
(* setup share the attempt in progress and may call again.  Statements     *)
(* fail and replicas crash, at most MaxFaults times.                       *)
(*                                                                         *)
(* The replicas run one release: registry is the chain of upcasters that   *)
(* each registers in its own process.                                      *)
(***************************************************************************)
EXTENDS Upcasters, FiniteSets

CONSTANTS
  Migrators, Verifiers,  \* the replicas, by migrationMode
  Callers,               \* Callers[r]: callers of setup in replica r
  ReleaseUpcasters,      \* upcasters that the release registers, in any order
  MaxSchemaVersion,      \* bound: schema versions of stored events
  MaxFaults              \* bound: failed statements and crashes

Replicas == Migrators \cup Verifiers
NoReplica == "none"

ASSUME DeploymentAssumption ==
  /\ Migrators \cap Verifiers = {} /\ NoReplica \notin Replicas
  /\ ReleaseUpcasters \subseteq [from : Nat, to : Nat]
  /\ DOMAIN Callers = Replicas
  /\ MaxSchemaVersion \in Nat /\ MaxFaults \in Nat

VARIABLES
  objects,    \* committed: subset of {"schema_version", "events", "fence", "support"}
  version,    \* committed version, 0 if there is no row
  lock,       \* replica whose transaction holds the migration lock, or NoReplica
  created,    \* objects of each replica's open transaction, "row" for the version's
  step,       \* of each replica's setup
  answer,     \* what its attempt will be settled with: "none", "ok", "failed",
              \* or "exists": an object was there already
  initialized, setupPromise,
  caller,     \* [replica][caller]: "idle", "waiting", "ok" or "error"
  registry,
  faults

database == <<objects, version, lock, created>>
store == <<step, answer, initialized, setupPromise, caller>>
vars == <<database, store, registry, faults>>

CURRENT_SCHEMA_VERSION == 1
Schema == {"events", "fence", "support"}

\* A fresh schema; a migrated one; one of a later release; one from before versions;
\* and one whose fence was disabled.
InitialDatabases ==
  {<<{}, 0>>,
   <<{"schema_version"} \cup Schema, CURRENT_SCHEMA_VERSION>>,
   <<{"schema_version"} \cup Schema, CURRENT_SCHEMA_VERSION + 1>>,
   <<Schema, 0>>,
   <<{"schema_version", "events", "support"}, CURRENT_SCHEMA_VERSION>>}

Init ==
  /\ \E initial \in InitialDatabases : objects = initial[1] /\ version = initial[2]
  /\ lock = NoReplica
  /\ created = [r \in Replicas |-> {}]
  /\ step = [r \in Replicas |-> "idle"]
  /\ answer = [r \in Replicas |-> "none"]
  /\ initialized = [r \in Replicas |-> FALSE]
  /\ setupPromise = [r \in Replicas |-> "none"]
  /\ caller = [r \in Replicas |-> [c \in Callers[r] |-> "idle"]]
  /\ registry = <<>>
  /\ faults = 0

-----------------------------------------------------------------------------
(* setup.                                                                  *)

Settled(r, result) ==
  [c \in Callers[r] |-> IF caller[r][c] = "waiting" THEN result ELSE caller[r][c]]

Setup(r, c) ==
  /\ caller[r][c] \in {"idle", "error"}
  /\ IF initialized[r]
     THEN /\ caller' = [caller EXCEPT ![r][c] = "ok"]
          /\ UNCHANGED <<step, answer, setupPromise>>
     ELSE IF setupPromise[r] = "rejected"  \* returned as it is; no step makes it so
     THEN /\ caller' = [caller EXCEPT ![r][c] = "error"]
          /\ UNCHANGED <<step, answer, setupPromise>>
     ELSE /\ caller' = [caller EXCEPT ![r][c] = "waiting"]
          /\ IF setupPromise[r] = "pending" THEN UNCHANGED <<step, answer, setupPromise>>
             ELSE /\ setupPromise' = [setupPromise EXCEPT ![r] = "pending"]
                  /\ step' = [step EXCEPT ![r] =
                                IF r \in Verifiers THEN "relation" ELSE "lock"]
                  /\ answer' = [answer EXCEPT ![r] = "none"]
  /\ UNCHANGED <<database, initialized, registry, faults>>

\* Mutant: the promise is cleared on success only.
Settle_KeepsRejection(r) ==
  /\ step[r] = "settle"
  /\ step' = [step EXCEPT ![r] = "idle"]
  /\ initialized' = [initialized EXCEPT ![r] = answer[r] = "ok"]
  /\ setupPromise' = [setupPromise EXCEPT ![r] =
                        IF answer[r] = "ok" THEN "none" ELSE "rejected"]
  /\ caller' = [caller EXCEPT ![r] =
                  Settled(r, IF answer[r] = "ok" THEN "ok" ELSE "error")]
  /\ UNCHANGED <<database, answer, registry, faults>>

\* Mutant: initialized is set in the finally block.
Settle_AlwaysInitialized(r) ==
  /\ step[r] = "settle"
  /\ step' = [step EXCEPT ![r] = "idle"]
  /\ initialized' = [initialized EXCEPT ![r] = TRUE]
  /\ setupPromise' = [setupPromise EXCEPT ![r] = "none"]
  /\ caller' = [caller EXCEPT ![r] =
                  Settled(r, IF answer[r] = "ok" THEN "ok" ELSE "error")]
  /\ UNCHANGED <<database, answer, registry, faults>>

\* The attempt is over: its promise is cleared and everyone who shares it hears.
Settle(r) ==
  /\ step[r] = "settle"
  /\ step' = [step EXCEPT ![r] = "idle"]
  /\ initialized' = [initialized EXCEPT ![r] = answer[r] = "ok"]
  /\ setupPromise' = [setupPromise EXCEPT ![r] = "none"]
  /\ caller' = [caller EXCEPT ![r] =
                  Settled(r, IF answer[r] = "ok" THEN "ok" ELSE "error")]
  /\ UNCHANGED <<database, answer, registry, faults>>

-----------------------------------------------------------------------------
(* The statements of an attempt.  One sees what is committed and its own    *)
(* transaction's objects; creating an object waits for a transaction that  *)
(* has created it, and fails if it is there.                               *)

Sees(r) == objects \cup created[r]

unchangedByStatements == <<initialized, setupPromise, caller, registry, faults>>

GoTo(r, next) == step' = [step EXCEPT ![r] = next] /\ UNCHANGED answer

\* The attempt throws: a migration rolls back first.
Throw(r, why) ==
  /\ step' = [step EXCEPT ![r] = IF r \in Migrators THEN "rollback" ELSE "settle"]
  /\ answer' = [answer EXCEPT ![r] = why]

\* Mutant: there is no lock.
AcquireLock_None(r) ==
  /\ step[r] = "lock"
  /\ GoTo(r, "metadata")
  /\ UNCHANGED <<database, unchangedByStatements>>

\* BEGIN and pg_advisory_xact_lock.
AcquireLock(r) ==
  /\ step[r] = "lock" /\ lock = NoReplica
  /\ lock' = r
  /\ GoTo(r, "metadata")
  /\ UNCHANGED <<objects, version, created, unchangedByStatements>>

Create(r, new, next) ==
  /\ \A s \in Replicas \ {r} : created[s] \cap new = {}
  /\ IF new \cap Sees(r) # {} THEN Throw(r, "exists") /\ UNCHANGED created
     ELSE /\ created' = [created EXCEPT ![r] = @ \cup new]
          /\ GoTo(r, next)
  /\ UNCHANGED <<objects, version, lock, unchangedByStatements>>

\* initializeVersionTable reads; unversioned objects make it throw.
ReadMetadata(r) ==
  /\ step[r] = "metadata"
  /\ IF "schema_version" \in Sees(r) THEN GoTo(r, "apply")
     ELSE IF Sees(r) # {} THEN Throw(r, "failed")
     ELSE GoTo(r, "create version")
  /\ UNCHANGED <<database, unchangedByStatements>>

CreateVersionTable(r) ==
  step[r] = "create version" /\ Create(r, {"schema_version"}, "apply")

\* applyPendingMigrations.
ReadVersion(r) ==
  /\ step[r] = "apply"
  /\ IF version > CURRENT_SCHEMA_VERSION THEN Throw(r, "failed")
     ELSE GoTo(r, IF version < 1 THEN "create events" ELSE "relation")
  /\ UNCHANGED <<database, unchangedByStatements>>

CreateEvents(r) ==
  step[r] = "create events" /\ Create(r, {"events", "fence"}, "create support")
CreateSupport(r) ==
  step[r] = "create support" /\ Create(r, {"support"}, "insert version")
InsertVersion(r) ==
  step[r] = "insert version" /\ Create(r, {"row"}, "relation")

SeenVersion(r) == IF "row" \in created[r] THEN CURRENT_SCHEMA_VERSION ELSE version

\* verifyMigrations: the table, its row, and the fence and the watermark sequence.
VerifyRelation(r) ==
  /\ step[r] = "relation"
  /\ IF "schema_version" \in Sees(r) THEN GoTo(r, "number") ELSE Throw(r, "failed")
  /\ UNCHANGED <<database, unchangedByStatements>>

VerifyVersion(r) ==
  /\ step[r] = "number"
  /\ IF SeenVersion(r) = CURRENT_SCHEMA_VERSION THEN GoTo(r, "fence")
                                               ELSE Throw(r, "failed")
  /\ UNCHANGED <<database, unchangedByStatements>>

VerifyFence(r) ==
  /\ step[r] = "fence"
  /\ IF ~({"fence", "support"} \subseteq Sees(r)) THEN Throw(r, "failed")
     ELSE IF r \in Migrators THEN GoTo(r, "commit")
     ELSE /\ step' = [step EXCEPT ![r] = "settle"]
          /\ answer' = [answer EXCEPT ![r] = "ok"]
  /\ UNCHANGED <<database, unchangedByStatements>>

EndTransaction(r) ==
  /\ created' = [created EXCEPT ![r] = {}]
  /\ lock' = IF lock = r THEN NoReplica ELSE lock

CommitChanges(r) ==
  /\ objects' = objects \cup (created[r] \ {"row"})
  /\ version' = SeenVersion(r)
  /\ EndTransaction(r)

Commit(r) ==
  /\ step[r] = "commit"
  /\ CommitChanges(r)
  /\ step' = [step EXCEPT ![r] = "settle"]
  /\ answer' = [answer EXCEPT ![r] = "ok"]
  /\ UNCHANGED unchangedByStatements

Rollback(r) ==
  /\ step[r] = "rollback"
  /\ EndTransaction(r)
  /\ GoTo(r, "settle")
  /\ UNCHANGED <<objects, version, unchangedByStatements>>

Statement(r) ==
  \/ AcquireLock(r) \/ ReadMetadata(r) \/ CreateVersionTable(r) \/ ReadVersion(r)
  \/ CreateEvents(r) \/ CreateSupport(r) \/ InsertVersion(r)
  \/ VerifyRelation(r) \/ VerifyVersion(r) \/ VerifyFence(r)
  \/ Commit(r) \/ Rollback(r)

-----------------------------------------------------------------------------
(* Faults.                                                                 *)

\* A statement fails; the answer of a commit may be lost after it took effect.
StatementFails(r) ==
  /\ faults < MaxFaults /\ faults' = faults + 1
  /\ step[r] \notin {"idle", "rollback", "settle"}
  /\ Throw(r, "failed")
  /\ \/ UNCHANGED database
     \/ step[r] = "commit" /\ CommitChanges(r)
  /\ UNCHANGED <<initialized, setupPromise, caller, registry>>

\* The process ends, its transaction with it, and starts anew.
Crash(r) ==
  /\ faults < MaxFaults /\ faults' = faults + 1
  /\ EndTransaction(r)
  /\ step' = [step EXCEPT ![r] = "idle"]
  /\ answer' = [answer EXCEPT ![r] = "none"]
  /\ initialized' = [initialized EXCEPT ![r] = FALSE]
  /\ setupPromise' = [setupPromise EXCEPT ![r] = "none"]
  /\ caller' = [caller EXCEPT ![r] = [c \in Callers[r] |-> "idle"]]
  /\ UNCHANGED <<objects, version, registry>>

\* registerUpcaster, at any time; it throws for what the registry does not accept.
RegisterUpcaster(u) ==
  /\ Accepts(registry, u)
  /\ registry' = Insert(registry, u)
  /\ UNCHANGED <<database, store, faults>>

-----------------------------------------------------------------------------

\* Everyone has set up.
Idle ==
  /\ \A r \in Replicas : \A c \in Callers[r] : caller[r][c] = "ok"
  /\ UNCHANGED vars

Next ==
  \/ \E r \in Replicas : \/ Statement(r) \/ Settle(r)
                         \/ StatementFails(r) \/ Crash(r)
                         \/ \E c \in Callers[r] : Setup(r, c)
  \/ \E u \in ReleaseUpcasters : RegisterUpcaster(u)
  \/ Idle

Spec == Init /\ [][Next]_vars

\* Statements end, the lock's queue is served in order, and an application calls
\* setup until it succeeds.
FairSpec ==
  /\ Spec
  /\ \A r \in Replicas :
       /\ SF_vars(AcquireLock(r)) /\ WF_vars(Statement(r)) /\ WF_vars(Settle(r))
       /\ \A c \in Callers[r] : WF_vars(Setup(r, c))

-----------------------------------------------------------------------------
(* Properties.                                                             *)

\* A replica that says it is initialized works on a schema of its version whose
\* fence is active and whose tables exist, committed, whoever created them.
InitializedMeansMigrated ==
  \A r \in Replicas : initialized[r] =>
    version = CURRENT_SCHEMA_VERSION /\ Schema \subseteq objects

\* Replicas that start together never fail because of one another: none finds an
\* object that it has just been told is missing.
MigrationsNeverCollide == \A r \in Replicas : answer[r] # "exists"

\* A fresh schema or a migrated one.
Usable ==
  \/ objects = {}
  \/ version = CURRENT_SCHEMA_VERSION /\ {"schema_version", "fence"} \subseteq objects

\* Over a fresh or migrated schema every replica is initialized in the end,
\* whichever statements failed before, and everyone who called setup hears of it.
EventuallyInitialized ==
  Usable => <>(\A r \in Replicas : /\ initialized[r]
                                   /\ \A c \in Callers[r] : caller[r][c] = "ok")

\* An event is read at the latest version exactly when the upcasters lead there, in
\* whatever order they were registered; it is refused, not returned in between, when
\* they do not, and left alone when it is as new as they are.
UpcastReachesLatest ==
  \A stored \in 1..MaxSchemaVersion :
    upcast(registry, stored) =
      IF registry = <<>> \/ stored >= latestVersion(registry) THEN stored
      ELSE IF PathExists(registry, stored, latestVersion(registry))
           THEN latestVersion(registry) ELSE Refused
=============================================================================
