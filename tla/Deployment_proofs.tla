--------------------------- MODULE Deployment_proofs -----------------------
(***************************************************************************)
(* Setup is safe for any number of replicas, callers and faults: what      *)
(* setup answered is true for ever, and migrations never meet.  A replica  *)
(* has uncommitted objects only under the migration lock, so that what it  *)
(* read there stays as it was until it commits; a verifier reads without   *)
(* a lock, but nothing that it found is taken away again.                  *)
(*                                                                         *)
(* The registry is a chain for any upcasters in any order, and the one     *)
(* pass along a chain finds the path to its end if there is one.           *)
(***************************************************************************)
EXTENDS Deployment, FiniteSetTheorems, SequenceTheorems, WellFoundedInduction, TLAPS

AllObjects == {"schema_version"} \cup Schema

MigrationSteps ==
  {"metadata", "create version", "apply", "create events", "create support",
   "insert version", "relation", "number", "fence", "commit"}
VerificationSteps == {"relation", "number", "fence"}

TypeInv ==
  /\ lock \in Replicas \cup {NoReplica}
  /\ created \in [Replicas -> SUBSET (AllObjects \cup {"row"})]
  /\ step \in [Replicas -> MigrationSteps \cup {"idle", "lock", "rollback", "settle"}]
  /\ answer \in [Replicas -> {"none", "ok", "failed", "exists"}]
  /\ initialized \in [Replicas -> BOOLEAN]
  /\ setupPromise \in [Replicas -> {"none", "pending", "rejected"}]

\* What is committed is one of the databases one may start from, whatever has
\* happened since.
DatabaseInv == <<objects, version>> \in InitialDatabases

Migrated == version = CURRENT_SCHEMA_VERSION /\ AllObjects \subseteq objects

\* A transaction beyond its first statement holds the lock, and only such a one has
\* created objects.
LockInv(r) ==
  /\ r \in Migrators /\ step[r] \in MigrationSteps => lock = r
  /\ r \in Verifiers => step[r] \in VerificationSteps \cup {"idle", "settle"}
  /\ created[r] # {} => lock = r
  /\ lock = r => r \in Migrators
  /\ step[r] \in {"idle", "lock", "settle"} => lock # r

\* The promise of an attempt in progress is there for the next caller.
PromiseInv(r) == step[r] # "idle" => setupPromise[r] = "pending"

\* What migrator r has found or created once its migration is complete.
Complete(r) ==
  \/ objects = {} /\ created[r] = AllObjects \cup {"row"}
  \/ created[r] = {} /\ version = CURRENT_SCHEMA_VERSION

\* Each statement starts from what the ones before it have read and written.
MigrationInv(r) ==
  r \in Migrators =>
    /\ step[r] = "metadata" => created[r] = {}
    /\ step[r] = "create version" => created[r] = {} /\ objects = {}
    /\ step[r] = "apply" =>
         \/ objects = {} /\ created[r] = {"schema_version"}
         \/ "schema_version" \in objects /\ created[r] = {}
    /\ step[r] = "create events" => objects = {} /\ created[r] = {"schema_version"}
    /\ step[r] = "create support" =>
         objects = {} /\ created[r] = {"schema_version", "events", "fence"}
    /\ step[r] = "insert version" => objects = {} /\ created[r] = AllObjects
    /\ step[r] \in VerificationSteps => Complete(r)
    /\ step[r] = "commit" => Complete(r) /\ {"fence", "support"} \subseteq Sees(r)

VerificationInv(r) ==
  r \in Verifiers =>
    /\ step[r] \in {"number", "fence"} => "schema_version" \in objects
    /\ step[r] = "fence" => version = CURRENT_SCHEMA_VERSION

AnswerInv(r) ==
  /\ answer[r] = "ok" \/ initialized[r] => Migrated
  /\ answer[r] # "exists"

ReplicaInv(r) ==
  /\ LockInv(r) /\ PromiseInv(r)
  /\ MigrationInv(r) /\ VerificationInv(r) /\ AnswerInv(r)

IInv == TypeInv /\ DatabaseInv /\ \A r \in Replicas : ReplicaInv(r)

-----------------------------------------------------------------------------
LEMMA InitIInv == Init => IInv
<1> SUFFICES ASSUME Init PROVE IInv
  OBVIOUS
<1>1. TypeInv /\ DatabaseInv
  BY DEF Init, TypeInv, DatabaseInv, InitialDatabases
<1>2. ASSUME NEW r \in Replicas PROVE ReplicaInv(r)
  BY DeploymentAssumption
  DEF Init, ReplicaInv, LockInv, PromiseInv, MigrationInv, VerificationInv, AnswerInv,
      MigrationSteps, VerificationSteps
<1>. QED BY <1>1, <1>2 DEF IInv

\* The committed database, by cases.
LEMMA Databases ==
  ASSUME DatabaseInv
  PROVE  \/ objects = {} /\ version = 0
         \/ objects = AllObjects /\ version = 1
         \/ objects = AllObjects /\ version = 2
         \/ objects = Schema /\ version = 0
         \/ objects = {"schema_version", "events", "support"} /\ version = 1
  BY DEF DatabaseInv, InitialDatabases, AllObjects, CURRENT_SCHEMA_VERSION

-----------------------------------------------------------------------------
\* What a step of replica r that commits nothing leaves alone.
OthersUnchanged(r) ==
  /\ UNCHANGED <<objects, version>>
  /\ \A s \in Replicas \ {r} :
       /\ step'[s] = step[s] /\ created'[s] = created[s]
       /\ answer'[s] = answer[s] /\ initialized'[s] = initialized[s]
       /\ setupPromise'[s] = setupPromise[s]
       /\ lock = s <=> lock' = s

LEMMA SameReplica ==
  ASSUME NEW s \in Replicas, ReplicaInv(s),
         step'[s] = step[s], created'[s] = created[s], answer'[s] = answer[s],
         initialized'[s] = initialized[s], setupPromise'[s] = setupPromise[s],
         objects' = objects, version' = version, lock = s <=> lock' = s
  PROVE  ReplicaInv(s)'
<1>1. LockInv(s)' /\ PromiseInv(s)'
  BY DEF ReplicaInv, LockInv, PromiseInv
<1>2. MigrationInv(s)'
  BY DEF ReplicaInv, MigrationInv, Complete, Sees
<1>3. VerificationInv(s)' /\ AnswerInv(s)'
  BY DEF ReplicaInv, VerificationInv, AnswerInv, Migrated
<1>. QED BY <1>1, <1>2, <1>3 DEF ReplicaInv

LEMMA LocalStep ==
  ASSUME IInv, NEW r \in Replicas, TypeInv', OthersUnchanged(r), ReplicaInv(r)'
  PROVE  IInv'
<1>1. DatabaseInv'
  BY DEF IInv, DatabaseInv, OthersUnchanged, InitialDatabases
<1>2. ASSUME NEW s \in Replicas \ {r} PROVE ReplicaInv(s)'
  <2>1. ReplicaInv(s)
    BY DEF IInv
  <2>2. /\ step'[s] = step[s] /\ created'[s] = created[s] /\ answer'[s] = answer[s]
        /\ initialized'[s] = initialized[s] /\ setupPromise'[s] = setupPromise[s]
        /\ objects' = objects /\ version' = version
        /\ lock = s <=> lock' = s
    BY DEF OthersUnchanged
  <2>. QED BY <2>1, <2>2, SameReplica
<1>. QED BY <1>1, <1>2 DEF IInv

\* A statement that only reads, or throws, moves r on by what it has read.
LEMMA ReadStep ==
  ASSUME IInv, NEW r \in Replicas,
         ReadMetadata(r) \/ ReadVersion(r) \/ VerifyRelation(r) \/ VerifyVersion(r)
           \/ VerifyFence(r)
  PROVE  IInv'
<1> USE DEF GoTo, Throw, database, unchangedByStatements
<1>1. TypeInv /\ DatabaseInv /\ ReplicaInv(r)
  BY DEF IInv
<1>2. TypeInv' /\ OthersUnchanged(r)
  <2>1. OthersUnchanged(r)
    BY <1>1
    DEF ReadMetadata, ReadVersion, VerifyRelation, VerifyVersion, VerifyFence, TypeInv,
        OthersUnchanged
  <2>2. TypeInv'
    BY <1>1
    DEF ReadMetadata, ReadVersion, VerifyRelation, VerifyVersion, VerifyFence, TypeInv,
        MigrationSteps
  <2>. QED BY <2>1, <2>2
<1>3. LockInv(r)' /\ PromiseInv(r)'
  BY <1>1, DeploymentAssumption
  DEF ReadMetadata, ReadVersion, VerifyRelation, VerifyVersion, VerifyFence, TypeInv,
      ReplicaInv, LockInv, PromiseInv, MigrationSteps, VerificationSteps, Replicas
<1>4. /\ version \in Nat
      /\ objects = {} => version = 0
      /\ version < 1 => objects = {} \/ objects = Schema
      /\ version = 1 => "schema_version" \in objects
      /\ {"fence", "support"} \subseteq objects /\ version = 1 =>
           AllObjects \subseteq objects
  BY <1>1, Databases DEF AllObjects, Schema
<1>5. ASSUME ReadVersion(r)
      PROVE  /\ r \in Migrators
             /\ UNCHANGED <<objects, version, created, initialized>>
             /\ answer'[r] \in {answer[r], "failed"}
             /\ \/ step'[r] = "rollback"
                \/ /\ step'[r] = "create events"
                   /\ objects = {} /\ created[r] = {"schema_version"}
                \/ step'[r] = "relation" /\ created[r] = {} /\ version = 1
  <2>1. r \in Migrators /\ step[r] = "apply"
    BY <1>1, <1>5
    DEF ReadVersion, ReplicaInv, LockInv, VerificationSteps, Replicas
  <2>2. \/ objects = {} /\ created[r] = {"schema_version"}
        \/ "schema_version" \in objects /\ created[r] = {}
    BY <1>1, <2>1 DEF ReplicaInv, MigrationInv
  <2>3. /\ version < 1 => objects = {} /\ created[r] = {"schema_version"}
        /\ ~(version < 1) => created[r] = {}
    BY <1>4, <2>2 DEF Schema
  <2>4. version < 1 \/ version = 1 \/ version > 1
    BY <1>4
  <2> USE <1>1, <1>5, <2>1 DEF ReadVersion, TypeInv, CURRENT_SCHEMA_VERSION
  <2>5. CASE version < 1
    BY <1>4, <2>3, <2>5
  <2>6. CASE version = 1
    BY <2>3, <2>6
  <2>7. CASE version > 1
    BY <1>4, <2>7
  <2>. QED BY <2>4, <2>5, <2>6, <2>7
<1>6. MigrationInv(r)'
  <2> USE <1>1, <1>4
      DEF TypeInv, ReplicaInv, LockInv, MigrationInv, MigrationSteps, VerificationSteps
  <2>1. CASE ReadMetadata(r)
    <3>1. ASSUME r \in Migrators
          PROVE  /\ created'[r] = {} /\ objects' = objects
                 /\ \/ step'[r] = "apply" /\ "schema_version" \in objects
                    \/ step'[r] = "create version" /\ objects = {}
                    \/ step'[r] = "rollback"
      BY <2>1, <3>1 DEF ReadMetadata, Sees
    <3>. QED BY <3>1
  <2>2. CASE ReadVersion(r)
    BY <1>5, <2>2 DEF Complete, CURRENT_SCHEMA_VERSION
  <2>3. CASE VerifyRelation(r)
    BY <2>3 DEF VerifyRelation, Complete
  <2>4. CASE VerifyVersion(r)
    BY <2>4 DEF VerifyVersion, Complete
  <2>5. CASE VerifyFence(r)
    BY <2>5 DEF VerifyFence, Complete, Sees
  <2>. QED BY <2>1, <2>2, <2>3, <2>4, <2>5
<1>7. VerificationInv(r)' /\ AnswerInv(r)'
  <2> USE <1>1, <1>4
      DEF TypeInv, ReplicaInv, LockInv, VerificationInv, AnswerInv, Migrated
  <2>1. r \in Verifiers => created[r] = {} /\ r \notin Migrators
    BY DeploymentAssumption
  <2>2. CASE ReadMetadata(r)
    BY <2>2 DEF ReadMetadata
  <2>3. CASE ReadVersion(r)
    BY <1>5, <2>3, DeploymentAssumption
  <2>4. CASE VerifyRelation(r)
    BY <2>1, <2>4 DEF VerifyRelation, Sees
  <2>5. CASE VerifyVersion(r)
    BY <2>1, <2>5 DEF VerifyVersion, SeenVersion
  <2>6. CASE VerifyFence(r)
    <3>1. CASE r \in Migrators
      BY <2>1, <2>6, <3>1 DEF VerifyFence
    <3>2. CASE r \in Verifiers
      BY <2>1, <2>6, <3>2 DEF VerifyFence, Sees, CURRENT_SCHEMA_VERSION
    <3>. QED BY <3>1, <3>2 DEF Replicas
  <2>. QED BY <2>2, <2>3, <2>4, <2>5, <2>6
<1>. QED BY <1>2, <1>3, <1>6, <1>7, LocalStep DEF ReplicaInv

\* Nobody creates what is there.
LEMMA CreateStep ==
  ASSUME IInv, NEW r \in Replicas,
         CreateVersionTable(r) \/ CreateEvents(r) \/ CreateSupport(r) \/ InsertVersion(r)
  PROVE  IInv'
<1> USE DEF GoTo, Throw, unchangedByStatements, Create
<1>1. TypeInv /\ ReplicaInv(r)
  BY DEF IInv
<1>2. r \in Migrators /\ lock = r /\ step[r] \in MigrationSteps
  BY <1>1
  DEF CreateVersionTable, CreateEvents, CreateSupport, InsertVersion, ReplicaInv,
      LockInv, PromiseInv, MigrationSteps, VerificationSteps, Replicas
<1>3. PICK new, next :
        /\ created' = [created EXCEPT ![r] = @ \cup new]
        /\ step' = [step EXCEPT ![r] = next]
        /\ UNCHANGED <<objects, version, lock, answer, initialized, setupPromise>>
        /\ objects = {}
        /\ \/ step[r] = "create version" /\ next = "apply" /\ new = {"schema_version"}
           \/ step[r] = "create events" /\ next = "create support"
              /\ new = {"events", "fence"}
           \/ step[r] = "create support" /\ next = "insert version"
              /\ new = {"support"}
           \/ step[r] = "insert version" /\ next = "relation" /\ new = {"row"}
  <2> USE <1>1, <1>2 DEF TypeInv, ReplicaInv, MigrationInv, Sees, AllObjects, Schema
  <2>1. CASE CreateVersionTable(r)
    <3>1. {"schema_version"} \cap Sees(r) = {}
      BY <2>1 DEF CreateVersionTable
    <3>. QED BY <2>1, <3>1 DEF CreateVersionTable
  <2>2. CASE CreateEvents(r)
    <3>1. {"events", "fence"} \cap Sees(r) = {}
      BY <2>2 DEF CreateEvents
    <3>. QED BY <2>2, <3>1 DEF CreateEvents
  <2>3. CASE CreateSupport(r)
    <3>1. {"support"} \cap Sees(r) = {}
      BY <2>3 DEF CreateSupport
    <3>. QED BY <2>3, <3>1 DEF CreateSupport
  <2>4. CASE InsertVersion(r)
    <3>1. {"row"} \cap Sees(r) = {}
      BY <2>4 DEF InsertVersion
    <3>. QED BY <2>4, <3>1 DEF InsertVersion
  <2>. QED BY <2>1, <2>2, <2>3, <2>4
<1>4. TypeInv'
  <2>1. new \in SUBSET (AllObjects \cup {"row"}) /\ next \in MigrationSteps
    BY <1>3 DEF AllObjects, Schema, MigrationSteps
  <2>. QED BY <1>1, <1>3, <2>1 DEF TypeInv
<1>5. OthersUnchanged(r)
  BY <1>1, <1>3 DEF TypeInv, OthersUnchanged
<1>6. LockInv(r)' /\ PromiseInv(r)' /\ VerificationInv(r)' /\ AnswerInv(r)'
  BY <1>1, <1>2, <1>3, DeploymentAssumption
  DEF TypeInv, ReplicaInv, LockInv, PromiseInv, VerificationInv, AnswerInv, Migrated,
      MigrationSteps
<1>7. MigrationInv(r)'
  <2>1. step'[r] = next /\ created'[r] = created[r] \cup new /\ objects' = {}
    BY <1>1, <1>3 DEF TypeInv
  <2> USE <1>1, <1>2, <2>1
      DEF ReplicaInv, MigrationInv, Complete, VerificationSteps, AllObjects, Schema
  <2>2. CASE step[r] = "create version"
    BY <2>2, <1>3
  <2>3. CASE step[r] = "create events"
    BY <2>3, <1>3
  <2>4. CASE step[r] = "create support"
    BY <2>4, <1>3
  <2>5. CASE step[r] = "insert version"
    BY <2>5, <1>3
  <2>. QED BY <2>2, <2>3, <2>4, <2>5, <1>3
<1>. QED BY <1>4, <1>5, <1>6, <1>7, LocalStep DEF ReplicaInv

-----------------------------------------------------------------------------
\* A commit leaves a migrated database, or the one that was there; a verifier's
\* findings remain true, and no other migration is under way.
LEMMA CommitStep ==
  ASSUME IInv, NEW r \in Replicas, step[r] = "commit", CommitChanges(r),
         TypeInv', LockInv(r)', PromiseInv(r)', created'[r] = {},
         step'[r] \in {"settle", "rollback"},
         answer'[r] \in {"ok", "failed"}, initialized'[r] = initialized[r],
         setupPromise' = setupPromise,
         \A s \in Replicas \ {r} :
           /\ step'[s] = step[s] /\ answer'[s] = answer[s]
           /\ initialized'[s] = initialized[s]
  PROVE  IInv'
<1>1. ReplicaInv(r) /\ DatabaseInv /\ TypeInv
  BY DEF IInv
<1>2. /\ r \in Migrators /\ lock = r
      /\ Complete(r) /\ {"fence", "support"} \subseteq Sees(r)
  BY <1>1, DeploymentAssumption
  DEF ReplicaInv, LockInv, PromiseInv, MigrationInv, MigrationSteps, VerificationSteps,
      Replicas
<1>3. /\ \/ objects = {} /\ version = 0 /\ objects' = AllObjects
         \/ objects' = objects /\ version = 1 /\ objects = AllObjects
      /\ version' = 1
  BY <1>1, <1>2, Databases
  DEF CommitChanges, Complete, Sees, SeenVersion, AllObjects, Schema,
      CURRENT_SCHEMA_VERSION
<1>4. DatabaseInv'
  BY <1>3 DEF DatabaseInv, InitialDatabases, AllObjects, CURRENT_SCHEMA_VERSION
<1>5. Migrated'
  BY <1>3 DEF Migrated, CURRENT_SCHEMA_VERSION
<1>6. ReplicaInv(r)'
  BY <1>2, <1>5, DeploymentAssumption
  DEF ReplicaInv, MigrationInv, VerificationInv, AnswerInv, VerificationSteps
<1>7. ASSUME NEW s \in Replicas \ {r} PROVE ReplicaInv(s)'
  <2>1. ReplicaInv(s) /\ lock # s /\ created'[s] = created[s] /\ lock' # s
    BY <1>1, <1>2, DeploymentAssumption
    DEF IInv, TypeInv, CommitChanges, EndTransaction
  <2>2. LockInv(s)' /\ PromiseInv(s)' /\ AnswerInv(s)'
    BY <2>1, <1>5 DEF ReplicaInv, LockInv, PromiseInv, AnswerInv
  <2>3. MigrationInv(s)'
    BY <2>1 DEF ReplicaInv, LockInv, PromiseInv, MigrationInv, MigrationSteps,
                VerificationSteps
  <2>4. VerificationInv(s)'
    BY <2>1, <1>3
    DEF ReplicaInv, VerificationInv, AllObjects, CURRENT_SCHEMA_VERSION
  <2>. QED BY <2>2, <2>3, <2>4 DEF ReplicaInv
<1>. QED BY <1>4, <1>6, <1>7 DEF IInv

LEMMA TransactionStep ==
  ASSUME IInv, NEW r \in Replicas, AcquireLock(r) \/ Commit(r) \/ Rollback(r)
  PROVE  IInv'
<1>1. TypeInv /\ ReplicaInv(r)
  BY DEF IInv
<1>2. TypeInv'
  BY <1>1
  DEF AcquireLock, Commit, Rollback, CommitChanges, EndTransaction, GoTo, TypeInv,
      MigrationSteps, unchangedByStatements
<1>3. CASE AcquireLock(r)
  <2>1. OthersUnchanged(r)
    BY <1>1, <1>3, DeploymentAssumption
    DEF AcquireLock, OthersUnchanged, GoTo, TypeInv, unchangedByStatements
  <2>2. ReplicaInv(r)'
    BY <1>1, <1>3, DeploymentAssumption
    DEF AcquireLock, GoTo, TypeInv, unchangedByStatements, ReplicaInv, LockInv,
        PromiseInv, MigrationInv, VerificationInv, AnswerInv, Migrated, MigrationSteps,
        VerificationSteps, Replicas
  <2>. QED BY <1>2, <2>1, <2>2, LocalStep
<1>4. CASE Commit(r)
  <2>1. LockInv(r)' /\ PromiseInv(r)' /\ created'[r] = {}
    BY <1>1, <1>4, DeploymentAssumption
    DEF Commit, CommitChanges, EndTransaction, unchangedByStatements, TypeInv,
        ReplicaInv, LockInv, PromiseInv, MigrationSteps, VerificationSteps, Replicas
  <2>. QED BY <1>1, <1>2, <1>4, <2>1, CommitStep DEF Commit, TypeInv,
                                                     unchangedByStatements
<1>5. CASE Rollback(r)
  <2>1. OthersUnchanged(r)
    BY <1>1, <1>5, DeploymentAssumption
    DEF Rollback, EndTransaction, OthersUnchanged, GoTo, TypeInv, unchangedByStatements
  <2>2. ReplicaInv(r)'
    BY <1>1, <1>5, DeploymentAssumption
    DEF Rollback, EndTransaction, GoTo, TypeInv, unchangedByStatements, ReplicaInv,
        LockInv, PromiseInv, MigrationInv, VerificationInv, AnswerInv, Migrated,
        MigrationSteps, VerificationSteps, Replicas
  <2>. QED BY <1>2, <2>1, <2>2, LocalStep
<1>. QED BY <1>3, <1>4, <1>5

\* Callers, and the end of an attempt.
LEMMA ProcessStep ==
  ASSUME IInv, NEW r \in Replicas,
         Settle(r) \/ Crash(r) \/ \E c \in Callers[r] : Setup(r, c)
  PROVE  IInv'
<1>1. TypeInv /\ ReplicaInv(r)
  BY DEF IInv
<1>2. CASE Settle(r)
  <2> USE <1>1, <1>2 DEF Settle, TypeInv, database
  <2>1. TypeInv' /\ OthersUnchanged(r)
    BY DEF OthersUnchanged
  <2>2. LockInv(r)' /\ PromiseInv(r)'
    BY DEF ReplicaInv, LockInv, PromiseInv, VerificationSteps, MigrationSteps
  <2>3. MigrationInv(r)' /\ VerificationInv(r)' /\ AnswerInv(r)'
    BY DEF ReplicaInv, MigrationInv, VerificationInv, AnswerInv, Migrated,
           VerificationSteps
  <2>. QED BY <2>1, <2>2, <2>3, LocalStep DEF ReplicaInv
<1>3. CASE Crash(r)
  <2> USE <1>1, <1>3 DEF Crash, EndTransaction, TypeInv
  <2>1. TypeInv'
    OBVIOUS
  <2>2. OthersUnchanged(r)
    BY DeploymentAssumption DEF OthersUnchanged
  <2>3. LockInv(r)' /\ PromiseInv(r)'
    BY DeploymentAssumption
    DEF ReplicaInv, LockInv, PromiseInv, VerificationSteps, MigrationSteps
  <2>4. MigrationInv(r)' /\ VerificationInv(r)' /\ AnswerInv(r)'
    BY DEF ReplicaInv, MigrationInv, VerificationInv, AnswerInv, Migrated,
           VerificationSteps
  <2>. QED BY <2>1, <2>2, <2>3, <2>4, LocalStep DEF ReplicaInv
<1>4. ASSUME NEW c \in Callers[r], Setup(r, c) PROVE IInv'
  <2>1. /\ UNCHANGED <<database, initialized>>
        /\ \/ UNCHANGED <<step, answer, setupPromise>>
           \/ /\ setupPromise[r] # "pending"
              /\ setupPromise' = [setupPromise EXCEPT ![r] = "pending"]
              /\ step' = [step EXCEPT ![r] = IF r \in Verifiers THEN "relation" ELSE "lock"]
              /\ answer' = [answer EXCEPT ![r] = "none"]
    BY <1>4 DEF Setup
  <2>2. CASE UNCHANGED <<step, answer, setupPromise>>
    <3>1. TypeInv' /\ OthersUnchanged(r)
      BY <1>1, <2>1, <2>2 DEF TypeInv, OthersUnchanged, database
    <3>2. ReplicaInv(r)'
      BY <1>1, <2>1, <2>2, SameReplica DEF database
    <3>. QED BY <3>1, <3>2, LocalStep
  <2>3. CASE ~UNCHANGED <<step, answer, setupPromise>>
    <3> DEFINE first == IF r \in Verifiers THEN "relation" ELSE "lock"
    <3>1. /\ step[r] = "idle"
          /\ UNCHANGED <<objects, version, lock, created, initialized>>
          /\ setupPromise' = [setupPromise EXCEPT ![r] = "pending"]
          /\ step' = [step EXCEPT ![r] = first]
          /\ answer' = [answer EXCEPT ![r] = "none"]
      BY <1>1, <2>1, <2>3 DEF ReplicaInv, PromiseInv, database
    <3>2. \/ first = "relation" /\ r \in Verifiers
          \/ first = "lock" /\ r \in Migrators
      BY DEF Replicas
    <3> HIDE DEF first
    <3>3. TypeInv' /\ OthersUnchanged(r)
      BY <1>1, <3>1, <3>2 DEF TypeInv, OthersUnchanged, MigrationSteps
    <3>4. LockInv(r)' /\ PromiseInv(r)'
      BY <1>1, <3>1, <3>2, DeploymentAssumption
      DEF TypeInv, ReplicaInv, LockInv, PromiseInv, MigrationSteps, VerificationSteps
    <3>5. MigrationInv(r)' /\ VerificationInv(r)' /\ AnswerInv(r)'
      BY <1>1, <3>1, <3>2, DeploymentAssumption
      DEF TypeInv, ReplicaInv, MigrationInv, VerificationInv, AnswerInv, Migrated,
          VerificationSteps
    <3>. QED BY <3>3, <3>4, <3>5, LocalStep DEF ReplicaInv
  <2>. QED BY <2>2, <2>3
<1>. QED BY <1>2, <1>3, <1>4

LEMMA FaultStep ==
  ASSUME IInv, NEW r \in Replicas, StatementFails(r)
  PROVE  IInv'
<1>1. TypeInv /\ ReplicaInv(r)
  BY DEF IInv
<1>2. TypeInv'
  BY <1>1
  DEF StatementFails, Throw, CommitChanges, EndTransaction, TypeInv, database
<1>3. CASE UNCHANGED database
  <2>1. OthersUnchanged(r)
    BY <1>1, <1>3 DEF StatementFails, Throw, OthersUnchanged, TypeInv, database
  <2>2. ReplicaInv(r)'
    BY <1>1, <1>3, DeploymentAssumption
    DEF StatementFails, Throw, TypeInv, ReplicaInv, LockInv, PromiseInv, MigrationInv,
        VerificationInv, AnswerInv, Migrated, MigrationSteps, VerificationSteps,
        Replicas, database
  <2>. QED BY <1>2, <2>1, <2>2, LocalStep
<1>4. CASE step[r] = "commit" /\ CommitChanges(r)
  <2>1. LockInv(r)' /\ PromiseInv(r)' /\ created'[r] = {}
    BY <1>1, <1>4, DeploymentAssumption
    DEF StatementFails, Throw, CommitChanges, EndTransaction, TypeInv, ReplicaInv,
        LockInv, PromiseInv, MigrationSteps, VerificationSteps, Replicas
  <2>. QED BY <1>1, <1>2, <1>4, <2>1, CommitStep DEF StatementFails, Throw, TypeInv
<1>. QED BY <1>3, <1>4 DEF StatementFails

LEMMA NextIInv == IInv /\ [Next]_vars => IInv'
<1> SUFFICES ASSUME IInv, [Next]_vars PROVE IInv'
  OBVIOUS
<1>1. ASSUME NEW r \in Replicas, Statement(r) PROVE IInv'
  BY <1>1, ReadStep, CreateStep, TransactionStep DEF Statement
<1>2. CASE UNCHANGED <<database, store>>
  <2>1. TypeInv' /\ DatabaseInv'
    BY <1>2 DEF database, store, IInv, TypeInv, DatabaseInv, InitialDatabases
  <2>2. ASSUME NEW r \in Replicas PROVE ReplicaInv(r)'
    BY <1>2, SameReplica DEF database, store, IInv
  <2>. QED BY <2>1, <2>2 DEF IInv
<1>3. ASSUME NEW u \in ReleaseUpcasters, RegisterUpcaster(u) PROVE IInv'
  BY <1>2, <1>3 DEF RegisterUpcaster
<1>4. CASE UNCHANGED vars
  BY <1>2, <1>4 DEF vars
<1>. QED BY <1>1, <1>3, <1>4, ProcessStep, FaultStep DEF Next, Idle

LEMMA Invariant == Spec => []IInv
  BY InitIInv, NextIInv, PTL DEF Spec

-----------------------------------------------------------------------------
\* A replica that is initialized works on a schema of its version whose fence is
\* active, whoever migrated it, when, and whatever failed on the way.
THEOREM InitializedIsTrue == Spec => []InitializedMeansMigrated
<1>1. IInv => InitializedMeansMigrated
  BY DEF IInv, ReplicaInv, AnswerInv, Migrated, AllObjects, InitializedMeansMigrated
<1>. QED BY <1>1, Invariant, PTL

\* However many replicas migrate at once, none creates an object that another has
\* created since it looked.
THEOREM NeverCollide == Spec => []MigrationsNeverCollide
<1>1. IInv => MigrationsNeverCollide
  BY DEF IInv, ReplicaInv, AnswerInv, MigrationsNeverCollide
<1>. QED BY <1>1, Invariant, PTL

-----------------------------------------------------------------------------
(* Numbers.                                                                *)

LEMMA Smallest ==
  ASSUME NEW S \in SUBSET Nat, S # {}
  PROVE  \E p \in S : \A q \in S : p <= q
<1>1. PICK p \in S : \A q \in S : ~(<<q, p>> \in OpToRel(<, Nat))
  BY NatLessThanWellFounded, WFMin
<1>2. ASSUME NEW q \in S PROVE p <= q
  <2>1. ~(q < p)
    BY <1>1 DEF OpToRel
  <2>. QED BY <2>1
<1>. QED BY <1>2

LEMMA Largest ==
  ASSUME NEW S \in SUBSET Nat, S # {}, NEW n \in Nat, \A q \in S : q <= n
  PROVE  \E p \in S : \A q \in S : q <= p
<1> DEFINE Below == {m \in Nat : m <= n /\ n - m \in S}
<1>1. Below \in SUBSET Nat /\ Below # {}
  <2>1. PICK q \in S : TRUE
    OBVIOUS
  <2>2. n - q \in Nat /\ n - q <= n /\ n - (n - q) = q
    BY <2>1
  <2>. QED BY <2>1, <2>2
<1> HIDE DEF Below
<1>2. PICK m \in Below : \A k \in Below : m <= k
  BY <1>1, Smallest
<1>3. m \in Nat /\ m <= n /\ n - m \in S
  BY DEF Below
<1>4. ASSUME NEW q \in S PROVE q <= n - m
  <2>1. n - q \in Nat /\ n - q <= n /\ n - (n - q) = q
    OBVIOUS
  <2>2. m <= n - q
    BY <1>2, <2>1 DEF Below
  <2>. QED BY <1>3, <2>1, <2>2
<1>. QED BY <1>3, <1>4

LEMMA MaxIsLargest ==
  ASSUME NEW S \in SUBSET Nat, S # {}, NEW n \in Nat, \A q \in S : q <= n
  PROVE  Max(S) \in S /\ \A q \in S : q <= Max(S)
<1>1. PICK p \in S : \A q \in S : p >= q
  BY Largest
<1>. QED BY <1>1 DEF Max

\* Induction up to k, about a set of numbers.
LEMMA UpTo ==
  ASSUME NEW k \in Nat, NEW S, 0 \in S, \A i \in 1..k : i - 1 \in S => i \in S
  PROVE  \A i \in 0..k : i \in S
<1> DEFINE Missing == {i \in 0..k : i \notin S}
<1>1. SUFFICES ASSUME Missing # {} PROVE FALSE
  OBVIOUS
<1>2. Missing \in SUBSET Nat
  OBVIOUS
<1>3. PICK p \in Missing : \A q \in Missing : p <= q
  <2> HIDE DEF Missing
  <2>. QED BY <1>1, <1>2, Smallest
<1>4. p \in 1..k
  BY <1>3
<1>5. p - 1 \in 0..k /\ ~(p <= p - 1)
  BY <1>4
<1>6. p - 1 \in S
  BY <1>3, <1>5
<1>. QED BY <1>3, <1>4, <1>6

-----------------------------------------------------------------------------
(* The chain of upcasters.                                                 *)

Upcaster == [from : Nat, to : Nat]

\* What the registry keeps: sorted, from different versions, each a step up.
IsChain(chain) ==
  /\ chain \in Seq(Upcaster) /\ Increasing(chain)
  /\ \A i \in 1..Len(chain) : chain[i].from >= 1 /\ chain[i].to > chain[i].from

LEMMA ChainEntries ==
  ASSUME NEW chain, IsChain(chain)
  PROVE  /\ Len(chain) \in Nat /\ DOMAIN chain = 1..Len(chain)
         /\ \A i \in 1..Len(chain) :
              /\ chain[i] \in Upcaster
              /\ chain[i].from \in Nat /\ chain[i].to \in Nat
              /\ chain[i].from < chain[i].to
         /\ \A i, j \in 1..Len(chain) : i < j => chain[i].from < chain[j].from
         /\ Range(chain) = {chain[i] : i \in 1..Len(chain)}
<1>1. Len(chain) \in Nat /\ DOMAIN chain = 1..Len(chain)
  BY DEF IsChain
<1>2. ASSUME NEW i \in 1..Len(chain)
      PROVE  /\ chain[i] \in Upcaster
             /\ chain[i].from \in Nat /\ chain[i].to \in Nat
             /\ chain[i].from < chain[i].to
  <2>1. chain[i] \in Upcaster
    BY <1>1 DEF IsChain
  <2>. QED BY <2>1 DEF IsChain, Upcaster
<1>3. \A i, j \in 1..Len(chain) : i < j => chain[i].from < chain[j].from
  BY <1>1 DEF IsChain, Increasing
<1>4. Range(chain) = {chain[i] : i \in 1..Len(chain)}
  BY <1>1 DEF Range
<1>. QED BY <1>1, <1>2, <1>3, <1>4

\* There is a place for a new upcaster.
LEMMA PlaceExists ==
  ASSUME NEW chain, IsChain(chain), NEW from \in Nat,
         \A i \in 1..Len(chain) : chain[i].from # from
  PROVE  \E k \in 0..Len(chain) :
           /\ \A i \in 1..k : chain[i].from < from
           /\ \A i \in (k + 1)..Len(chain) : from < chain[i].from
<1> DEFINE n == Len(chain)
           Place(k, m) == /\ \A i \in 1..k : chain[i].from < from
                          /\ \A i \in (k + 1)..m : from < chain[i].from
           S == {m \in 0..n : \E k \in 0..m : Place(k, m)}
<1>1. n \in Nat /\ \A i \in 1..n : chain[i].from \in Nat
  BY ChainEntries
<1>2. 0 \in S
  <2>1. Place(0, 0) /\ 0 \in 0..0
    OBVIOUS
  <2>. QED BY <1>1, <2>1
<1>3. ASSUME NEW m \in 1..n, m - 1 \in S PROVE m \in S
  <2>1. PICK k \in 0..(m - 1) : Place(k, m - 1)
    BY <1>3
  <2>2. m \in 0..n /\ m \in 0..m /\ k \in 0..m /\ n \in Nat
    BY <1>1
  <2>3. CASE chain[m].from < from
    <3>1. ASSUME NEW i \in 1..m PROVE chain[i].from < from
      <4>1. i \in 1..n /\ (i = m \/ i < m)
        BY <1>1
      <4>2. i < m => chain[i].from < chain[m].from
        BY <4>1, ChainEntries
      <4>. QED BY <1>1, <2>3, <4>1, <4>2
    <3>2. Place(m, m)
      BY <2>2, <3>1
    <3>. QED BY <2>2, <3>2
  <2>4. CASE ~(chain[m].from < from)
    <3>1. from < chain[m].from
      BY <1>1, <2>4
    <3>2. \A i \in (k + 1)..m : i = m \/ i \in (k + 1)..(m - 1)
      BY <1>1
    <3>3. Place(k, m)
      BY <2>1, <3>1, <3>2
    <3>. QED BY <2>2, <3>3
  <2>. QED BY <2>3, <2>4
<1>4. n \in S
  <2>1. \A m \in 0..n : m \in S
    <3> HIDE DEF S, n
    <3>. QED BY <1>1, <1>2, <1>3, UpTo
  <2>2. n \in 0..n
    BY <1>1
  <2> HIDE DEF S, n
  <2>. QED BY <2>1, <2>2
<1>. QED BY <1>4

\* Sorting after a push keeps the chain a chain.
LEMMA InsertKeepsChain ==
  ASSUME NEW chain, IsChain(chain), NEW u \in Upcaster, Accepts(chain, u)
  PROVE  IsChain(Insert(chain, u))
<1> DEFINE n == Len(chain)
           entries == Range(chain) \cup {u}
           sorted == Insert(chain, u)
<1>1. /\ n \in Nat
      /\ Range(chain) = {chain[i] : i \in 1..n}
      /\ \A i \in 1..n : chain[i] \in Upcaster /\ chain[i].from \in Nat
      /\ \A i, j \in 1..n : i < j => chain[i].from < chain[j].from
  BY ChainEntries
<1>2. \A i \in 1..n : chain[i].from # u.from
  BY <1>1 DEF Accepts
<1>3. u.from \in Nat
  BY DEF Upcaster
<1>4. PICK k \in 0..n : /\ \A i \in 1..k : chain[i].from < u.from
                        /\ \A i \in (k + 1)..n : u.from < chain[i].from
  BY <1>2, <1>3, PlaceExists
<1> HIDE DEF n
<1> DEFINE t == [i \in 1..(n + 1) |-> IF i <= k THEN chain[i]
                                      ELSE IF i = k + 1 THEN u ELSE chain[i - 1]]
<1>5. ASSUME NEW i \in 1..(n + 1)
      PROVE  \/ i \in 1..k /\ i \in 1..n /\ t[i] = chain[i]
             \/ i = k + 1 /\ t[i] = u
             \/ i - 1 \in (k + 1)..n /\ i - 1 \in 1..n /\ t[i] = chain[i - 1]
  BY <1>1
<1>6. t \in [1..(n + 1) -> entries]
  BY <1>1, <1>5
<1>7. DOMAIN t = 1..(n + 1)
  OBVIOUS
<1>8. \A e \in entries : \E i \in 1..(n + 1) : t[i] = e
  <2>1. k + 1 \in 1..(n + 1) /\ t[k + 1] = u
    BY <1>1
  <2>2. ASSUME NEW i \in 1..n PROVE \E j \in 1..(n + 1) : t[j] = chain[i]
    <3>1. CASE i <= k
      <4>1. i \in 1..(n + 1) /\ t[i] = chain[i]
        BY <1>1, <3>1
      <4>. QED BY <4>1
    <3>2. CASE ~(i <= k)
      <4>1. i + 1 \in 1..(n + 1) /\ ~(i + 1 <= k) /\ i + 1 # k + 1 /\ (i + 1) - 1 = i
        BY <1>1, <3>2
      <4>2. t[i + 1] = chain[i]
        BY <4>1
      <4>. QED BY <4>1, <4>2
    <3>. QED BY <3>1, <3>2
  <2>. QED BY <1>1, <2>1, <2>2
<1> HIDE DEF t
<1>9. ASSUME NEW i \in 1..(n + 1), NEW j \in 1..(n + 1), i < j
      PROVE  t[i].from < t[j].from
  <2>1. CASE i \in 1..k /\ i \in 1..n /\ t[i] = chain[i]
    <3>1. CASE j \in 1..k /\ j \in 1..n /\ t[j] = chain[j]
      BY <1>1, <1>9, <2>1, <3>1
    <3>2. CASE j = k + 1 /\ t[j] = u
      BY <1>4, <2>1, <3>2
    <3>3. CASE j - 1 \in (k + 1)..n /\ j - 1 \in 1..n /\ t[j] = chain[j - 1]
      <4>1. t[i].from < u.from /\ u.from < t[j].from
        BY <1>4, <2>1, <3>3
      <4>2. t[i].from \in Nat /\ t[j].from \in Nat
        BY <1>1, <2>1, <3>3
      <4>. QED BY <1>3, <4>1, <4>2
    <3>. QED BY <1>5, <3>1, <3>2, <3>3
  <2>2. CASE i = k + 1 /\ t[i] = u
    <3>1. j \notin 1..k /\ j # k + 1
      BY <1>1, <1>9, <2>2
    <3>2. j - 1 \in (k + 1)..n /\ t[j] = chain[j - 1]
      BY <1>5, <3>1
    <3>. QED BY <1>4, <2>2, <3>2
  <2>3. CASE i - 1 \in (k + 1)..n /\ i - 1 \in 1..n /\ t[i] = chain[i - 1]
    <3>1. j \notin 1..k /\ j # k + 1
      BY <1>1, <1>9, <2>3
    <3>2. j - 1 \in 1..n /\ t[j] = chain[j - 1]
      BY <1>5, <3>1
    <3>3. i - 1 < j - 1
      BY <1>9
    <3>. QED BY <1>1, <2>3, <3>2, <3>3
  <2>. QED BY <1>5, <2>1, <2>2, <2>3
<1>10. Increasing(t)
  BY <1>7, <1>9 DEF Increasing
<1>11. \A i \in 1..(n + 1) : t[i].from \in Nat
  BY <1>1, <1>3, <1>5
<1>12. Cardinality(entries) = n + 1
  <2>1. \A i, j \in 1..(n + 1) : t[i] = t[j] => i = j
    <3>1. ASSUME NEW i \in 1..(n + 1), NEW j \in 1..(n + 1), i # j PROVE t[i] # t[j]
      <4>1. i < j \/ j < i
        BY <1>1, <3>1
      <4>2. t[i].from < t[j].from \/ t[j].from < t[i].from
        BY <1>9, <4>1
      <4>. QED BY <1>11, <4>2
    <3>. QED BY <3>1
  <2>2. ExistsBijection(1..(n + 1), entries)
    <3> HIDE DEF entries
    <3>1. t \in Injection(1..(n + 1), entries)
      BY <1>6, <2>1 DEF Injection, IsInjective
    <3>2. t \in Surjection(1..(n + 1), entries)
      BY <1>6, <1>8 DEF Surjection
    <3>. QED BY <3>1, <3>2 DEF ExistsBijection, Bijection
  <2>3. n + 1 \in Nat
    BY <1>1
  <2> HIDE DEF entries
  <2>. QED BY <2>2, <2>3, FS_CountingElements
<1>13. sorted \in [1..(n + 1) -> entries] /\ Increasing(sorted)
  <2>1. sorted = CHOOSE s \in [1..(n + 1) -> entries] : Increasing(s)
    BY <1>12 DEF Insert
  <2> HIDE DEF entries, sorted
  <2>. QED BY <1>6, <1>10, <2>1
<1>14. \A e \in entries : e \in Upcaster /\ e.from >= 1 /\ e.to > e.from
  <2>1. \A i \in 1..n : chain[i].from >= 1 /\ chain[i].to > chain[i].from
    BY DEF IsChain, n
  <2>2. u.from >= 1 /\ u.to > u.from
    BY DEF Accepts
  <2>. QED BY <1>1, <2>1, <2>2
<1> HIDE DEF entries, sorted
<1>15. sorted \in [1..(n + 1) -> Upcaster] /\ n + 1 \in Nat
  BY <1>1, <1>13, <1>14
<1>16. sorted \in Seq(Upcaster) /\ Len(sorted) = n + 1
  BY <1>15, SeqDef
<1>17. \A i \in 1..Len(sorted) : sorted[i].from >= 1 /\ sorted[i].to > sorted[i].from
  BY <1>13, <1>14, <1>16
<1>18. IsChain(sorted)
  BY <1>13, <1>16, <1>17 DEF IsChain
<1>. QED BY <1>18 DEF sorted

-----------------------------------------------------------------------------
(* The pass along the chain.                                               *)

\* The recursive function that upcast computes has the values it is defined by.
LEMMA VersionsSteps ==
  ASSUME NEW chain, IsChain(chain), NEW stored \in Nat
  PROVE  /\ Versions(chain, stored)[0] = stored
         /\ \A i \in 1..Len(chain) :
              Versions(chain, stored)[i] =
                IF chain[i].from = Versions(chain, stored)[i - 1] THEN chain[i].to
                ELSE Versions(chain, stored)[i - 1]
<1> DEFINE n == Len(chain)
           Follow(f, i) == IF i = 0 THEN stored
                           ELSE IF chain[i].from = f[i - 1] THEN chain[i].to
                           ELSE f[i - 1]
           S == {m \in 0..n : \E f : f = [i \in 0..m |-> Follow(f, i)]}
<1>1. n \in Nat
  BY ChainEntries
<1>2. 0 \in S
  <2> DEFINE f == [i \in 0..0 |-> stored]
  <2>1. \A i \in 0..0 : i = 0
    OBVIOUS
  <2>2. f = [i \in 0..0 |-> Follow(f, i)]
    BY <2>1
  <2>3. 0 \in 0..n
    BY <1>1
  <2>. QED BY <2>2, <2>3
<1>3. ASSUME NEW m \in 1..n, m - 1 \in S PROVE m \in S
  <2>1. PICK f : f = [i \in 0..(m - 1) |-> Follow(f, i)]
    BY <1>3
  <2> DEFINE last == IF chain[m].from = f[m - 1] THEN chain[m].to ELSE f[m - 1]
             g == [i \in 0..m |-> IF i = m THEN last ELSE f[i]]
  <2>2. ASSUME NEW i \in 0..m PROVE g[i] = Follow(g, i)
    <3>1. CASE i = m
      <4>1. m - 1 \in 0..m /\ m - 1 # m /\ m # 0
        BY <1>1
      <4>2. g[m - 1] = f[m - 1]
        BY <4>1
      <4>. QED BY <3>1, <4>1, <4>2
    <3>2. CASE i # m
      <4>1. i \in 0..(m - 1)
        BY <1>1, <3>2
      <4>2. f[i] = Follow(f, i)
        <5> HIDE DEF Follow
        <5>. QED BY <2>1, <4>1
      <4>3. i # 0 => i - 1 \in 0..m /\ i - 1 # m
        BY <1>1, <4>1
      <4>4. i # 0 => g[i - 1] = f[i - 1]
        BY <4>3
      <4>5. g[i] = f[i]
        BY <3>2
      <4> HIDE DEF g
      <4>. QED BY <4>2, <4>4, <4>5
    <3>. QED BY <3>1, <3>2
  <2>3. g = [i \in 0..m |-> g[i]]
    OBVIOUS
  <2>4. g = [i \in 0..m |-> Follow(g, i)]
    <3> HIDE DEF g, Follow
    <3>. QED BY <2>2, <2>3
  <2>5. m \in 0..n
    BY <1>1
  <2> HIDE DEF g, Follow
  <2>. QED BY <2>4, <2>5
<1>4. n \in S
  <2>1. \A m \in 0..n : m \in S
    <3> HIDE DEF S, n
    <3>. QED BY <1>1, <1>2, <1>3, UpTo
  <2>2. n \in 0..n
    BY <1>1
  <2> HIDE DEF S, n
  <2>. QED BY <2>1, <2>2
<1>5. PICK f : f = [i \in 0..n |-> Follow(f, i)]
  BY <1>4
<1> DEFINE v == Versions(chain, stored)
<1>6. v = [i \in 0..n |-> Follow(v, i)]
  BY <1>5 DEF Versions
<1> HIDE DEF v
<1>7. v[0] = stored
  <2>1. 0 \in 0..n
    BY <1>1
  <2>2. v[0] = Follow(v, 0)
    <3> HIDE DEF Follow, n
    <3>. QED BY <1>6, <2>1
  <2>. QED BY <2>2
<1>8. ASSUME NEW i \in 1..n
      PROVE  v[i] = IF chain[i].from = v[i - 1] THEN chain[i].to ELSE v[i - 1]
  <2>1. i \in 0..n /\ i # 0
    BY <1>1
  <2>2. v[i] = Follow(v, i)
    <3> HIDE DEF Follow, n
    <3>. QED BY <1>6, <2>1
  <2>. QED BY <2>1, <2>2
<1>. QED BY <1>7, <1>8 DEF v

LEMMA LatestVersion ==
  ASSUME NEW chain, IsChain(chain), chain # <<>>
  PROVE  /\ latestVersion(chain) \in Nat
         /\ \E i \in 1..Len(chain) : latestVersion(chain) = chain[i].to
         /\ \A i \in 1..Len(chain) : chain[i].to <= latestVersion(chain)
<1> DEFINE n == Len(chain)
           T == {chain[i].to : i \in 1..n}
           S == {m \in 0..n : \E b \in Nat : \A i \in 1..m : chain[i].to <= b}
<1>1. n \in Nat /\ \A i \in 1..n : chain[i].to \in Nat
  BY ChainEntries
<1>2. {u.to : u \in Range(chain)} = T
  <2>1. Range(chain) = {chain[i] : i \in 1..n}
    BY ChainEntries
  <2>. QED BY <2>1
<1>3. T \in SUBSET Nat /\ T # {}
  <2>1. 1 \in 1..n
    BY <1>1, EmptySeq DEF IsChain
  <2>. QED BY <1>1, <2>1
<1>4. 0 \in S
  <2>1. \A i \in 1..0 : FALSE
    OBVIOUS
  <2>2. 0 \in 0..n /\ 0 \in Nat
    BY <1>1
  <2>. QED BY <2>1, <2>2
<1>5. ASSUME NEW m \in 1..n, m - 1 \in S PROVE m \in S
  <2>1. PICK b \in Nat : \A i \in 1..(m - 1) : chain[i].to <= b
    BY <1>5
  <2> DEFINE c == IF chain[m].to <= b THEN b ELSE chain[m].to
  <2>2. c \in Nat /\ b <= c /\ chain[m].to <= c
    BY <1>1
  <2> HIDE DEF c
  <2>3. ASSUME NEW i \in 1..m PROVE chain[i].to <= c
    <3>1. i \in 1..n /\ (i = m \/ i \in 1..(m - 1))
      BY <1>1
    <3>. QED BY <1>1, <2>1, <2>2, <3>1
  <2>4. m \in 0..n
    BY <1>1
  <2>. QED BY <2>2, <2>3, <2>4
<1>6. n \in S
  <2>1. \A m \in 0..n : m \in S
    <3> HIDE DEF S, n
    <3>. QED BY <1>1, <1>4, <1>5, UpTo
  <2>2. n \in 0..n
    BY <1>1
  <2> HIDE DEF S, n
  <2>. QED BY <2>1, <2>2
<1>7. PICK b \in Nat : \A i \in 1..n : chain[i].to <= b
  BY <1>6
<1>8. \A q \in T : q <= b
  BY <1>7
<1>9. Max(T) \in T /\ \A q \in T : q <= Max(T)
  <2> HIDE DEF T
  <2>. QED BY <1>3, <1>8, MaxIsLargest
<1>10. latestVersion(chain) = Max(T)
  BY <1>2 DEF latestVersion
<1>11. \A i \in 1..n : chain[i].to \in T
  OBVIOUS
<1>12. \A q \in T : q \in Nat /\ \E i \in 1..n : q = chain[i].to
  BY <1>1
<1> HIDE DEF T
<1>. QED BY <1>9, <1>10, <1>11, <1>12

\* A version reached is the stored one or one that an upcaster before it ends at.
LEMMA VersionsType ==
  ASSUME NEW chain, IsChain(chain), NEW stored \in Nat, NEW i \in 0..Len(chain)
  PROVE  /\ Versions(chain, stored)[i] \in Nat
         /\ \/ Versions(chain, stored)[i] = stored
            \/ \E j \in 1..i : Versions(chain, stored)[i] = chain[j].to
<1> DEFINE n == Len(chain)
           v == Versions(chain, stored)
           Known(m) == v[m] \in Nat /\ (v[m] = stored \/ \E j \in 1..m : v[m] = chain[j].to)
           S == {m \in 0..n : Known(m)}
<1>1. n \in Nat /\ \A j \in 1..n : chain[j].to \in Nat
  BY ChainEntries
<1>2. /\ v[0] = stored
      /\ \A m \in 1..n :
           v[m] = IF chain[m].from = v[m - 1] THEN chain[m].to ELSE v[m - 1]
  BY VersionsSteps
<1> HIDE DEF v
<1>3. 0 \in S
  <2>1. 0 \in 0..n
    BY <1>1
  <2>. QED BY <1>2, <2>1
<1>4. ASSUME NEW m \in 1..n, m - 1 \in S PROVE m \in S
  <2>1. m \in 0..n /\ m \in 1..m /\ \A j \in 1..(m - 1) : j \in 1..m
    BY <1>1
  <2>2. Known(m - 1)
    BY <1>4
  <2>3. v[m] = chain[m].to \/ v[m] = v[m - 1]
    BY <1>2
  <2>. QED BY <1>1, <2>1, <2>2, <2>3
<1>5. i \in S
  <2> HIDE DEF S, n
  <2>. QED BY <1>1, <1>3, <1>4, UpTo DEF n
<1>. QED BY <1>5 DEF v

\* An event newer than every upcaster is left alone.
LEMMA NewIsLeftAlone ==
  ASSUME NEW chain, IsChain(chain), chain # <<>>, NEW stored \in Nat,
         stored >= latestVersion(chain)
  PROVE  Versions(chain, stored)[Len(chain)] = stored
<1> DEFINE n == Len(chain)
           v == Versions(chain, stored)
           S == {m \in 0..n : v[m] = stored}
<1>1. /\ n \in Nat
      /\ \A j \in 1..n : /\ chain[j].to \in Nat /\ chain[j].from \in Nat
                         /\ chain[j].from < chain[j].to
  BY ChainEntries
<1>2. /\ v[0] = stored
      /\ \A m \in 1..n :
           v[m] = IF chain[m].from = v[m - 1] THEN chain[m].to ELSE v[m - 1]
  BY VersionsSteps
<1>3. \A j \in 1..n : chain[j].from < stored
  <2>1. latestVersion(chain) \in Nat /\ \A j \in 1..n : chain[j].to <= latestVersion(chain)
    BY LatestVersion
  <2>. QED BY <1>1, <2>1
<1> HIDE DEF v
<1>4. 0 \in S
  <2>1. 0 \in 0..n
    BY <1>1
  <2>. QED BY <1>2, <2>1
<1>5. ASSUME NEW m \in 1..n, m - 1 \in S PROVE m \in S
  <2>1. m \in 0..n /\ v[m - 1] = stored
    BY <1>1, <1>5
  <2>2. chain[m].from # stored
    BY <1>1, <1>3
  <2>. QED BY <1>2, <2>1, <2>2
<1>6. n \in S
  <2>1. \A m \in 0..n : m \in S
    <3> HIDE DEF S, n
    <3>. QED BY <1>1, <1>4, <1>5, UpTo
  <2>2. n \in 0..n
    BY <1>1
  <2> HIDE DEF S, n
  <2>. QED BY <2>1, <2>2
<1>. QED BY <1>6 DEF v

\* Where there is a path, the pass follows it to its end.
LEMMA PathIsFollowed ==
  ASSUME NEW chain, IsChain(chain), chain # <<>>, NEW stored \in Nat,
         stored < latestVersion(chain),
         PathExists(chain, stored, latestVersion(chain))
  PROVE  Versions(chain, stored)[Len(chain)] = latestVersion(chain)
<1> DEFINE n == Len(chain)
           v == Versions(chain, stored)
           l == latestVersion(chain)
<1>1. /\ n \in Nat
      /\ \A j \in 1..n : /\ chain[j].to \in Nat /\ chain[j].from \in Nat
                         /\ chain[j].from < chain[j].to
      /\ \A i, j \in 1..n : i < j => chain[i].from < chain[j].from
      /\ Range(chain) = {chain[i] : i \in 1..n}
  BY ChainEntries
<1>2. /\ v[0] = stored
      /\ \A m \in 1..n :
           v[m] = IF chain[m].from = v[m - 1] THEN chain[m].to ELSE v[m - 1]
  BY VersionsSteps
<1>3. l \in Nat /\ \A j \in 1..n : chain[j].to <= l
  BY LatestVersion
<1>4. PICK path \in SUBSET Range(chain) :
        {u.from : u \in path} = ({stored} \cup {u.to : u \in path}) \ {l}
  BY DEF PathExists
<1> HIDE DEF v, l
<1> DEFINE Ahead(m) == \E j \in (m + 1)..n : chain[j] \in path /\ v[m] = chain[j].from
           S == {m \in 0..n : v[m] = l \/ Ahead(m)}
<1>5. \A w \in path : w.to = l \/ \E u \in path : u.from = w.to
  BY <1>4
<1>6. \A u \in path : \E j \in 1..n : u = chain[j]
  BY <1>1
<1>7. 0 \in S
  <2>1. \E u \in path : u.from = stored
    <3>1. stored # l
      BY <1>3 DEF l
    <3>2. stored \in {u.from : u \in path}
      BY <1>4, <3>1
    <3>. QED BY <3>2
  <2>2. PICK j \in 1..n : chain[j] \in path /\ chain[j].from = stored
    BY <1>6, <2>1
  <2>3. j \in (0 + 1)..n /\ 0 \in 0..n
    BY <1>1
  <2>. QED BY <1>2, <2>2, <2>3
<1>8. ASSUME NEW m \in 1..n, m - 1 \in S PROVE m \in S
  <2>1. m \in 0..n
    BY <1>1
  <2>2. CASE v[m - 1] = l
    <3>1. chain[m].from # l
      BY <1>1, <1>3
    <3>. QED BY <1>2, <2>1, <2>2, <3>1
  <2>3. CASE Ahead(m - 1)
    <3>1. PICK j \in m..n : chain[j] \in path /\ v[m - 1] = chain[j].from
      <4>1. (m - 1) + 1 = m
        BY <1>1
      <4>. QED BY <2>3, <4>1
    <3>2. j \in 1..n /\ (j = m \/ j \in (m + 1)..n)
      BY <1>1
    <3>3. CASE j = m
      <4>1. v[m] = chain[m].to
        BY <1>2, <3>1, <3>3
      <4>2. SUFFICES ASSUME v[m] # l PROVE m \in S
        BY <2>1
      <4>3. PICK i \in 1..n : chain[i] \in path /\ chain[i].from = chain[m].to
        BY <1>5, <1>6, <3>1, <3>3, <4>1, <4>2
      <4>4. chain[m].from < chain[i].from
        BY <1>1, <4>3
      <4>5. i > m
        <5>1. i < m => chain[i].from < chain[m].from
          BY <1>1
        <5>2. i # m /\ ~(i < m)
          BY <1>1, <4>4, <5>1
        <5>. QED BY <1>1, <5>2
      <4>6. i \in (m + 1)..n
        BY <1>1, <4>5
      <4>. QED BY <2>1, <4>1, <4>3, <4>6
    <3>4. CASE j \in (m + 1)..n
      <4>1. chain[m].from # chain[j].from
        <5>1. m < j
          BY <1>1, <3>4
        <5>. QED BY <1>1, <3>2, <5>1
      <4>2. v[m] = v[m - 1]
        BY <1>2, <3>1, <4>1
      <4>. QED BY <2>1, <3>1, <3>4, <4>2
    <3>. QED BY <3>2, <3>3, <3>4
  <2>. QED BY <1>8, <2>2, <2>3
<1>9. n \in S
  <2>1. \A m \in 0..n : m \in S
    <3> HIDE DEF S, n
    <3>. QED BY <1>1, <1>7, <1>8, UpTo
  <2>2. n \in 0..n
    BY <1>1
  <2> HIDE DEF S, n
  <2>. QED BY <2>1, <2>2
<1>10. ~Ahead(n)
  BY <1>1
<1>11. v[n] = l
  BY <1>9, <1>10
<1>. QED BY <1>11 DEF v, l

\* What the pass applies on its way to the latest version is a path.
LEMMA PassIsPath ==
  ASSUME NEW chain, IsChain(chain), chain # <<>>, NEW stored \in Nat,
         stored < latestVersion(chain),
         Versions(chain, stored)[Len(chain)] = latestVersion(chain)
  PROVE  PathExists(chain, stored, latestVersion(chain))
<1> DEFINE n == Len(chain)
           v == Versions(chain, stored)
           l == latestVersion(chain)
           Applied(i) == chain[i].from = v[i - 1]
           path == {chain[i] : i \in {j \in 1..n : Applied(j)}}
<1>1. /\ n \in Nat
      /\ \A j \in 1..n : /\ chain[j].to \in Nat /\ chain[j].from \in Nat
                         /\ chain[j].from < chain[j].to
      /\ Range(chain) = {chain[i] : i \in 1..n}
  BY ChainEntries
<1>2. /\ v[0] = stored /\ v[n] = l
      /\ \A m \in 1..n :
           v[m] = IF chain[m].from = v[m - 1] THEN chain[m].to ELSE v[m - 1]
  BY VersionsSteps
<1>3. l \in Nat /\ \A j \in 1..n : chain[j].to <= l
  BY LatestVersion
<1>4. path \in SUBSET Range(chain)
  BY <1>1
<1>5. stored # l
  BY <1>3
<1> HIDE DEF v, l
\* The version at m is left by an applied upcaster, or it is the last.
<1>6. ASSUME NEW m \in 0..n
      PROVE  v[m] = l \/ \E j \in 1..n : Applied(j) /\ chain[j].from = v[m]
  <2> DEFINE S == {k \in 0..n : k < m \/ v[k] = v[m]}
  <2>1. SUFFICES ASSUME \A j \in 1..n : ~(Applied(j) /\ chain[j].from = v[m])
                 PROVE  v[m] = l
    OBVIOUS
  <2>2. 0 \in S
    BY <1>1
  <2>3. ASSUME NEW k \in 1..n, k - 1 \in S PROVE k \in S
    <3>1. k \in 0..n
      BY <1>1
    <3>2. CASE k < m \/ k = m
      BY <3>1, <3>2
    <3>3. CASE ~(k < m \/ k = m)
      <4>1. v[k - 1] = v[m]
        BY <1>1, <2>3, <3>3
      <4>2. chain[k].from # v[k - 1]
        BY <2>1, <4>1
      <4>. QED BY <1>2, <3>1, <4>1, <4>2
    <3>. QED BY <3>2, <3>3
  <2>4. n \in S
    <3>1. \A k \in 0..n : k \in S
      <4> HIDE DEF S, n
      <4>. QED BY <1>1, <2>2, <2>3, UpTo
    <3>2. n \in 0..n
      BY <1>1
    <3> HIDE DEF S, n
    <3>. QED BY <3>1, <3>2
  <2>5. ~(n < m)
    BY <1>1
  <2>. QED BY <1>2, <2>4, <2>5
\* Conversely, it is the stored one or one that an applied upcaster ends at.
<1>7. ASSUME NEW m \in 0..n
      PROVE  v[m] = stored \/ \E j \in 1..n : Applied(j) /\ chain[j].to = v[m]
  <2> DEFINE S == {k \in 0..n :
                     v[k] = stored \/ \E j \in 1..n : Applied(j) /\ chain[j].to = v[k]}
  <2>1. 0 \in S
    <3>1. 0 \in 0..n
      BY <1>1
    <3>. QED BY <1>2, <3>1
  <2>2. ASSUME NEW k \in 1..n, k - 1 \in S PROVE k \in S
    <3>1. k \in 0..n
      BY <1>1
    <3>2. CASE Applied(k)
      BY <1>2, <3>1, <3>2
    <3>3. CASE ~Applied(k)
      <4>1. v[k] = v[k - 1]
        BY <1>2, <3>3
      <4>. QED BY <2>2, <3>1, <4>1
    <3>. QED BY <3>2, <3>3
  <2>3. m \in S
    <3> HIDE DEF S, n
    <3>. QED BY <1>1, <2>1, <2>2, UpTo DEF n
  <2>. QED BY <2>3
<1>8. \A j \in 1..n : Applied(j) => v[j] = chain[j].to
  BY <1>2
<1>9. {u.from : u \in path} = {chain[j].from : j \in {i \in 1..n : Applied(i)}}
  OBVIOUS
<1>10. {u.to : u \in path} = {chain[j].to : j \in {i \in 1..n : Applied(i)}}
  OBVIOUS
<1>11. ASSUME NEW j \in 1..n, Applied(j)
       PROVE  chain[j].from \in ({stored} \cup {u.to : u \in path}) \ {l}
  <2>1. chain[j].from # l
    BY <1>1, <1>3
  <2>2. j - 1 \in 0..n
    BY <1>1
  <2>3. v[j - 1] = stored \/ \E i \in 1..n : Applied(i) /\ chain[i].to = v[j - 1]
    BY <1>7, <2>2
  <2>. QED BY <1>10, <1>11, <2>1, <2>3
<1>12. ASSUME NEW j \in 1..n, Applied(j), chain[j].to # l
       PROVE  chain[j].to \in {u.from : u \in path}
  <2>1. j \in 0..n /\ v[j] = chain[j].to
    BY <1>1, <1>8, <1>12
  <2>2. \E i \in 1..n : Applied(i) /\ chain[i].from = v[j]
    BY <1>6, <1>12, <2>1
  <2>. QED BY <1>9, <2>1, <2>2
<1>13. stored \in {u.from : u \in path}
  <2>1. 0 \in 0..n
    BY <1>1
  <2>2. \E i \in 1..n : Applied(i) /\ chain[i].from = v[0]
    BY <1>2, <1>5, <1>6, <2>1
  <2>. QED BY <1>2, <1>9, <2>2
<1>14. {u.from : u \in path} = ({stored} \cup {u.to : u \in path}) \ {l}
  <2> HIDE DEF Applied
  <2>. QED BY <1>5, <1>9, <1>10, <1>11, <1>12, <1>13
<1>15. \E p \in SUBSET Range(chain) :
         {u.from : u \in p} = ({stored} \cup {u.to : u \in p}) \ {l}
  <2> HIDE DEF path
  <2>. QED BY <1>4, <1>14
<1>. QED BY <1>15 DEF PathExists, l

LEMMA UpcastOfChain ==
  ASSUME NEW chain, IsChain(chain), NEW stored \in Nat
  PROVE  upcast(chain, stored) =
           IF chain = <<>> \/ stored >= latestVersion(chain) THEN stored
           ELSE IF PathExists(chain, stored, latestVersion(chain))
                THEN latestVersion(chain) ELSE Refused
<1> DEFINE reached == Versions(chain, stored)[Len(chain)]
           l == latestVersion(chain)
<1>1. upcast(chain, stored) =
        IF chain # <<>> /\ stored < l /\ reached < l THEN Refused ELSE reached
  BY DEF upcast
<1>2. CASE chain = <<>>
  <2>1. reached = stored
    <3>1. Len(chain) = 0
      BY <1>2
    <3>. QED BY <3>1, VersionsSteps
  <2>. QED BY <1>1, <1>2, <2>1
<1>3. CASE chain # <<>> /\ stored >= l
  <2>1. reached = stored /\ l \in Nat
    BY <1>3, NewIsLeftAlone, LatestVersion
  <2> HIDE DEF reached, l
  <2>2. ~(stored < l)
    BY <1>3, <2>1
  <2>. QED BY <1>1, <1>3, <2>1, <2>2 DEF l
<1>4. CASE chain # <<>> /\ ~(stored >= l)
  <2>1. l \in Nat /\ \A i \in 1..Len(chain) : chain[i].to <= l
    BY <1>4, LatestVersion
  <2>2. stored < l
    <3> HIDE DEF l
    <3>. QED BY <1>4, <2>1
  <2>3. reached \in Nat /\ reached <= l
    <3>1. Len(chain) \in 0..Len(chain)
      BY ChainEntries
    <3>2. /\ reached \in Nat
          /\ reached = stored \/ \E j \in 1..Len(chain) : reached = chain[j].to
      BY <3>1, VersionsType
    <3> HIDE DEF reached, l
    <3>. QED BY <2>1, <2>2, <3>2
  <2>4. PathExists(chain, stored, l) <=> reached = l
    BY <1>4, <2>2, PathIsFollowed, PassIsPath
  <2> HIDE DEF reached, l
  <2>5. CASE reached = l
    <3>1. upcast(chain, stored) = l
      BY <1>1, <2>1, <2>5
    <3>. QED BY <1>4, <2>4, <2>5, <3>1 DEF l
  <2>6. CASE reached # l
    <3>1. upcast(chain, stored) = Refused
      BY <1>1, <1>4, <2>1, <2>2, <2>3, <2>6
    <3>. QED BY <1>4, <2>4, <2>6, <3>1 DEF l
  <2>. QED BY <2>5, <2>6
<1>. QED BY <1>2, <1>3, <1>4

-----------------------------------------------------------------------------
\* The registry is a chain, whatever is registered and refused.
LEMMA RegistryIsChain == Spec => []IsChain(registry)
<1>1. Init => IsChain(registry)
  <2> SUFFICES ASSUME Init PROVE IsChain(registry)
    OBVIOUS
  <2>1. registry = <<>> /\ <<>> \in Seq(Upcaster) /\ Len(<<>>) = 0 /\ DOMAIN <<>> = {}
    BY DEF Init
  <2>. QED BY <2>1 DEF IsChain, Increasing
<1>2. IsChain(registry) /\ [Next]_vars => IsChain(registry)'
  <2> SUFFICES ASSUME IsChain(registry), [Next]_vars PROVE IsChain(registry)'
    OBVIOUS
  <2>1. CASE registry' = registry
    BY <2>1 DEF IsChain, Increasing
  <2>2. ASSUME NEW u \in ReleaseUpcasters, RegisterUpcaster(u) PROVE IsChain(registry)'
    <3>1. u \in Upcaster /\ Accepts(registry, u) /\ registry' = Insert(registry, u)
      BY <2>2, DeploymentAssumption DEF DeploymentAssumption, RegisterUpcaster, Upcaster
    <3>2. IsChain(Insert(registry, u))
      BY <3>1, InsertKeepsChain
    <3>. QED BY <3>1, <3>2 DEF IsChain, Increasing
  <2>3. ASSUME NEW r \in Replicas, Statement(r) PROVE registry' = registry
    BY <2>3
    DEF Statement, Create, AcquireLock, ReadMetadata, CreateVersionTable, ReadVersion,
        CreateEvents, CreateSupport, InsertVersion, VerifyRelation, VerifyVersion,
        VerifyFence, Commit, Rollback, unchangedByStatements
  <2>4. ASSUME NEW r \in Replicas,
               Settle(r) \/ StatementFails(r) \/ Crash(r) \/ \E c \in Callers[r] : Setup(r, c)
        PROVE  registry' = registry
    BY <2>4 DEF Settle, StatementFails, Crash, Setup
  <2>. QED BY <2>1, <2>2, <2>3, <2>4 DEF Next, Idle, vars
<1>. QED BY <1>1, <1>2, PTL DEF Spec

\* An event of any version is read at the latest one exactly when the upcasters lead
\* there, refused when they do not, and left alone when it is as new as they are,
\* for any upcasters registered in any order (upcast and assertCompleteChain).
THEOREM UpcastIsComplete == Spec => []UpcastReachesLatest
<1>1. IsChain(registry) => UpcastReachesLatest
  <2> SUFFICES ASSUME IsChain(registry), NEW stored \in 1..MaxSchemaVersion
               PROVE  upcast(registry, stored) =
                        IF registry = <<>> \/ stored >= latestVersion(registry) THEN stored
                        ELSE IF PathExists(registry, stored, latestVersion(registry))
                             THEN latestVersion(registry) ELSE Refused
    BY DEF UpcastReachesLatest
  <2>1. stored \in Nat
    BY DeploymentAssumption DEF DeploymentAssumption
  <2>. QED BY <2>1, UpcastOfChain
<1>. QED BY <1>1, RegistryIsChain, PTL
=============================================================================
