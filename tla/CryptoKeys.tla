------------------------------ MODULE CryptoKeys ----------------------------
(***************************************************************************)
(* Per-entity encryption keys: the crypto_keys table, its row locks, the   *)
(* appends that encrypt under them, revocation (crypto-shredding), the     *)
(* reads that decrypt, and the rotation of the secrets that wrap the keys. *)
(*                                                                         *)
(* Each process runs one operation at a time, one SQL statement per step.  *)
(* A field encrypted under an entity key is decrypted with the same key    *)
(* material and no other; the material is stored in an envelope that only  *)
(* the secret of its version opens.                                        *)
(***************************************************************************)
EXTENDS Integers

CONSTANTS
  Processes,   \* application replicas
  Keys,        \* entity key ids, ordered as JavaScript orders them
  Nobody,      \* a row that is not locked; material that is not there
  LastPhase,   \* bound: how far a rotation goes, 1 being none at all
  MaxAppends   \* bound: appends that are started

ASSUME CryptoKeysAssumption ==
  /\ Nobody \notin Processes
  /\ Keys \subseteq Nat
  /\ LastPhase \in 1..4
  /\ MaxAppends \in Nat

VARIABLES
  (* The database. *)
  keyRow,    \* crypto_keys: [status, version, material]
  rowLock,   \* rowLock[k]: process whose transaction has locked row k
  events,    \* committed encrypted events: [append, key, material]
  (* Configuration. *)
  phase,     \* phase[p]: how far the rotation from secret 1 to 2 is at p
  (* The operation each process runs. *)
  op,
  serial,    \* number of its append
  toLock,    \* keys its append has still to lock
  toEncrypt, \* keys its append has still to encrypt an event with
  rewrapped, \* keys whose envelope it has rewrapped, uncommitted
  prepared,  \* its encrypted rows, uncommitted
  target,    \* key it revokes, uncommitted
  toRead,    \* rows its load has still to process
  keyCache,  \* material of the keys its load has looked up
  shown,     \* keys of the events it has returned decrypted or redacted
  (* Bound. *)
  started

appendVars == <<serial, toLock, toEncrypt, rewrapped, prepared, started>>
readVars == <<toRead, keyCache, shown>>
vars == <<keyRow, rowLock, events, phase, op, appendVars, target, readVars>>

Absent  == [status |-> "absent",  version |-> 0, material |-> Nobody]
Revoked == [status |-> "revoked", version |-> 0, material |-> Nobody]
NoShown == [decrypted |-> {}, redacted |-> {}]

KeyRows == [status : {"absent", "active", "revoked"}, version : 0..2,
            material : Processes \cup {Nobody}]
Rows == [append : Nat, key : Keys, material : Processes \cup {Nobody}]

TypeOK ==
  /\ keyRow \in [Keys -> KeyRows]
  /\ rowLock \in [Keys -> Processes \cup {Nobody}]
  /\ events \subseteq Rows
  /\ phase \in [Processes -> 1..4]
  /\ op \in [Processes -> {"idle", "lock", "encrypt", "commit", "revoke", "commitRevoke",
                           "read", "failed"}]
  /\ serial \in [Processes -> Nat]
  /\ toLock \in [Processes -> SUBSET Keys]
  /\ toEncrypt \in [Processes -> SUBSET Keys]
  /\ rewrapped \in [Processes -> SUBSET Keys]
  /\ prepared \in [Processes -> SUBSET Rows]
  /\ target \in [Processes -> Keys \cup {Nobody}]
  /\ toRead \in [Processes -> SUBSET Rows]
  /\ keyCache \in [Processes -> SUBSET [key : Keys, material : Processes \cup {Nobody}]]
  /\ shown \in [Processes -> [decrypted : SUBSET Keys, redacted : SUBSET Keys]]
  /\ started \in Nat

Init ==
  /\ keyRow = [k \in Keys |-> Absent]
  /\ rowLock = [k \in Keys |-> Nobody]
  /\ events = {}
  /\ phase = [p \in Processes |-> 1]
  /\ op = [p \in Processes |-> "idle"]
  /\ serial = [p \in Processes |-> 0]
  /\ toLock = [p \in Processes |-> {}]
  /\ toEncrypt = [p \in Processes |-> {}]
  /\ rewrapped = [p \in Processes |-> {}]
  /\ prepared = [p \in Processes |-> {}]
  /\ target = [p \in Processes |-> Nobody]
  /\ toRead = [p \in Processes |-> {}]
  /\ keyCache = [p \in Processes |-> {}]
  /\ shown = [p \in Processes |-> NoShown]
  /\ started = 0

-----------------------------------------------------------------------------
(* The keyring of a process, which is fixed while it runs.                 *)

\* CryptoSecretsConfig in the four deployments of a rotation.
CurrentVersion(p) == IF phase[p] <= 2 THEN 1 ELSE 2
Secrets(p) == CASE phase[p] = 1 -> {1} [] phase[p] \in {2, 3} -> {1, 2} [] phase[p] = 4 -> {2}

\* The operator deploys the next configuration: one process after the other, each
\* phase everywhere before the next, and the last one only when no active envelope
\* is left at version 1.
Deploy(p) ==
  /\ op[p] = "idle"
  /\ phase[p] < LastPhase
  /\ \A q \in Processes : phase[q] >= phase[p]
  /\ phase[p] = 3 => \A k \in Keys : keyRow[k].version # 1
  /\ phase' = [phase EXCEPT ![p] = @ + 1]
  /\ UNCHANGED <<keyRow, rowLock, events, op, appendVars, target, readVars>>

-----------------------------------------------------------------------------
(* createKey.                                                              *)

\* Mutant: ON CONFLICT DO UPDATE.
CreateKey_Upsert(p, k) ==
  /\ op[p] = "idle"
  /\ keyRow[k].status # "revoked"
  /\ keyRow' = [keyRow EXCEPT ![k] =
       [status |-> "active", version |-> CurrentVersion(p), material |-> p]]
  /\ UNCHANGED <<rowLock, events, phase, op, appendVars, target, readVars>>

\* Fresh material in an envelope of the current version.  ON CONFLICT DO NOTHING
\* keeps an existing row, be it active or revoked.
CreateKey(p, k) ==
  /\ op[p] = "idle"
  /\ keyRow[k] = Absent
  /\ keyRow' = [keyRow EXCEPT ![k] =
       [status |-> "active", version |-> CurrentVersion(p), material |-> p]]
  /\ UNCHANGED <<rowLock, events, phase, op, appendVars, target, readVars>>

-----------------------------------------------------------------------------
(* An append of one encrypted event per key of some set of keys.           *)

StartAppend(p) ==
  /\ op[p] = "idle"
  /\ started < MaxAppends
  /\ \E K \in (SUBSET Keys) \ {{}} :
       /\ toLock' = [toLock EXCEPT ![p] = K]
       /\ toEncrypt' = [toEncrypt EXCEPT ![p] = K]
  /\ started' = started + 1
  /\ serial' = [serial EXCEPT ![p] = started + 1]
  /\ op' = [op EXCEPT ![p] = "lock"]
  /\ UNCHANGED <<keyRow, rowLock, events, phase, rewrapped, prepared, target, readVars>>

\* Mutant: the key is read without FOR UPDATE.
LockRow_PlainSelect(p, k) == UNCHANGED rowLock

\* SELECT ... FOR UPDATE waits for the transaction that has locked the row.
LockRow(p, k) ==
  /\ rowLock[k] \in {Nobody, p}
  /\ rowLock' = IF keyRow[k] = Absent THEN rowLock ELSE [rowLock EXCEPT ![k] = p]

\* Mutant: in the order of the events, which is any order.
NextKey_InputOrder(K) == K

\* lockKeysForEncryption sorts the key ids.
NextKey(K) == {k \in K : \A x \in K : k <= x}

\* A missing or a revoked key makes the append throw.
LockKeyForEncryption(p) ==
  /\ op[p] = "lock"
  /\ \E k \in NextKey(toLock[p]) :
       /\ LockRow(p, k)
       /\ toLock' = [toLock EXCEPT ![p] = @ \ {k}]
       /\ op' = [op EXCEPT ![p] = IF keyRow[k].status # "active" THEN "failed"
                                  ELSE IF toLock[p] = {k} THEN "encrypt" ELSE "lock"]
  /\ UNCHANGED <<keyRow, events, phase, serial, toEncrypt, rewrapped, prepared, started,
                 target, readVars>>

\* getKeyForEncryption: the envelope as this transaction sees it, opened with the
\* secret of its version, and rewrapped if that version is older than the current.
EnvelopeVersion(p, k) ==
  IF k \in rewrapped[p] THEN CurrentVersion(p) ELSE keyRow[k].version

\* prepareEventRow.  An event without any of the fields to encrypt is stored as a
\* plain one, although its key has been locked and rewrapped.
EncryptEvent(p) ==
  /\ op[p] = "encrypt"
  /\ \E k \in toEncrypt[p] :
       /\ LockRow(p, k)
       /\ IF keyRow[k].status # "active" \/ EnvelopeVersion(p, k) \notin Secrets(p)
          THEN /\ op' = [op EXCEPT ![p] = "failed"]
               /\ UNCHANGED <<toEncrypt, rewrapped, prepared>>
          ELSE /\ toEncrypt' = [toEncrypt EXCEPT ![p] = @ \ {k}]
               /\ rewrapped' = [rewrapped EXCEPT ![p] =
                    IF EnvelopeVersion(p, k) < CurrentVersion(p) THEN @ \cup {k} ELSE @]
               /\ \E rows \in SUBSET {[append |-> serial[p], key |-> k,
                                       material |-> keyRow[k].material]} :
                    prepared' = [prepared EXCEPT ![p] = @ \cup rows]
               /\ op' = [op EXCEPT ![p] = IF toEncrypt[p] = {k} THEN "commit" ELSE "encrypt"]
  /\ UNCHANGED <<keyRow, events, phase, serial, toLock, started, target, readVars>>

\* The transaction is over: its locks and everything uncommitted are gone.
EndOperation(p) ==
  /\ rowLock' = [k \in Keys |-> IF rowLock[k] = p THEN Nobody ELSE rowLock[k]]
  /\ op' = [op EXCEPT ![p] = "idle"]
  /\ serial' = [serial EXCEPT ![p] = 0]
  /\ toLock' = [toLock EXCEPT ![p] = {}]
  /\ toEncrypt' = [toEncrypt EXCEPT ![p] = {}]
  /\ rewrapped' = [rewrapped EXCEPT ![p] = {}]
  /\ prepared' = [prepared EXCEPT ![p] = {}]
  /\ target' = [target EXCEPT ![p] = Nobody]
  /\ toRead' = [toRead EXCEPT ![p] = {}]
  /\ keyCache' = [keyCache EXCEPT ![p] = {}]
  /\ shown' = [shown EXCEPT ![p] = NoShown]
  /\ UNCHANGED <<phase, started>>

CommitAppend(p) ==
  /\ op[p] = "commit"
  /\ events' = events \cup prepared[p]
  /\ keyRow' = [k \in Keys |-> IF k \in rewrapped[p]
                               THEN [keyRow[k] EXCEPT !.version = CurrentVersion(p)]
                               ELSE keyRow[k]]
  /\ EndOperation(p)

-----------------------------------------------------------------------------
(* revokeKey.                                                              *)

StartRevoke(p, k) ==
  /\ op[p] = "idle"
  /\ target' = [target EXCEPT ![p] = k]
  /\ op' = [op EXCEPT ![p] = "revoke"]
  /\ UNCHANGED <<keyRow, rowLock, events, phase, appendVars, readVars>>

\* The UPDATE waits for the row lock; it throws if there is no row.
UpdateRevoked(p) ==
  /\ op[p] = "revoke"
  /\ rowLock[target[p]] = Nobody
  /\ IF keyRow[target[p]] = Absent
     THEN /\ op' = [op EXCEPT ![p] = "failed"]
          /\ UNCHANGED rowLock
     ELSE /\ op' = [op EXCEPT ![p] = "commitRevoke"]
          /\ rowLock' = [rowLock EXCEPT ![target[p]] = p]
  /\ UNCHANGED <<keyRow, events, phase, appendVars, target, readVars>>

\* The material is destroyed together with setting revoked_at.
CommitRevoke(p) ==
  /\ op[p] = "commitRevoke"
  /\ keyRow' = [keyRow EXCEPT ![target[p]] = Revoked]
  /\ EndOperation(p)
  /\ UNCHANGED events

\* ROLLBACK, of what threw or because the process or its connection is gone.
Rollback(p) ==
  /\ op[p] # "idle"
  /\ EndOperation(p)
  /\ UNCHANGED <<keyRow, events>>

-----------------------------------------------------------------------------
(* A load: one query for the rows, and one for each key that is new to it. *)

StartRead(p) ==
  /\ op[p] = "idle"
  /\ events # {}
  /\ toRead' = [toRead EXCEPT ![p] = events]
  /\ op' = [op EXCEPT ![p] = "read"]
  /\ UNCHANGED <<keyRow, rowLock, events, phase, appendVars, target, keyCache, shown>>

\* Mutant: getKey for every row.
CachedKeys_None(p) == {}

\* keyCache of the running load.
CachedKeys(p) == {c.key : c \in keyCache[p]}

\* resolveDecryptionKey: what getKey reads, unless the key has been looked up.
\* Material Nobody stands for the null of a revoked key.
Resolved(p, k) ==
  IF k \in CachedKeys(p)
  THEN (CHOOSE c \in keyCache[p] : c.key = k).material
  ELSE keyRow[k].material

\* getKey throws: the row is missing, or the secret of its envelope is.
GetKeyThrows(p, k) ==
  /\ k \notin CachedKeys(p)
  /\ \/ keyRow[k] = Absent
     \/ keyRow[k].status = "active" /\ keyRow[k].version \notin Secrets(p)

\* processRow: a tombstone without the key; with another key than the event was
\* encrypted with, the authentication tag does not match and decryptFields throws.
ProcessRow(p) ==
  /\ op[p] = "read"
  /\ \E row \in toRead[p] :
       LET material == Resolved(p, row.key) IN
       IF GetKeyThrows(p, row.key) \/ material \notin {Nobody, row.material}
       THEN /\ op' = [op EXCEPT ![p] = "failed"]
            /\ UNCHANGED readVars
       ELSE /\ toRead' = [toRead EXCEPT ![p] = @ \ {row}]
            /\ keyCache' = [keyCache EXCEPT ![p] =
                              @ \cup {[key |-> row.key, material |-> material]}]
            /\ shown' = IF material = Nobody
                        THEN [shown EXCEPT ![p].redacted = @ \cup {row.key}]
                        ELSE [shown EXCEPT ![p].decrypted = @ \cup {row.key}]
            /\ UNCHANGED op
  /\ UNCHANGED <<keyRow, rowLock, events, phase, appendVars, target>>

ReturnRead(p) ==
  /\ op[p] = "read"
  /\ toRead[p] = {}
  /\ EndOperation(p)
  /\ UNCHANGED <<keyRow, events>>

-----------------------------------------------------------------------------
Statement(p) ==
  \/ LockKeyForEncryption(p)
  \/ EncryptEvent(p)
  \/ CommitAppend(p)
  \/ UpdateRevoked(p)
  \/ CommitRevoke(p)
  \/ ProcessRow(p)
  \/ ReturnRead(p)

Next ==
  \E p \in Processes :
    \/ Deploy(p)
    \/ StartAppend(p)
    \/ \E k \in Keys : CreateKey(p, k) \/ StartRevoke(p, k)
    \/ StartRead(p)
    \/ Statement(p)
    \/ Rollback(p)

Spec == Init /\ [][Next]_vars

-----------------------------------------------------------------------------
(* Properties.                                                             *)

\* Crypto-shredding: an append that encrypts under a key commits before the key
\* is revoked or not at all, and a revoked key never comes back, whatever the
\* order of locks, rewraps, revocations and repeated createKey calls.
NothingEncryptedAfterRevocation ==
  [][\A k \in Keys : keyRow[k] = Revoked =>
       /\ keyRow'[k] = Revoked
       /\ \A row \in events' \ events : row.key # k]_vars

\* An event whose key is not revoked can be decrypted by every replica, during a
\* rotation of the secrets and after it: the key row still holds the material it
\* was encrypted with, in an envelope that the keyring of each of them opens.
StaysReadable ==
  \A p \in Processes : \A row \in events \cup prepared[p] :
    keyRow[row.key] = Revoked \/
      /\ keyRow[row.key].material = row.material
      /\ \A q \in Processes : keyRow[row.key].version \in Secrets(q)

\* One load shows all events of an entity decrypted or all of them redacted, also
\* when the key is revoked between two of its rows.
LoadIsUniform ==
  \A p \in Processes : shown[p].decrypted \cap shown[p].redacted = {}

\* p waits for the transaction of q.
WaitsForRow(p, q) ==
  \/ op[p] = "lock" /\ \E k \in NextKey(toLock[p]) : rowLock[k] = q
  \/ op[p] = "revoke" /\ rowLock[target[p]] = q

\* Appends that encrypt under several keys and revocations never wait for each
\* other in a cycle: an append locks its key rows in the order of their ids, and
\* revokeKey locks a single one.
KeyLocksNeverDeadlock ==
  \A S \in (SUBSET Processes) \ {{}} :
    \E p \in S : \A q \in S \ {p} : ~WaitsForRow(p, q)
=============================================================================
