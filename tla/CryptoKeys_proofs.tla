-------------------------- MODULE CryptoKeys_proofs -------------------------
(***************************************************************************)
(* Entity keys, for any number of processes and keys.  Everything rests on *)
(* the row lock: whoever has prepared an event under a key, or rewrapped   *)
(* its envelope, has held the key's row since it found the key active, so  *)
(* that nobody can revoke it before the transaction is over.               *)
(***************************************************************************)
EXTENDS CryptoKeys, WellFoundedInduction, TLAPS

Active(k) == keyRow[k].status = "active"

\* A row holds material exactly while it is active.
KeyInv ==
  \A k \in Keys : \/ keyRow[k] = Absent
                  \/ keyRow[k] = Revoked
                  \/ /\ Active(k) /\ keyRow[k].version \in {1, 2}
                     /\ keyRow[k].material \in Processes

\* What each operation holds, and what that is worth.
Holds(p) ==
  /\ op[p] \in {"idle", "read", "revoke"} => \A k \in Keys : rowLock[k] # p
  /\ op[p] \in {"revoke", "commitRevoke"} => target[p] \in Keys
  /\ op[p] = "commitRevoke" => rowLock[target[p]] = p
  /\ op[p] \in {"idle", "lock", "read", "revoke", "commitRevoke"} =>
       prepared[p] = {} /\ rewrapped[p] = {}
  /\ op[p] = "lock" => \A k \in toEncrypt[p] \ toLock[p] : rowLock[k] = p /\ Active(k)
  /\ op[p] = "encrypt" => \A k \in toEncrypt[p] : rowLock[k] = p /\ Active(k)
  /\ \A k \in rewrapped[p] : rowLock[k] = p /\ Active(k) /\ phase[p] >= 3
  /\ \A row \in prepared[p] :
       /\ rowLock[row.key] = p /\ Active(row.key)
       /\ keyRow[row.key].material = row.material

HoldInv == \A p \in Processes : Holds(p)

\* An append holds only keys smaller than those it has still to lock.
InOrder(p) ==
  op[p] = "lock" =>
    \A k \in Keys : rowLock[k] = p => \A x \in toLock[p] : k < x

OrderInv == \A p \in Processes : InOrder(p)

\* Deployments are at most one phase apart, and no envelope is ahead of a keyring
\* or behind it.
PhaseInv ==
  /\ \A p, q \in Processes : phase[p] <= phase[q] + 1
  /\ \A k \in Keys : \A q \in Processes :
       /\ keyRow[k].version = 1 => phase[q] <= 3
       /\ keyRow[k].version = 2 => phase[q] >= 2

EventInv ==
  \A row \in events :
    keyRow[row.key] = Revoked \/ (Active(row.key) /\ keyRow[row.key].material = row.material)

\* What a load has returned, it has cached the key of.
ReadInv ==
  \A p \in Processes :
    /\ \A x, y \in keyCache[p] : x.key = y.key => x = y
    /\ \A k \in shown[p].decrypted : \E x \in keyCache[p] : x.key = k /\ x.material # Nobody
    /\ \A k \in shown[p].redacted : \E x \in keyCache[p] : x.key = k /\ x.material = Nobody

CInv == TypeOK /\ KeyInv /\ HoldInv /\ OrderInv /\ PhaseInv /\ EventInv /\ ReadInv

-----------------------------------------------------------------------------
LEMMA InitCInv == Init => CInv
<1> SUFFICES ASSUME Init PROVE CInv
  OBVIOUS
<1> USE CryptoKeysAssumption DEF Init
<1>1. TypeOK
  BY DEF TypeOK, KeyRows, Rows, Absent, NoShown
<1>2. KeyInv /\ HoldInv /\ OrderInv /\ EventInv
  BY DEF KeyInv, HoldInv, Holds, OrderInv, InOrder, EventInv, Active, Absent
<1>3. PhaseInv
  BY DEF PhaseInv, Absent
<1>4. ReadInv
  BY DEF ReadInv, NoShown
<1>. QED BY <1>1, <1>2, <1>3, <1>4 DEF CInv

\* A process whose own state and locks stand still keeps what it holds.
LEMMA OthersHold ==
  ASSUME CInv, NEW q \in Processes,
         op'[q] = op[q], toLock'[q] = toLock[q], toEncrypt'[q] = toEncrypt[q],
         prepared'[q] = prepared[q], rewrapped'[q] = rewrapped[q], target'[q] = target[q],
         phase'[q] = phase[q],
         \A k \in Keys : rowLock'[k] = q <=> rowLock[k] = q,
         \A k \in Keys : rowLock[k] = q => keyRow'[k] = keyRow[k]
  PROVE  Holds(q)' /\ InOrder(q)'
<1>1. Holds(q) /\ InOrder(q)
  BY DEF CInv, HoldInv, OrderInv
<1>2. /\ toEncrypt[q] \subseteq Keys /\ rewrapped[q] \subseteq Keys
      /\ \A row \in prepared[q] : row.key \in Keys
  BY DEF CInv, TypeOK, Rows
<1>3. \A k \in Keys : (rowLock[k] = q /\ Active(k)) => (rowLock'[k] = q /\ Active(k)')
  BY DEF Active
<1>4. \A k \in rewrapped[q] : rowLock'[k] = q /\ Active(k)' /\ phase'[q] >= 3
  BY <1>1, <1>2, <1>3 DEF Holds
<1>5. \A row \in prepared[q] : /\ rowLock'[row.key] = q /\ Active(row.key)'
                               /\ keyRow'[row.key].material = row.material
  BY <1>1, <1>2, <1>3 DEF Holds
<1>6. op[q] = "lock" => \A k \in toEncrypt[q] \ toLock[q] : rowLock'[k] = q /\ Active(k)'
  BY <1>1, <1>2, <1>3 DEF Holds
<1>7. op[q] = "encrypt" => \A k \in toEncrypt[q] : rowLock'[k] = q /\ Active(k)'
  BY <1>1, <1>2, <1>3 DEF Holds
<1>8. /\ op[q] \in {"idle", "read", "revoke"} => \A k \in Keys : rowLock'[k] # q
      /\ op[q] \in {"revoke", "commitRevoke"} => target[q] \in Keys
      /\ op[q] = "commitRevoke" => rowLock'[target[q]] = q
      /\ op[q] \in {"idle", "lock", "read", "revoke", "commitRevoke"} =>
           prepared[q] = {} /\ rewrapped[q] = {}
  BY <1>1 DEF Holds
<1>9. Holds(q)'
  BY <1>4, <1>5, <1>6, <1>7, <1>8 DEF Holds
<1>10. InOrder(q)'
  BY <1>1 DEF InOrder
<1>. QED BY <1>9, <1>10

LEMMA DeployCInv ==
  ASSUME CInv, NEW p \in Processes, Deploy(p)
  PROVE  CInv'
<1> USE CryptoKeysAssumption DEF CInv, Deploy, appendVars, readVars
<1>1. TypeOK'
  BY DEF TypeOK
<1>2. KeyInv' /\ OrderInv' /\ EventInv' /\ ReadInv'
  BY DEF KeyInv, OrderInv, InOrder, EventInv, ReadInv, Active
<1>3. HoldInv'
  BY DEF HoldInv, Holds, Active, TypeOK
<1>4. PhaseInv'
  <2>1. /\ phase'[p] = phase[p] + 1 /\ \A q \in Processes \ {p} : phase'[q] = phase[q]
        /\ \A q \in Processes : phase[q] \in 1..4 /\ phase[p] <= phase[q]
        /\ keyRow' = keyRow
    BY DEF TypeOK
  <2>2. \A q, r \in Processes : phase'[q] <= phase'[r] + 1
    BY <2>1 DEF PhaseInv
  <2>3. \A k \in Keys : \A q \in Processes :
          /\ keyRow[k].version = 1 => phase'[q] <= 3
          /\ keyRow[k].version = 2 => phase'[q] >= 2
    BY <2>1 DEF PhaseInv
  <2>. QED BY <2>1, <2>2, <2>3 DEF PhaseInv
<1>. QED BY <1>1, <1>2, <1>3, <1>4

LEMMA CreateKeyCInv ==
  ASSUME CInv, NEW p \in Processes, NEW k \in Keys, CreateKey(p, k)
  PROVE  CInv'
<1> USE CryptoKeysAssumption DEF CInv, CreateKey, appendVars, readVars
<1>1. CurrentVersion(p) \in {1, 2}
  BY DEF CurrentVersion
<1>2. TypeOK'
  BY <1>1 DEF TypeOK, KeyRows
<1>3. ~Active(k) /\ keyRow[k] # Revoked
  BY DEF Active, Absent, Revoked
<1>4. KeyInv'
  BY <1>1 DEF KeyInv, Active, TypeOK
<1>5. \A x \in Keys \ {k} : keyRow'[x] = keyRow[x]
  BY DEF TypeOK
<1>6. HoldInv' /\ OrderInv'
  BY <1>3, <1>5 DEF HoldInv, Holds, OrderInv, InOrder, Active, TypeOK, Rows
<1>7. PhaseInv'
  <2>1. keyRow'[k].version = CurrentVersion(p) /\ phase' = phase /\ phase \in [Processes -> 1..4]
    BY DEF TypeOK
  <2>2. \A q \in Processes : /\ CurrentVersion(p) = 1 => phase[q] <= 3
                             /\ CurrentVersion(p) = 2 => phase[q] >= 2
    BY <2>1 DEF PhaseInv, CurrentVersion
  <2>. QED BY <1>5, <2>1, <2>2 DEF PhaseInv
<1>8. EventInv' /\ ReadInv'
  BY <1>3, <1>5 DEF EventInv, ReadInv, Active, TypeOK, Rows
<1>. QED BY <1>2, <1>4, <1>6, <1>7, <1>8

LEMMA StartCInv ==
  ASSUME CInv, NEW p \in Processes,
         StartAppend(p) \/ StartRead(p) \/ \E k \in Keys : StartRevoke(p, k)
  PROVE  CInv'
<1> USE CryptoKeysAssumption DEF CInv, appendVars, readVars
<1>1. CASE StartAppend(p)
  <2> USE <1>1 DEF StartAppend
  <2>1. TypeOK'
    BY DEF TypeOK
  <2>2. KeyInv' /\ PhaseInv' /\ EventInv' /\ ReadInv'
    BY DEF KeyInv, PhaseInv, EventInv, ReadInv, Active
  <2>3. HoldInv' /\ OrderInv'
    BY DEF HoldInv, Holds, OrderInv, InOrder, Active, TypeOK
  <2>. QED BY <2>1, <2>2, <2>3
<1>2. CASE StartRead(p)
  <2> USE <1>2 DEF StartRead
  <2>1. TypeOK'
    BY DEF TypeOK
  <2>2. KeyInv' /\ PhaseInv' /\ EventInv' /\ ReadInv'
    BY DEF KeyInv, PhaseInv, EventInv, ReadInv, Active
  <2>3. HoldInv' /\ OrderInv'
    BY DEF HoldInv, Holds, OrderInv, InOrder, Active, TypeOK
  <2>. QED BY <2>1, <2>2, <2>3
<1>3. ASSUME NEW k \in Keys, StartRevoke(p, k) PROVE CInv'
  <2> USE <1>3 DEF StartRevoke
  <2>1. TypeOK'
    BY DEF TypeOK
  <2>2. KeyInv' /\ PhaseInv' /\ EventInv' /\ ReadInv'
    BY DEF KeyInv, PhaseInv, EventInv, ReadInv, Active
  <2>3. HoldInv' /\ OrderInv'
    BY DEF HoldInv, Holds, OrderInv, InOrder, Active, TypeOK
  <2>. QED BY <2>1, <2>2, <2>3
<1>. QED BY <1>1, <1>2, <1>3

LEMMA LockKeyCInv ==
  ASSUME CInv, NEW p \in Processes, LockKeyForEncryption(p)
  PROVE  CInv'
<1> USE CryptoKeysAssumption DEF CInv, readVars
<1>1. PICK k \in NextKey(toLock[p]) :
        /\ LockRow(p, k)
        /\ toLock' = [toLock EXCEPT ![p] = @ \ {k}]
        /\ op' = [op EXCEPT ![p] = IF keyRow[k].status # "active" THEN "failed"
                                   ELSE IF toLock[p] = {k} THEN "encrypt" ELSE "lock"]
  BY DEF LockKeyForEncryption
<1>2. /\ op[p] = "lock"
      /\ UNCHANGED <<keyRow, events, phase, serial, toEncrypt, rewrapped, prepared, started,
                     target, readVars>>
  BY DEF LockKeyForEncryption
<1>3. k \in toLock[p] /\ k \in Keys /\ \A x \in toLock[p] \ {k} : k < x
  BY <1>1 DEF NextKey, TypeOK
<1>4. /\ rowLock[k] \in {Nobody, p}
      /\ \A x \in Keys \ {k} : rowLock'[x] = rowLock[x]
      /\ rowLock'[k] \in {rowLock[k], p}
      /\ Active(k) => rowLock'[k] = p
      /\ rowLock' \in [Keys -> Processes \cup {Nobody}]
  BY <1>1, <1>3 DEF LockRow, TypeOK, Active, Absent
<1>5. TypeOK'
  BY <1>1, <1>2, <1>4 DEF TypeOK
<1>6. KeyInv' /\ PhaseInv' /\ EventInv' /\ ReadInv'
  BY <1>2 DEF KeyInv, PhaseInv, EventInv, ReadInv, Active
<1>7. /\ toLock'[p] = toLock[p] \ {k}
      /\ op'[p] = IF ~Active(k) THEN "failed" ELSE IF toLock[p] = {k} THEN "encrypt" ELSE "lock"
      /\ \A q \in Processes \ {p} : op'[q] = op[q] /\ toLock'[q] = toLock[q]
  BY <1>1 DEF TypeOK, Active
<1>8. \A q \in Processes \ {p} : \A x \in Keys : rowLock'[x] = q <=> rowLock[x] = q
  BY <1>3, <1>4
<1>9. \A x \in Keys : rowLock[x] = p => rowLock'[x] = p
  BY <1>3, <1>4
<1>10. HoldInv'
  <2>1. ASSUME NEW q \in Processes \ {p} PROVE Holds(q)'
    BY <1>2, <1>7, <1>8, <2>1, OthersHold
  <2>2. Holds(p)'
    BY <1>2, <1>3, <1>4, <1>7, <1>9 DEF HoldInv, Holds, Active, TypeOK, Rows
  <2>. QED BY <2>1, <2>2 DEF HoldInv, Holds
<1>11. OrderInv'
  <2>1. ASSUME NEW q \in Processes \ {p} PROVE InOrder(q)'
    BY <1>7, <1>8, <2>1 DEF OrderInv, InOrder
  <2>2. InOrder(p)'
    BY <1>2, <1>3, <1>4, <1>7 DEF OrderInv, InOrder
  <2>. QED BY <2>1, <2>2 DEF OrderInv
<1>. QED BY <1>5, <1>6, <1>10, <1>11

\* The key an append encrypts with is one it has locked and found active, so that
\* the row lock is its own already.
LEMMA EncryptCInv ==
  ASSUME CInv, NEW p \in Processes, EncryptEvent(p)
  PROVE  CInv'
<1> USE CryptoKeysAssumption DEF CInv, readVars
<1>1. PICK k \in toEncrypt[p] :
        /\ LockRow(p, k)
        /\ IF keyRow[k].status # "active" \/ EnvelopeVersion(p, k) \notin Secrets(p)
           THEN /\ op' = [op EXCEPT ![p] = "failed"]
                /\ UNCHANGED <<toEncrypt, rewrapped, prepared>>
           ELSE /\ toEncrypt' = [toEncrypt EXCEPT ![p] = @ \ {k}]
                /\ rewrapped' = [rewrapped EXCEPT ![p] =
                     IF EnvelopeVersion(p, k) < CurrentVersion(p) THEN @ \cup {k} ELSE @]
                /\ \E rows \in SUBSET {[append |-> serial[p], key |-> k,
                                        material |-> keyRow[k].material]} :
                     prepared' = [prepared EXCEPT ![p] = @ \cup rows]
                /\ op' = [op EXCEPT ![p] = IF toEncrypt[p] = {k} THEN "commit" ELSE "encrypt"]
  BY DEF EncryptEvent
<1>2. /\ op[p] = "encrypt"
      /\ UNCHANGED <<keyRow, events, phase, serial, toLock, started, target, readVars>>
  BY DEF EncryptEvent
<1>3. k \in Keys /\ rowLock[k] = p /\ Active(k) /\ keyRow[k] \in KeyRows
  BY <1>2 DEF HoldInv, Holds, TypeOK
<1>4. rowLock' = rowLock
  BY <1>1, <1>3 DEF LockRow, TypeOK
<1>5. KeyInv' /\ PhaseInv' /\ EventInv' /\ ReadInv'
  BY <1>2 DEF KeyInv, PhaseInv, EventInv, ReadInv, Active
<1>6. CASE op' = [op EXCEPT ![p] = "failed"] /\ UNCHANGED <<toEncrypt, rewrapped, prepared>>
  <2>1. TypeOK'
    BY <1>2, <1>4, <1>6 DEF TypeOK
  <2>2. HoldInv' /\ OrderInv'
    BY <1>2, <1>4, <1>6 DEF HoldInv, Holds, OrderInv, InOrder, Active, TypeOK
  <2>. QED BY <1>5, <2>1, <2>2
<1>7. ASSUME NEW rows \in SUBSET {[append |-> serial[p], key |-> k, material |-> keyRow[k].material]},
             prepared' = [prepared EXCEPT ![p] = @ \cup rows],
             toEncrypt' = [toEncrypt EXCEPT ![p] = @ \ {k}],
             rewrapped' = [rewrapped EXCEPT ![p] =
               IF EnvelopeVersion(p, k) < CurrentVersion(p) THEN @ \cup {k} ELSE @],
             op' = [op EXCEPT ![p] = IF toEncrypt[p] = {k} THEN "commit" ELSE "encrypt"]
      PROVE  CInv'
  <2>1. rows \subseteq Rows /\ \A row \in rows : row.key = k /\ row.material = keyRow[k].material
    BY <1>3, <1>7 DEF TypeOK, KeyRows, Rows
  <2>2. TypeOK'
    BY <1>2, <1>3, <1>4, <1>7, <2>1 DEF TypeOK
  <2>3. /\ prepared'[p] = prepared[p] \cup rows /\ toEncrypt'[p] \subseteq toEncrypt[p]
        /\ rewrapped'[p] \subseteq rewrapped[p] \cup {k}
        /\ rewrapped'[p] = rewrapped[p] \/ EnvelopeVersion(p, k) < CurrentVersion(p)
        /\ op'[p] \in {"commit", "encrypt"}
        /\ \A q \in Processes \ {p} : /\ prepared'[q] = prepared[q] /\ toEncrypt'[q] = toEncrypt[q]
                                      /\ rewrapped'[q] = rewrapped[q] /\ op'[q] = op[q]
    BY <1>7 DEF TypeOK
  <2>4. EnvelopeVersion(p, k) < CurrentVersion(p) => phase[p] >= 3
    <3>1. EnvelopeVersion(p, k) \in {CurrentVersion(p), 1, 2} /\ CurrentVersion(p) \in {1, 2}
      BY <1>3 DEF EnvelopeVersion, KeyInv, Active, CurrentVersion, Absent, Revoked
    <3>2. phase[p] \in 1..4
      BY DEF TypeOK
    <3>. QED BY <3>1, <3>2 DEF CurrentVersion
  <2>5. ASSUME NEW q \in Processes \ {p} PROVE Holds(q)'
    BY <1>2, <1>4, <2>3, <2>5 DEF HoldInv, Holds, Active
  <2>6. Holds(p)'
    BY <1>2, <1>3, <1>4, <2>1, <2>3, <2>4 DEF HoldInv, Holds, Active
  <2>7. HoldInv'
    BY <2>5, <2>6 DEF HoldInv
  <2>8. OrderInv'
    BY <1>2, <1>4, <2>3 DEF OrderInv, InOrder
  <2>. QED BY <1>5, <2>2, <2>7, <2>8
<1>. QED BY <1>1, <1>6, <1>7

\* What the end of an operation of p leaves of everything that is not a key row
\* or an event; those may only change where p holds the row.
LEMMA EndOperationCInv ==
  ASSUME CInv, NEW p \in Processes, EndOperation(p),
         keyRow' \in [Keys -> KeyRows], events' \subseteq Rows, KeyInv', PhaseInv', EventInv',
         \A k \in Keys : rowLock[k] # p => keyRow'[k] = keyRow[k]
  PROVE  CInv'
<1> USE CryptoKeysAssumption DEF CInv, EndOperation
<1>1. TypeOK'
  BY DEF TypeOK, NoShown
<1>2. /\ op'[p] = "idle" /\ prepared'[p] = {} /\ rewrapped'[p] = {} /\ keyCache'[p] = {}
      /\ shown'[p] = NoShown /\ phase' = phase
      /\ \A q \in Processes \ {p} :
           /\ op'[q] = op[q] /\ prepared'[q] = prepared[q] /\ rewrapped'[q] = rewrapped[q]
           /\ toLock'[q] = toLock[q] /\ toEncrypt'[q] = toEncrypt[q] /\ target'[q] = target[q]
           /\ keyCache'[q] = keyCache[q] /\ shown'[q] = shown[q]
  BY DEF TypeOK
<1>3. \A k \in Keys : /\ rowLock'[k] # p
                      /\ \A q \in Processes \ {p} : rowLock'[k] = q <=> rowLock[k] = q
  OBVIOUS
<1>4. ASSUME NEW q \in Processes \ {p} PROVE Holds(q)' /\ InOrder(q)'
  <2>1. \A k \in Keys : rowLock[k] = q => keyRow'[k] = keyRow[k]
    OBVIOUS
  <2> HIDE DEF CInv, EndOperation
  <2>. QED BY <1>2, <1>3, <2>1, OthersHold
<1>5. Holds(p)' /\ InOrder(p)'
  BY <1>2, <1>3 DEF Holds, InOrder
<1>6. ReadInv'
  BY <1>2 DEF ReadInv, NoShown
<1>. QED BY <1>1, <1>4, <1>5, <1>6 DEF HoldInv, OrderInv

LEMMA RollbackCInv ==
  ASSUME CInv, NEW p \in Processes, Rollback(p) \/ ReturnRead(p)
  PROVE  CInv'
<1>1. EndOperation(p) /\ UNCHANGED <<keyRow, events, phase>>
  BY DEF Rollback, ReturnRead, EndOperation
<1>2. KeyInv' /\ PhaseInv' /\ EventInv'
  BY <1>1 DEF CInv, KeyInv, PhaseInv, EventInv, Active
<1>. QED BY <1>1, <1>2, EndOperationCInv DEF CInv, TypeOK

LEMMA CommitAppendCInv ==
  ASSUME CInv, NEW p \in Processes, CommitAppend(p)
  PROVE  CInv'
<1>1. /\ events' = events \cup prepared[p]
      /\ keyRow' = [k \in Keys |-> IF k \in rewrapped[p]
                                   THEN [keyRow[k] EXCEPT !.version = CurrentVersion(p)]
                                   ELSE keyRow[k]]
      /\ EndOperation(p) /\ phase' = phase
  BY DEF CommitAppend, EndOperation
<1>2. \A k \in rewrapped[p] : rowLock[k] = p /\ Active(k) /\ CurrentVersion(p) = 2 /\ phase[p] >= 3
  <2>1. \A k \in rewrapped[p] : rowLock[k] = p /\ Active(k) /\ phase[p] >= 3
    <3>1. Holds(p)
      BY DEF CInv, HoldInv
    <3>. QED BY <3>1, Zenon DEF Holds
  <2>2. phase \in [Processes -> 1..4]
    BY DEF CInv, TypeOK
  <2>3. phase[p] \in Nat
    BY <2>2
  <2>. QED BY <2>1, <2>3 DEF CurrentVersion
<1>3. ASSUME NEW k \in Keys
      PROVE  /\ keyRow[k] \in KeyRows /\ keyRow'[k] \in KeyRows
             /\ Active(k)' = Active(k) /\ keyRow'[k].material = keyRow[k].material
             /\ keyRow'[k] = keyRow[k] \/ (k \in rewrapped[p] /\ keyRow'[k].version = 2)
  <2>1. keyRow[k] \in KeyRows
    BY DEF CInv, TypeOK
  <2>2. CASE k \in rewrapped[p]
    <3>1. keyRow'[k] = [keyRow[k] EXCEPT !.version = 2]
      BY <1>1, <1>2, <2>2
    <3>. QED BY <2>1, <2>2, <3>1 DEF KeyRows, Active
  <2>3. CASE k \notin rewrapped[p]
    BY <1>1, <2>1, <2>3 DEF Active
  <2>. QED BY <2>2, <2>3
<1>4. \A k \in Keys : keyRow[k] = Revoked => keyRow'[k] = Revoked
  BY <1>2, <1>3 DEF Active, Revoked
<1>5. prepared[p] \subseteq Rows /\ \A row \in prepared[p] \cup events : row.key \in Keys
  BY DEF CInv, TypeOK, Rows
<1>6. keyRow' \in [Keys -> KeyRows] /\ events' \subseteq Rows
  BY <1>1, <1>3, <1>5 DEF CInv, TypeOK
<1>7. KeyInv'
  BY <1>2, <1>3 DEF CInv, KeyInv, Active, Absent, Revoked
<1>8. PhaseInv'
  <2>1. \A q \in Processes : phase[p] >= 3 => phase[q] >= 2
    <3>1. \A q \in Processes : phase[q] \in 1..4 /\ phase[p] \in 1..4 /\ phase[p] <= phase[q] + 1
      BY DEF CInv, PhaseInv, TypeOK
    <3>. QED BY <3>1
  <2>. QED BY <1>1, <1>2, <1>3, <2>1 DEF CInv, PhaseInv
<1>9. EventInv'
  <2>1. \A row \in prepared[p] : Active(row.key) /\ keyRow[row.key].material = row.material
    BY DEF CInv, HoldInv, Holds
  <2>2. ASSUME NEW row \in events
        PROVE  keyRow[row.key] = Revoked \/ (Active(row.key) /\ keyRow[row.key].material = row.material)
    BY DEF CInv, EventInv
  <2>3. ASSUME NEW row \in events \cup prepared[p]
        PROVE  keyRow'[row.key] = Revoked
                 \/ (Active(row.key)' /\ keyRow'[row.key].material = row.material)
    BY <1>3, <1>4, <1>5, <2>1, <2>2
  <2>. QED BY <1>1, <2>3 DEF EventInv
<1>. QED BY <1>1, <1>2, <1>3, <1>6, <1>7, <1>8, <1>9, EndOperationCInv

LEMMA CommitRevokeCInv ==
  ASSUME CInv, NEW p \in Processes, CommitRevoke(p)
  PROVE  CInv'
<1>1. /\ op[p] = "commitRevoke" /\ keyRow' = [keyRow EXCEPT ![target[p]] = Revoked]
      /\ EndOperation(p) /\ events' = events /\ phase' = phase
  BY DEF CommitRevoke, EndOperation
<1>2. target[p] \in Keys /\ rowLock[target[p]] = p
  BY <1>1 DEF CInv, HoldInv, Holds
<1>3. /\ keyRow'[target[p]] = Revoked
      /\ \A k \in Keys \ {target[p]} : keyRow'[k] = keyRow[k]
      /\ keyRow' \in [Keys -> KeyRows]
  BY <1>1, <1>2 DEF CInv, TypeOK, KeyRows, Revoked
<1>4. KeyInv'
  BY <1>3 DEF CInv, KeyInv, Active
<1>5. PhaseInv'
  BY <1>1, <1>3 DEF CInv, PhaseInv, Revoked
<1>6. EventInv'
  <2>1. \A row \in events : row.key \in Keys
    BY DEF CInv, TypeOK, Rows
  <2>2. ASSUME NEW row \in events
        PROVE  keyRow'[row.key] = Revoked
                 \/ (Active(row.key)' /\ keyRow'[row.key].material = row.material)
    <3>1. keyRow[row.key] = Revoked \/ (Active(row.key) /\ keyRow[row.key].material = row.material)
      BY DEF CInv, EventInv
    <3>2. keyRow'[row.key] = Revoked \/ keyRow'[row.key] = keyRow[row.key]
      BY <1>3, <2>1
    <3>. QED BY <3>1, <3>2 DEF Active
  <2>. QED BY <1>1, <2>2 DEF EventInv
<1>7. \A k \in Keys : rowLock[k] # p => keyRow'[k] = keyRow[k]
  BY <1>2, <1>3
<1>8. events' \subseteq Rows
  BY <1>1 DEF CInv, TypeOK
<1>. QED BY <1>1, <1>3, <1>4, <1>5, <1>6, <1>7, <1>8, EndOperationCInv

LEMMA UpdateRevokedCInv ==
  ASSUME CInv, NEW p \in Processes, UpdateRevoked(p)
  PROVE  CInv'
<1> USE CryptoKeysAssumption DEF CInv, appendVars, readVars
<1>1. /\ op[p] = "revoke" /\ rowLock[target[p]] = Nobody
      /\ UNCHANGED <<keyRow, events, phase, appendVars, target, readVars>>
      /\ \/ op' = [op EXCEPT ![p] = "failed"] /\ rowLock' = rowLock
         \/ op' = [op EXCEPT ![p] = "commitRevoke"] /\ rowLock' = [rowLock EXCEPT ![target[p]] = p]
  BY DEF UpdateRevoked
<1>2. target[p] \in Keys /\ prepared[p] = {} /\ rewrapped[p] = {}
  BY <1>1 DEF HoldInv, Holds
<1>3. TypeOK'
  <2>1. /\ op' \in [Processes -> {"idle", "lock", "encrypt", "commit", "revoke", "commitRevoke",
                                 "read", "failed"}]
        /\ rowLock' \in [Keys -> Processes \cup {Nobody}]
    <3>1. /\ op \in [Processes -> {"idle", "lock", "encrypt", "commit", "revoke", "commitRevoke",
                                  "read", "failed"}]
          /\ rowLock \in [Keys -> Processes \cup {Nobody}]
      BY DEF TypeOK
    <3> HIDE DEF CInv
    <3>2. CASE op' = [op EXCEPT ![p] = "failed"] /\ rowLock' = rowLock
      BY <3>1, <3>2
    <3>3. CASE op' = [op EXCEPT ![p] = "commitRevoke"] /\ rowLock' = [rowLock EXCEPT ![target[p]] = p]
      BY <3>1, <3>3
    <3>. QED BY <1>1, <3>2, <3>3
  <2>. QED BY <1>1, <2>1 DEF TypeOK
<1>4. KeyInv' /\ PhaseInv' /\ EventInv' /\ ReadInv'
  BY <1>1 DEF KeyInv, PhaseInv, EventInv, ReadInv, Active
<1>5. /\ \A q \in Processes \ {p} : op'[q] = op[q] /\ \A k \in Keys : rowLock'[k] = q <=> rowLock[k] = q
      /\ op'[p] \in {"failed", "commitRevoke"}
      /\ op'[p] = "commitRevoke" => rowLock'[target[p]] = p
  BY <1>1, <1>2 DEF TypeOK
<1>6. ASSUME NEW q \in Processes \ {p} PROVE Holds(q)' /\ InOrder(q)'
  <2> HIDE DEF CInv
  <2>. QED BY <1>1, <1>5, OthersHold
<1>7. Holds(p)' /\ InOrder(p)'
  BY <1>1, <1>2, <1>5 DEF Holds, InOrder
<1>. QED BY <1>3, <1>4, <1>6, <1>7 DEF HoldInv, OrderInv

LEMMA ProcessRowCInv ==
  ASSUME CInv, NEW p \in Processes, ProcessRow(p)
  PROVE  CInv'
<1> USE CryptoKeysAssumption DEF CInv, appendVars, readVars
<1>1. /\ op[p] = "read"
      /\ UNCHANGED <<keyRow, rowLock, events, phase, appendVars, target>>
  BY DEF ProcessRow
<1>2. KeyInv' /\ PhaseInv' /\ EventInv'
  BY <1>1 DEF KeyInv, PhaseInv, EventInv, Active
<1>3. CASE op' = [op EXCEPT ![p] = "failed"] /\ UNCHANGED readVars
  <2>1. TypeOK'
    BY <1>1, <1>3 DEF TypeOK
  <2>2. HoldInv' /\ OrderInv'
    BY <1>1, <1>3 DEF HoldInv, Holds, OrderInv, InOrder, Active, TypeOK
  <2>3. ReadInv'
    BY <1>3 DEF ReadInv
  <2>. QED BY <1>2, <2>1, <2>2, <2>3
<1>4. ASSUME NEW row \in toRead[p], NEW material, material = Resolved(p, row.key),
             material \in {Nobody, row.material}, op' = op,
             toRead' = [toRead EXCEPT ![p] = @ \ {row}],
             keyCache' = [keyCache EXCEPT ![p] = @ \cup {[key |-> row.key, material |-> material]}],
             shown' = IF material = Nobody
                      THEN [shown EXCEPT ![p].redacted = @ \cup {row.key}]
                      ELSE [shown EXCEPT ![p].decrypted = @ \cup {row.key}]
      PROVE  CInv'
  <2>1. row \in Rows /\ row.key \in Keys /\ material \in Processes \cup {Nobody}
    BY <1>4 DEF TypeOK, Rows
  <2>2. TypeOK'
    <3>1. toRead' \in [Processes -> SUBSET Rows]
      BY <1>4 DEF TypeOK
    <3>2. keyCache' \in [Processes -> SUBSET [key : Keys, material : Processes \cup {Nobody}]]
      BY <1>4, <2>1 DEF TypeOK
    <3>3. shown' \in [Processes -> [decrypted : SUBSET Keys, redacted : SUBSET Keys]]
      <4>1. shown[p] \in [decrypted : SUBSET Keys, redacted : SUBSET Keys]
        BY DEF TypeOK
      <4>2. CASE material = Nobody
        BY <1>4, <2>1, <4>1, <4>2 DEF TypeOK
      <4>3. CASE material # Nobody
        BY <1>4, <2>1, <4>1, <4>3 DEF TypeOK
      <4>. QED BY <4>2, <4>3
    <3>. QED BY <1>1, <1>4, <3>1, <3>2, <3>3 DEF TypeOK
  <2>3. HoldInv' /\ OrderInv'
    BY <1>1, <1>4 DEF HoldInv, Holds, OrderInv, InOrder, Active
  <2>4. \A x \in keyCache[p] : x.key = row.key => x = [key |-> row.key, material |-> material]
    <3>1. SUFFICES ASSUME NEW x \in keyCache[p], x.key = row.key PROVE x.material = material
      BY DEF TypeOK
    <3>2. row.key \in CachedKeys(p)
      BY <3>1 DEF CachedKeys
    <3>3. (CHOOSE c \in keyCache[p] : c.key = row.key) = x
      BY <3>1 DEF ReadInv
    <3>. QED BY <1>4, <3>2, <3>3 DEF Resolved
  <2>5. /\ keyCache'[p] = keyCache[p] \cup {[key |-> row.key, material |-> material]}
        /\ shown'[p].decrypted \subseteq shown[p].decrypted \cup (IF material = Nobody THEN {} ELSE {row.key})
        /\ shown'[p].redacted \subseteq shown[p].redacted \cup (IF material = Nobody THEN {row.key} ELSE {})
        /\ \A q \in Processes \ {p} : keyCache'[q] = keyCache[q] /\ shown'[q] = shown[q]
    BY <1>4 DEF TypeOK
  <2>6. ReadInv'
    <3> DEFINE entry == [key |-> row.key, material |-> material]
    <3>1. \A x, y \in keyCache[p] \cup {entry} : x.key = y.key => x = y
      BY <2>4 DEF ReadInv
    <3>2. ASSUME NEW k \in shown'[p].decrypted
          PROVE  \E x \in keyCache[p] \cup {entry} : x.key = k /\ x.material # Nobody
      <4>1. CASE k \in shown[p].decrypted
        BY <4>1 DEF ReadInv
      <4>2. CASE k = row.key /\ material # Nobody
        <5>1. entry.key = k /\ entry.material # Nobody
          BY <4>2
        <5>. QED BY <5>1
      <4>. QED BY <2>5, <4>1, <4>2
    <3>3. ASSUME NEW k \in shown'[p].redacted
          PROVE  \E x \in keyCache[p] \cup {entry} : x.key = k /\ x.material = Nobody
      <4>1. CASE k \in shown[p].redacted
        BY <4>1 DEF ReadInv
      <4>2. CASE k = row.key /\ material = Nobody
        <5>1. entry.key = k /\ entry.material = Nobody
          BY <4>2
        <5>. QED BY <5>1
      <4>. QED BY <2>5, <4>1, <4>2
    <3>. HIDE DEF entry
    <3>4. keyCache'[p] = keyCache[p] \cup {entry}
      BY <2>5 DEF entry
    <3>. QED BY <2>5, <3>1, <3>2, <3>3, <3>4 DEF ReadInv
  <2>. QED BY <1>2, <2>2, <2>3, <2>6
<1>. QED BY <1>3, <1>4 DEF ProcessRow

LEMMA StepCInv == CInv /\ [Next]_vars => CInv'
<1> SUFFICES ASSUME CInv, [Next]_vars PROVE CInv'
  OBVIOUS
<1>1. ASSUME NEW p \in Processes, Deploy(p) \/ \E k \in Keys : CreateKey(p, k) PROVE CInv'
  BY <1>1, DeployCInv, CreateKeyCInv
<1>2. ASSUME NEW p \in Processes,
             StartAppend(p) \/ StartRead(p) \/ \E k \in Keys : StartRevoke(p, k)
      PROVE  CInv'
  BY <1>2, StartCInv
<1>3. ASSUME NEW p \in Processes, Statement(p) PROVE CInv'
  BY <1>3, LockKeyCInv, EncryptCInv, CommitAppendCInv, UpdateRevokedCInv, CommitRevokeCInv,
     ProcessRowCInv, RollbackCInv DEF Statement
<1>4. ASSUME NEW p \in Processes, Rollback(p) PROVE CInv'
  BY <1>4, RollbackCInv
<1>5. CASE UNCHANGED vars
  BY <1>5 DEF vars, appendVars, readVars, CInv, TypeOK, KeyInv, HoldInv, Holds, OrderInv, InOrder,
              PhaseInv, EventInv, ReadInv, Active
<1>. QED BY <1>1, <1>2, <1>3, <1>4, <1>5 DEF Next

THEOREM CInvariance == Spec => []CInv
BY InitCInv, StepCInv, PTL DEF Spec

\* All state stays within its types.
THEOREM TypeCorrect == Spec => []TypeOK
<1>1. CInv => TypeOK
  BY DEF CInv
<1>. QED BY <1>1, CInvariance, PTL

-----------------------------------------------------------------------------
\* Crypto-shredding: no append commits an event under a key that is revoked, and
\* no later createKey or rewrap brings the key back.
THEOREM RevocationIsFinal == Spec => NothingEncryptedAfterRevocation
<1> DEFINE Final == \A k \in Keys : keyRow[k] = Revoked =>
                      /\ keyRow'[k] = Revoked
                      /\ \A row \in events' \ events : row.key # k
<1>1. CInv /\ [Next]_vars => [Final]_vars
  <2> SUFFICES ASSUME CInv, Next, NEW k \in Keys, keyRow[k] = Revoked
               PROVE  keyRow'[k] = Revoked /\ \A row \in events' \ events : row.key # k
    BY DEF vars
  <2>1. ASSUME NEW p \in Processes, CommitAppend(p)
        PROVE  keyRow'[k] = Revoked /\ \A row \in events' \ events : row.key # k
    <3>1. Holds(p)
      BY DEF CInv, HoldInv
    <3>2. k \notin rewrapped[p] /\ \A row \in prepared[p] : row.key # k
      BY <3>1 DEF Holds, Active, Revoked
    <3>. QED BY <2>1, <3>2 DEF CommitAppend
  <2>2. ASSUME NEW p \in Processes, NEW i \in Keys, CreateKey(p, i)
        PROVE  keyRow'[k] = Revoked /\ events' = events
    <3>1. i # k
      BY <2>2 DEF CreateKey, Absent, Revoked
    <3>. QED BY <2>2, <3>1 DEF CreateKey, CInv, TypeOK
  <2>3. ASSUME NEW p \in Processes, CommitRevoke(p)
        PROVE  keyRow'[k] = Revoked /\ events' = events
    BY <2>3 DEF CommitRevoke, CInv, TypeOK
  <2>4. ASSUME NEW p \in Processes,
               \/ Deploy(p) \/ StartAppend(p) \/ StartRead(p) \/ Rollback(p)
               \/ \E i \in Keys : StartRevoke(p, i)
               \/ LockKeyForEncryption(p) \/ EncryptEvent(p)
               \/ UpdateRevoked(p) \/ ProcessRow(p) \/ ReturnRead(p)
        PROVE  keyRow' = keyRow /\ events' = events
    BY <2>4 DEF Deploy, StartAppend, StartRead, Rollback, StartRevoke, LockKeyForEncryption,
                EncryptEvent, UpdateRevoked, ProcessRow, ReturnRead
  <2>. QED BY <2>1, <2>2, <2>3, <2>4 DEF Next, Statement
<1>. QED BY <1>1, CInvariance, PTL DEF Spec, NothingEncryptedAfterRevocation

\* Every event under a key that is not revoked stays readable for every replica,
\* in each phase of a rotation of the secrets.
THEOREM Readable == Spec => []StaysReadable
<1>1. CInv => StaysReadable
  <2> SUFFICES ASSUME CInv, NEW p \in Processes, NEW row \in events \cup prepared[p],
                      keyRow[row.key] # Revoked, NEW q \in Processes
               PROVE  /\ keyRow[row.key].material = row.material
                      /\ keyRow[row.key].version \in Secrets(q)
    BY DEF StaysReadable
  <2>1. row.key \in Keys
    BY DEF CInv, TypeOK, Rows
  <2>2. Active(row.key) /\ keyRow[row.key].material = row.material
    BY DEF CInv, EventInv, HoldInv, Holds
  <2>3. keyRow[row.key].version \in {1, 2}
    BY <2>1, <2>2 DEF CInv, KeyInv, Active, Absent, Revoked
  <2>4. /\ phase[q] \in 1..4
        /\ keyRow[row.key].version = 1 => phase[q] <= 3
        /\ keyRow[row.key].version = 2 => phase[q] >= 2
    BY <2>1 DEF CInv, TypeOK, PhaseInv
  <2>5. phase[q] = 1 \/ phase[q] = 2 \/ phase[q] = 3 \/ phase[q] = 4
    BY <2>4
  <2>. QED BY <2>2, <2>3, <2>4, <2>5 DEF Secrets
<1>. QED BY <1>1, CInvariance, PTL

\* A load that has shown one event of an entity in clear shows them all, whenever
\* the key is revoked: it keeps what it looked up.
THEOREM Uniform == Spec => []LoadIsUniform
<1>1. CInv => LoadIsUniform
  <2> SUFFICES ASSUME CInv, NEW p \in Processes,
                      NEW k \in shown[p].decrypted \cap shown[p].redacted
               PROVE  FALSE
    BY DEF LoadIsUniform
  <2>1. ReadInv
    BY DEF CInv
  <2>2. PICK x \in keyCache[p] : x.key = k /\ x.material # Nobody
    BY <2>1 DEF ReadInv
  <2>3. PICK y \in keyCache[p] : y.key = k /\ y.material = Nobody
    BY <2>1 DEF ReadInv
  <2>. QED BY <2>1, <2>2, <2>3 DEF ReadInv
<1>. QED BY <1>1, CInvariance, PTL

-----------------------------------------------------------------------------
\* A set of numbers up to N that is not empty has a greatest element.
LEMMA GreatestElement ==
  ASSUME NEW N \in Nat, NEW W, W \subseteq 0..N, W # {}
  PROVE  \E k \in W : \A x \in W : ~(k < x)
<1> DEFINE Below == {n \in Nat : N - n \in W}
<1>1. Below \subseteq Nat /\ Below # {}
  <2>1. PICK k \in W : TRUE
    OBVIOUS
  <2>2. k \in 0..N /\ N - k \in Nat /\ N - (N - k) = k
    BY <2>1
  <2>3. N - k \in Below
    BY <2>1, <2>2
  <2>. QED BY <2>3
<1> HIDE DEF Below
<1>2. PICK n \in Below : \A m \in Below : ~(<<m, n>> \in OpToRel(<, Nat))
  BY <1>1, NatLessThanWellFounded, WFMin
<1>3. n \in Nat /\ N - n \in W
  BY DEF Below
<1>4. ASSUME NEW x \in W, N - n < x PROVE FALSE
  <2>1. x \in 0..N
    OBVIOUS
  <2>2. N - x \in Nat /\ N - (N - x) = x /\ N - x < n
    BY <1>3, <1>4, <2>1
  <2>3. N - x \in Below
    BY <2>2 DEF Below
  <2>4. <<N - x, n>> \in OpToRel(<, Nat)
    BY <1>3, <2>2 DEF OpToRel
  <2>. QED BY <1>2, <2>3, <2>4
<1>. QED BY <1>3, <1>4

\* Among processes that all wait for each other, take the greatest key that one of
\* them waits for: its holder waits for a greater one.
THEOREM NoDeadlock ==
  ASSUME NEW N \in Nat, Keys \subseteq 0..N
  PROVE  Spec => []KeyLocksNeverDeadlock
<1>1. CInv => KeyLocksNeverDeadlock
  <2> SUFFICES ASSUME CInv, NEW S \in SUBSET Processes, S # {},
                      \A p \in S : \E q \in S \ {p} : WaitsForRow(p, q)
               PROVE  FALSE
    BY DEF KeyLocksNeverDeadlock
  <2> DEFINE Awaited == {k \in Keys : /\ rowLock[k] \in S
                                     /\ \E p \in S : op[p] = "lock" /\ k \in toLock[p]}
  <2>1. ASSUME NEW k \in Keys, rowLock[k] \in S
        PROVE  \E x \in Awaited : k < x
    <3> DEFINE q == rowLock[k]
    <3>1. q \in S /\ q \in Processes
      BY <2>1
    <3>2. Holds(q) /\ InOrder(q)
      BY <3>1 DEF CInv, HoldInv, OrderInv
    <3>3. op[q] # "revoke"
      BY <2>1, <3>2 DEF Holds
    <3>4. PICK r \in S \ {q} : WaitsForRow(q, r)
      BY <3>1
    <3>5. PICK x \in NextKey(toLock[q]) : op[q] = "lock" /\ rowLock[x] = r
      BY <3>3, <3>4 DEF WaitsForRow
    <3>6. x \in toLock[q] /\ x \in Keys
      BY <3>1, <3>5 DEF NextKey, CInv, TypeOK
    <3>7. k < x
      BY <2>1, <3>2, <3>5, <3>6 DEF InOrder
    <3>8. x \in Awaited
      BY <3>1, <3>4, <3>5, <3>6
    <3>. QED BY <3>7, <3>8
  <2>2. Awaited # {}
    <3>1. PICK p \in S : TRUE
      OBVIOUS
    <3>2. PICK q \in S \ {p} : WaitsForRow(p, q)
      BY <3>1
    <3>3. \E k \in Keys : rowLock[k] \in S
      <4>1. CASE op[p] = "lock" /\ \E k \in NextKey(toLock[p]) : rowLock[k] = q
        BY <3>1, <3>2, <4>1 DEF NextKey, CInv, TypeOK
      <4>2. CASE op[p] = "revoke" /\ rowLock[target[p]] = q
        <5>1. target[p] \in Keys
          BY <3>1, <4>2 DEF CInv, HoldInv, Holds
        <5>. QED BY <3>2, <4>2, <5>1
      <4>. QED BY <3>2, <4>1, <4>2 DEF WaitsForRow
    <3>. QED BY <3>3, <2>1
  <2>3. Awaited \subseteq 0..N /\ \A k \in Awaited : k \in Keys /\ rowLock[k] \in S
    OBVIOUS
  <2>4. \A k \in Awaited : \E x \in Awaited : k < x
    BY <2>1, <2>3
  <2> HIDE DEF Awaited
  <2>5. PICK k \in Awaited : \A x \in Awaited : ~(k < x)
    BY <2>2, <2>3, GreatestElement
  <2>. QED BY <2>4, <2>5
<1>. QED BY <1>1, CInvariance, PTL
=============================================================================
