------------------------------- MODULE Snapshots ----------------------------
(***************************************************************************)
(* Event-backed snapshots of one stream.                                   *)
(*                                                                         *)
(* Snapshots are events of the stream they shorten.  An append reads, in   *)
(* its own transaction, each registered snapshot whose source types it     *)
(* wrote, and appends a snapshot event once enough events were replayed.   *)
(* A load is two statements, the latest snapshot and the events after it,  *)
(* with no transaction around them; the key a snapshot is encrypted with   *)
(* may be revoked at any time.                                             *)
(*                                                                         *)
(* A state is the sequence of the versions that evolve was applied to, so  *)
(* that an event skipped or applied twice shows.                           *)
(***************************************************************************)
EXTENDS Integers, Sequences, FiniteSets, FiniteSetsExt

CONSTANTS
  SourceTypes,  \* event types of the domain
  Definitions,  \* registered snapshots, in the order of their registration
  Handles,      \* Handles[d]: source types with a handler in evolve
  Every,        \* Every[d]: replayed events that make a snapshot due
  Encrypted,    \* definitions with an encryption config
  MaxBatch,     \* bound: source events of one append
  MaxLength     \* bound: source events in the stream

ASSUME SnapshotsAssumption ==
  /\ Definitions \subseteq Nat \ {0}
  \* append refuses event types that end in "Snapshot".
  /\ SourceTypes \cap Definitions = {}
  /\ Encrypted \subseteq Definitions
  /\ Handles \in [Definitions -> SUBSET SourceTypes]
  /\ Every \in [Definitions -> Int]
  /\ MaxBatch \in Nat \ {0}

VARIABLES
  stream,   \* committed events: [type, state]; the type of a snapshot is its definition
  keyRevoked,
  (* The append in progress; the stream lock admits one. *)
  step,     \* "idle", "latest", "events", "write" or "commit"
  written,  \* its uncommitted events
  todo,     \* definitions it has still to maintain
  found,    \* what its last read returned: [state, version, replayed]
  keyLocked,\* its transaction has locked the key row
  (* A load running at the same time. *)
  loading,  \* definition it loads, 0 if none
  base,     \* snapshot base it has read: [state, version]
  loaded    \* results returned: [definition, state, version]

appendVars == <<step, written, todo, found, keyLocked>>
loadVars == <<loading, base, loaded>>
vars == <<stream, keyRevoked, appendVars, loadVars>>

NoState == <<>>

Init ==
  /\ stream = <<>>
  /\ keyRevoked = FALSE
  /\ step = "idle" /\ written = <<>> /\ todo = {} /\ keyLocked = FALSE
  /\ found = [state |-> NoState, version |-> 0, replayed |-> 0]
  /\ loading = 0
  /\ base = [state |-> NoState, version |-> 0]
  /\ loaded = <<>>

-----------------------------------------------------------------------------
(* Loading.                                                                *)

\* The versions of s with a handler, from version first on.
Sources(s, d, first) == {v \in DOMAIN s : v >= first /\ s[v].type \in Handles[d]}

\* ORDER BY stream_version: the i-th of them has i that are not greater.
Only(S) == CHOOSE x \in S : TRUE
Ascending(V) ==
  [i \in 1..Cardinality(V) |->
     Only({v \in V : Cardinality({u \in V : u <= v}) = i})]

\* Mutant: the latest snapshot of any definition.
SnapshotBase_AnySnapshot(s, d) ==
  LET versions == {v \in DOMAIN s : s[v].type \in Definitions}
  IN  IF versions = {} \/ (d \in Encrypted /\ keyRevoked)
      THEN [state |-> NoState, version |-> 0]
      ELSE [state |-> s[Max(versions)].state, version |-> Max(versions)]

\* Mutant: a tombstoned snapshot is a base without a state.
SnapshotBase_TombstoneAsBase(s, d) ==
  LET versions == {v \in DOMAIN s : s[v].type = d}
  IN  IF versions = {} THEN [state |-> NoState, version |-> 0]
      ELSE [state |-> IF d \in Encrypted /\ keyRevoked
                      THEN NoState ELSE s[Max(versions)].state,
            version |-> Max(versions)]

\* readLatestEventByType and getSnapshotBase: a tombstone is no base.  The key is
\* looked up after the row; one step for both is enough, because a key revoked in
\* between hides the row, whichever it was.
SnapshotBase(s, d) ==
  LET versions == {v \in DOMAIN s : s[v].type = d}
  IN  IF versions = {} \/ (d \in Encrypted /\ keyRevoked)
      THEN [state |-> NoState, version |-> 0]
      ELSE [state |-> s[Max(versions)].state, version |-> Max(versions)]

ReplayFrom(version) == version + 1

\* loadFrom and the fold over its rows.
Replay(s, d, from) ==
  LET rows == Sources(s, d, ReplayFrom(from.version))
  IN  [state    |-> from.state \o Ascending(rows),
       version  |-> Max({Len(s), from.version}),
       replayed |-> Cardinality(rows)]

StartLoad(d) ==
  /\ loading = 0
  /\ loading' = d
  /\ base' = SnapshotBase(stream, d)
  /\ UNCHANGED <<stream, keyRevoked, appendVars, loaded>>

FinishLoad ==
  /\ loading # 0
  /\ LET result == Replay(stream, loading, base)
     IN  loaded' = [definition |-> loading,
                    state |-> result.state, version |-> result.version]
  /\ loading' = 0
  /\ base' = [state |-> NoState, version |-> 0]
  /\ UNCHANGED <<stream, keyRevoked, appendVars>>

-----------------------------------------------------------------------------
(* Appending.                                                              *)

\* What the transaction sees: the stream is locked, nobody else adds to it.
Own == stream \o written

SourceCount == Cardinality({v \in DOMAIN Own : Own[v].type \in SourceTypes})

EndAppend ==
  /\ step' = "idle"
  /\ written' = <<>>
  /\ todo' = {}
  /\ keyLocked' = FALSE
  /\ found' = [state |-> NoState, version |-> 0, replayed |-> 0]

Rollback ==
  /\ step # "idle"
  /\ EndAppend
  /\ UNCHANGED <<stream, keyRevoked, loadVars>>

\* updateRegisteredSnapshots: the definitions of which the append wrote a source.
Concerned(types) ==
  {d \in Definitions : Every[d] > 0 /\ \E i \in DOMAIN types : types[i] \in Handles[d]}

\* The definitions still to maintain, the next one being read.
Continue(rest) ==
  /\ todo' = rest
  /\ step' = IF rest = {} THEN "commit" ELSE "latest"

\* append inserts its source events.
StartAppend(types) ==
  /\ step = "idle"
  /\ SourceCount + Len(types) <= MaxLength
  /\ written' = [i \in DOMAIN types |-> [type |-> types[i], state |-> NoState]]
  /\ Continue(Concerned(types))
  /\ UNCHANGED <<stream, keyRevoked, found, keyLocked, loadVars>>

ReadLatest ==
  /\ step = "latest"
  /\ LET from == SnapshotBase(Own, Min(todo))
     IN  found' = [state |-> from.state, version |-> from.version, replayed |-> 0]
  /\ step' = "events"
  /\ UNCHANGED <<stream, keyRevoked, written, todo, keyLocked, loadVars>>

\* Mutant: one event more than every before a snapshot is written.
Due_OffByOne(d, replayed) == replayed > Every[d]

Due(d, replayed) == replayed >= Every[d]

ReadEvents ==
  /\ step = "events"
  /\ LET d == Min(todo)
         result == Replay(Own, d, found)
     IN  /\ found' = result
         /\ IF Due(d, result.replayed)
            THEN step' = "write" /\ UNCHANGED todo
            ELSE Continue(todo \ {d})
  /\ UNCHANGED <<stream, keyRevoked, written, keyLocked, loadVars>>

SnapshotEvent(d) == [type |-> d, state |-> found.state]

\* appendSnapshot expects the version that was read; a revoked key fails it, and
\* the append with it.
WriteSnapshot ==
  /\ step = "write"
  /\ LET d == Min(todo)
     IN  /\ found.version = Len(Own)
         /\ d \in Encrypted => ~keyRevoked
         /\ written' = Append(written, SnapshotEvent(d))
         /\ keyLocked' = (keyLocked \/ d \in Encrypted)
         /\ Continue(todo \ {d})
  /\ UNCHANGED <<stream, keyRevoked, found, loadVars>>

Commit ==
  /\ step = "commit"
  /\ stream' = Own
  /\ EndAppend
  /\ UNCHANGED <<keyRevoked, loadVars>>

\* revokeKey waits for a transaction that has locked the key.
RevokeKey ==
  /\ ~keyRevoked
  /\ ~keyLocked
  /\ keyRevoked' = TRUE
  /\ UNCHANGED <<stream, appendVars, loadVars>>

-----------------------------------------------------------------------------
Next ==
  \/ \E n \in 1..MaxBatch : \E types \in [1..n -> SourceTypes] : StartAppend(types)
  \/ ReadLatest
  \/ ReadEvents
  \/ WriteSnapshot
  \/ Commit
  \/ Rollback
  \/ RevokeKey
  \/ \E d \in Definitions : StartLoad(d)
  \/ FinishLoad

Spec == Init /\ [][Next]_vars

-----------------------------------------------------------------------------
(* Properties.                                                             *)

\* The replay of d from the first event of s to version last.
History(s, d, last) == Ascending({v \in Sources(s, d, 1) : v <= last})

\* What a load returns is the replay of the whole history up to the version it
\* names, although the stream grew, took snapshots or lost its key between its
\* two statements.
LoadEqualsReplay ==
  loaded # <<>> =>
    loaded.state = History(stream, loaded.definition, loaded.version)

\* Every stored snapshot holds the state of the history before it.
SnapshotsAreFaithful ==
  \A v \in DOMAIN stream : stream[v].type \in Definitions =>
    stream[v].state = History(stream, stream[v].type, v - 1)

\* The purpose of a snapshot: while its key is good, no load ever replays Every
\* events or more.
ReplayIsBounded ==
  \A d \in Definitions :
    (d \in Encrypted /\ keyRevoked) \/ Every[d] <= 0 \/
      Replay(stream, d, SnapshotBase(stream, d)).replayed < Every[d]
=============================================================================
