-------------------------- MODULE Projection_proofs -------------------------
(***************************************************************************)
(* A projection implements OrderedDelivery, for any number of writers,     *)
(* replicas and positions and any batch size.  The certificate is what the *)
(* proof rests on: below it no event appears, so the rows a run has read   *)
(* are all the rows there will ever be, and the row lock makes the         *)
(* checkpoint it started from the one it moves.                            *)
(***************************************************************************)
EXTENDS Projection, FiniteSetTheorems, TLAPS

-----------------------------------------------------------------------------
(***************************************************************************)
(* The certificate is safe for any number of writers, certifiers and       *)
(* positions.  CertifiedIsSettled is not inductive: that setval publishes  *)
(* nothing an open transaction could still fill follows from who holds     *)
(* which lock between the certifier's queries, which IInv records.         *)
(***************************************************************************)

\* The shared and the exclusive fence exclude each other, and the exclusive one
\* is only ever held inside the reader lock.
LockInv ==
  /\ fenceExclusive # Nobody => fenceShared = {}
  /\ fenceExclusive # Nobody => readerLock = fenceExclusive
  /\ \A c \in Certifiers : pc[c] # "idle" => readerLock = c
  /\ \A c \in Certifiers : pc[c] = "tryFence" => fenceExclusive = Nobody

\* Rows exist only at reserved positions; uncommitted ones only behind the fence.
PositionInv ==
  /\ certified <= lastValue
  /\ \A p \in committed : p <= lastValue
  /\ \A w \in Writers : pending[w] # {} => w \in fenceShared
  /\ \A w \in Writers : \A p \in pending[w] : certified < p /\ p <= lastValue

\* What a certifier has read is still true when it acts on it.
CertifierInv ==
  \A c \in Certifiers :
    /\ acquired[c] => fenceExclusive = c
    /\ pc[c] \in {"readMax", "setval"} => acquired[c] /\ lastCertified[c] = certified
    /\ pc[c] = "setval" => certified < position[c] /\ position[c] <= lastValue
    /\ safePosition[c] <= certified

IInv == TypeOK /\ LockInv /\ PositionInv /\ CertifierInv

-----------------------------------------------------------------------------
LEMMA InitIInv == Init => IInv
BY SafeWatermarkAssumption
   DEF Init, IInv, TypeOK, LockInv, PositionInv, CertifierInv, CertifierSteps, Positions

\* Every step of a writer preserves the invariant: a new position lies above the
\* certificate because the certificate never exceeds the sequence.
LEMMA WriterIInv ==
  ASSUME IInv, NEW w \in Writers, WriterStep(w)
  PROVE  IInv'
<1> USE SafeWatermarkAssumption
        DEF IInv, TypeOK, LockInv, PositionInv, CertifierInv, Positions, CertifierSteps,
            writerVars, lockVars, certifierVars
<1>1. CASE LockEventPositions(w)
  BY <1>1 DEF LockEventPositions
<1>2. CASE ReservePosition(w)
  BY <1>2 DEF ReservePosition
<1>3. CASE CommitWriter(w)
  BY <1>3 DEF CommitWriter
<1>4. CASE RollbackWriter(w)
  BY <1>4 DEF RollbackWriter
<1>. QED BY <1>1, <1>2, <1>3, <1>4 DEF WriterStep

LEMMA CertifierIInv ==
  ASSUME IInv, NEW c \in Certifiers, CertifierStep(c) \/ FailFence(c)
  PROVE  IInv'
<1> USE SafeWatermarkAssumption
        DEF IInv, TypeOK, LockInv, PositionInv, CertifierInv, Positions, CertifierSteps,
            writerVars, lockVars, certifierVars
<1>1. CASE LockReader(c)
  BY <1>1 DEF LockReader
<1>2. CASE TryFence(c)
  BY <1>2 DEF TryFence, FenceIsFree
<1>3. CASE ReadCached(c)
  BY <1>3 DEF ReadCached
<1>4. CASE ReadMax(c)
  BY <1>4 DEF ReadMax, IsMaxCommitted
<1>5. CASE SetVal(c)
  BY <1>5 DEF SetVal
<1>6. CASE ReturnSafePosition(c)
  BY <1>6 DEF ReturnSafePosition, EndFence
<1>7. CASE FailFence(c)
  BY <1>7 DEF FailFence, EndFence
<1>. QED BY <1>1, <1>2, <1>3, <1>4, <1>5, <1>6, <1>7 DEF CertifierStep

LEMMA StepIInv == IInv /\ [Next]_vars => IInv'
<1> SUFFICES ASSUME IInv, [Next]_vars PROVE IInv'
  OBVIOUS
<1>1. CASE Next
  BY <1>1, WriterIInv, CertifierIInv DEF Next
<1>2. CASE UNCHANGED vars
  BY <1>2 DEF vars, writerVars, lockVars, certifierVars,
              IInv, TypeOK, LockInv, PositionInv, CertifierInv
<1>. QED BY <1>1, <1>2

LEMMA Invariance == Spec => []IInv
BY InitIInv, StepIInv, PTL DEF Spec

-----------------------------------------------------------------------------
\* Every variable keeps its type, for any instance.
THEOREM TypeCorrect == Spec => []TypeOK
BY Invariance, PTL DEF IInv

\* No transaction can still make a certified position visible, and no consumer
\* is handed a position above the certificate.
THEOREM Settled == Spec => []CertifiedIsSettled
<1>1. IInv => CertifiedIsSettled
  BY DEF IInv, TypeOK, PositionInv, CertifierInv, CertifiedIsSettled, Positions
<1>. QED BY <1>1, Invariance, PTL

\* What is visible up to the certificate is frozen, and it only moves forward:
\* a cursor that reads up to it never has to look back.
THEOREM PrefixFrozen == Spec => CertifiedPrefixFrozen
<1> DEFINE Frozen == /\ certified <= certified'
                     /\ \A p \in 1..certified : p \in committed' <=> p \in committed
<1>1. IInv /\ [Next]_vars => [Frozen]_vars
  <2> SUFFICES ASSUME IInv, Next PROVE Frozen
    OBVIOUS
  <2> USE DEF IInv, TypeOK, PositionInv, CertifierInv, Positions,
              writerVars, lockVars, certifierVars
  <2>1. ASSUME NEW w \in Writers, WriterStep(w) PROVE Frozen
    BY <2>1 DEF WriterStep, LockEventPositions, ReservePosition, CommitWriter, RollbackWriter
  <2>2. ASSUME NEW c \in Certifiers, CertifierStep(c) \/ FailFence(c) PROVE Frozen
    BY <2>2 DEF CertifierStep, LockReader, TryFence, ReadCached, ReadMax, SetVal,
                ReturnSafePosition, FailFence, EndFence
  <2>. QED BY <2>1, <2>2 DEF Next
<1>. QED BY <1>1, Invariance, PTL DEF Spec, CertifiedPrefixFrozen

\* A certifier that does not get the fence met a writer, never another consumer.
THEOREM StaleBehindWriter == Spec => StaleOnlyBehindWriter
<1> DEFINE OnlyWriter == \A c \in Certifiers :
                           (TryFence(c) /\ ~acquired'[c]) => fenceShared # {}
<1>1. IInv => OnlyWriter
  BY DEF IInv, TypeOK, LockInv, TryFence, FenceIsFree
<1>. QED BY <1>1, Invariance, PTL DEF Spec, StaleOnlyBehindWriter

-----------------------------------------------------------------------------
(* The projection.                                                         *)

Inside == {"read", "handle", "commit", "failed"}

\* A run inside its transaction holds the row, and has the checkpoint it read.
RowInv ==
  \A r \in Replicas :
    step[r] \in Inside => rowLock = r /\ last[r] = checkpoint

\* Everything a run looks at lies between the checkpoint and the certificate.
BoundInv ==
  /\ checkpoint <= certified
  /\ \A r \in Replicas :
       /\ last[r] <= newLast[r]
       /\ newLast[r] <= certified
       /\ step[r] \in {"certify", "checkpoint"} => applied[r] = <<>> /\ batch[r] = {}
       /\ step[r] = "read" => newLast[r] = last[r] /\ applied[r] = <<>> /\ batch[r] = {}
       /\ \A p \in batch[r] : newLast[r] < p /\ p <= certified /\ p \in committed

\* No event is missing from the batch, up to its end.
BatchInv ==
  \A r \in Replicas : \A p \in batch[r] : \A q \in committed :
    (newLast[r] < q /\ q <= p) => q \in batch[r]

\* The handled positions: in order, committed, and all of them but excused ones.
Faithful(r) ==
  /\ \A i \in 1..Len(applied[r]) :
       /\ applied[r][i] \in committed
       /\ last[r] < applied[r][i] /\ applied[r][i] <= newLast[r]
  /\ \A i, j \in 1..Len(applied[r]) : i < j => applied[r][i] < applied[r][j]
  /\ \A p \in committed : (last[r] < p /\ p <= newLast[r]) =>
       p \in Excused \/ \E i \in 1..Len(applied[r]) : applied[r][i] = p

AppliedInv == \A r \in Replicas : Faithful(r)

PInv == IInv /\ PTypeOK /\ RowInv /\ BoundInv /\ BatchInv /\ AppliedInv

-----------------------------------------------------------------------------
LEMMA InitPInv == PInit => PInv
<1> SUFFICES ASSUME PInit PROVE PInv
  OBVIOUS
<1>1. IInv
  BY InitIInv DEF PInit
<1>2. PTypeOK
  BY SafeWatermarkAssumption DEF PInit, PTypeOK, Init, Positions
<1>3. RowInv /\ BoundInv /\ BatchInv /\ AppliedInv
  BY DEF PInit, Init, Inside, RowInv, BoundInv, BatchInv, AppliedInv, Faithful, Replicas
<1>. QED BY <1>1, <1>2, <1>3 DEF PInv

\* What a step of the watermark protocol means to a projection.
Frozen ==
  /\ certified <= certified'
  /\ committed \subseteq committed'
  /\ \A p \in committed' \ committed : certified < p

LEMMA WatermarkSteps ==
  ASSUME IInv, [Next]_vars
  PROVE  IInv' /\ Frozen
<1>1. IInv'
  BY StepIInv
<1>2. Frozen
  <2> USE DEF Frozen, IInv, TypeOK, PositionInv, CertifierInv, Positions,
              writerVars, lockVars, certifierVars
  <2>1. ASSUME NEW w \in Writers, WriterStep(w) PROVE Frozen
    BY <2>1 DEF WriterStep, LockEventPositions, ReservePosition, CommitWriter, RollbackWriter
  <2>2. ASSUME NEW c \in Certifiers, CertifierStep(c) \/ FailFence(c) PROVE Frozen
    BY <2>2 DEF CertifierStep, LockReader, TryFence, ReadCached, ReadMax, SetVal,
                ReturnSafePosition, FailFence, EndFence
  <2>3. CASE UNCHANGED vars
    BY <2>3 DEF vars
  <2>. HIDE DEF Frozen, IInv
  <2>. QED BY <2>1, <2>2, <2>3 DEF Next
<1>. QED BY <1>1, <1>2

\* While the projection's own variables stand still, its invariant holds on:
\* positions that become visible lie above everything it looks at.
LEMMA QuietPInv ==
  ASSUME PInv, IInv', Frozen,
         UNCHANGED <<policy, ignored, checkpoint, rowLock, readModel, last, batch, newLast, applied>>,
         redacted \subseteq redacted', PTypeOK',
         \A r \in Replicas : \/ step'[r] = step[r]
                             \/ step[r] = "certify" /\ step'[r] = "checkpoint"
  PROVE  PInv'
<1> USE DEF PInv
<1>1. RowInv'
  BY DEF RowInv, Inside
<1>2. certified \in Int /\ certified' \in Int /\ \A p \in committed \cup committed' : p \in Int
  BY DEF IInv, TypeOK, Positions
<1>3. BoundInv'
  BY <1>2 DEF BoundInv, Frozen, PTypeOK, Positions
<1>4. BatchInv'
  BY <1>2 DEF BatchInv, BoundInv, Frozen, PTypeOK, Positions
<1>5. Excused \subseteq Excused'
  BY DEF Excused
<1>6. AppliedInv'
  <2> SUFFICES ASSUME NEW r \in Replicas
               PROVE  /\ \A i \in 1..Len(applied[r]) : applied[r][i] \in committed'
                      /\ \A p \in committed' : (last[r] < p /\ p <= newLast[r]) =>
                           p \in Excused' \/ \E i \in 1..Len(applied[r]) : applied[r][i] = p
    BY DEF AppliedInv, Faithful
  <2>1. \A i \in 1..Len(applied[r]) : applied[r][i] \in committed'
    BY DEF AppliedInv, Faithful, Frozen
  <2>2. ASSUME NEW p \in committed', last[r] < p, p <= newLast[r] PROVE p \in committed
    BY <1>2, <2>2 DEF BoundInv, Frozen, PTypeOK
  <2>. QED BY <1>5, <2>1, <2>2 DEF AppliedInv, Faithful
<1>. QED BY <1>1, <1>3, <1>4, <1>6

LEMMA Numbers ==
  ASSUME PInv
  PROVE  /\ checkpoint \in Int /\ certified \in Int /\ committed \subseteq Int
         /\ \A r \in Replicas : /\ last[r] \in Int /\ newLast[r] \in Int /\ safePosition[r] \in Int
                                /\ batch[r] \subseteq Int
                                /\ Len(applied[r]) \in Nat
                                /\ \A i \in 1..Len(applied[r]) : applied[r][i] \in Int
<1>1. /\ checkpoint \in Int /\ certified \in Int /\ committed \subseteq Int
      /\ \A r \in Replicas : /\ last[r] \in Int /\ newLast[r] \in Int /\ safePosition[r] \in Int
                             /\ batch[r] \subseteq Int
  BY DEF PInv, PTypeOK, IInv, TypeOK, Positions, Replicas
<1>2. \A r \in Replicas : applied[r] \in Seq(Positions)
  BY DEF PInv, PTypeOK
<1>3. Positions \subseteq Int
  BY DEF Positions
<1>4. ASSUME NEW r \in Replicas
      PROVE  Len(applied[r]) \in Nat /\ \A i \in 1..Len(applied[r]) : applied[r][i] \in Int
  <2>1. applied[r] \in Seq(Positions)
    BY <1>2
  <2>2. \A i \in 1..Len(applied[r]) : applied[r][i] \in Positions
    BY <2>1
  <2>3. Len(applied[r]) \in Nat
    BY <2>1
  <2>. QED BY <1>3, <2>2, <2>3
<1>. QED BY <1>1, <1>4

LEMMA EndRunPInv ==
  ASSUME PInv, NEW r \in Replicas, EndRun(r), checkpoint' \in checkpoint .. certified,
         checkpoint' # checkpoint => rowLock = r, readModel' \in Seq(Positions)
  PROVE  PInv'
<1> USE DEF PInv, EndRun
<1>1. IInv'
  BY DEF vars, writerVars, lockVars, certifierVars, IInv, TypeOK, LockInv, PositionInv, CertifierInv
<1>2. PTypeOK'
  <2>1. checkpoint' \in 0..MaxPosition
    BY SafeWatermarkAssumption DEF IInv, TypeOK, PTypeOK
  <2>2. <<>> \in Seq(Positions)
    OBVIOUS
  <2>3. /\ policy' \in Policies /\ ignored' \subseteq Positions /\ redacted' \subseteq Positions
        /\ rowLock' \in Replicas \cup {Nobody}
    BY DEF PTypeOK
  <2>4. /\ step' \in [Replicas -> {"certify", "checkpoint", "read", "handle", "commit", "failed"}]
        /\ batch' \in [Replicas -> SUBSET Positions]
    BY DEF PTypeOK
  <2>5. last' \in [Replicas -> 0..MaxPosition] /\ newLast' \in [Replicas -> 0..MaxPosition]
    BY SafeWatermarkAssumption DEF PTypeOK
  <2>6. applied' \in [Replicas -> Seq(Positions)]
    BY <2>2 DEF PTypeOK
  <2>. QED BY <2>1, <2>3, <2>4, <2>5, <2>6 DEF PTypeOK
<1>3. RowInv'
  BY SafeWatermarkAssumption DEF RowInv, Inside, PTypeOK, Replicas
<1>4. UNCHANGED <<certified, committed, policy, ignored, redacted>>
  BY DEF vars, writerVars
<1>5. BoundInv'
  <2>1. /\ last'[r] = 0 /\ newLast'[r] = 0 /\ step'[r] = "certify"
        /\ applied'[r] = <<>> /\ batch'[r] = {} /\ 0 <= certified
    BY DEF PTypeOK, IInv, TypeOK
  <2>2. \A q \in Replicas \ {r} :
          /\ last'[q] = last[q] /\ newLast'[q] = newLast[q] /\ step'[q] = step[q]
          /\ applied'[q] = applied[q] /\ batch'[q] = batch[q]
    BY DEF PTypeOK
  <2>3. checkpoint' <= certified
    BY DEF PTypeOK, IInv, TypeOK
  <2> HIDE DEF PInv, EndRun
  <2>4. BoundInv
    BY DEF PInv
  <2>. QED BY <1>4, <2>1, <2>2, <2>3, <2>4 DEF BoundInv
<1>6. BatchInv'
  BY <1>4 DEF BatchInv, PTypeOK
<1>7. Excused' = Excused
  BY <1>4 DEF Excused
<1>8. AppliedInv'
  <2>1. ASSUME NEW q \in Replicas \ {r}
        PROVE  applied'[q] = applied[q] /\ last'[q] = last[q] /\ newLast'[q] = newLast[q]
    OBVIOUS
  <2>2. applied'[r] = <<>> /\ last'[r] = 0 /\ newLast'[r] = 0
    BY DEF PTypeOK
  <2>3. \A p \in committed : ~(0 < p /\ p <= 0) /\ Len(<<>>) = 0
    BY DEF IInv, TypeOK, Positions
  <2>. QED BY <1>4, <1>7, <2>1, <2>2, <2>3 DEF AppliedInv, Faithful
<1>. QED BY <1>1, <1>2, <1>3, <1>5, <1>6, <1>8

LEMMA FailRunPInv ==
  ASSUME PInv, NEW r \in Replicas, FailRun(r)
  PROVE  PInv'
<1>1. EndRun(r) /\ checkpoint' = checkpoint /\ readModel' = readModel
  BY DEF FailRun
<1>2. checkpoint' \in checkpoint .. certified /\ readModel' \in Seq(Positions)
  BY <1>1, Numbers DEF PInv, PTypeOK, BoundInv
<1>. QED BY <1>1, <1>2, EndRunPInv

LEMMA CommitRunPInv ==
  ASSUME PInv, NEW r \in Replicas, CommitRun(r)
  PROVE  PInv'
<1>1. step[r] = "commit" /\ checkpoint' = newLast[r] /\ readModel' = readModel \o applied[r] /\ EndRun(r)
  BY DEF CommitRun
<1>2. rowLock = r /\ last[r] = checkpoint
  BY <1>1 DEF PInv, RowInv, Inside
<1>3. checkpoint' \in checkpoint .. certified
  BY <1>1, <1>2 DEF PInv, BoundInv, PTypeOK, IInv, TypeOK
<1>4. readModel \in Seq(Positions) /\ applied[r] \in Seq(Positions)
  BY DEF PInv, PTypeOK
<1>5. readModel' \in Seq(Positions)
  BY <1>1, <1>4
<1>. QED BY <1>1, <1>2, <1>3, <1>5, EndRunPInv

\* The run's own transaction leaves the watermark protocol alone.
LEMMA RunKeepsIInv ==
  ASSUME IInv, UNCHANGED vars
  PROVE  IInv' /\ UNCHANGED <<certified, committed, safePosition>>
BY DEF vars, writerVars, lockVars, certifierVars, IInv, TypeOK, LockInv, PositionInv, CertifierInv

LEMMA EnsureCheckpointPInv ==
  ASSUME PInv, NEW r \in Replicas, EnsureCheckpoint(r)
  PROVE  PInv'
<1> USE DEF PInv, EnsureCheckpoint
<1>1. IInv' /\ UNCHANGED <<certified, committed>>
  BY RunKeepsIInv
<1>2. PTypeOK'
  BY DEF PTypeOK
<1>3. RowInv'
  BY SafeWatermarkAssumption DEF RowInv, Inside, PTypeOK, Replicas
<1>4. BoundInv'
  <2>1. last'[r] = checkpoint /\ newLast'[r] = checkpoint /\ step'[r] \in {"commit", "read"}
        /\ \A q \in Replicas \ {r} : last'[q] = last[q] /\ newLast'[q] = newLast[q] /\ step'[q] = step[q]
    BY DEF PTypeOK
  <2>2. checkpoint <= checkpoint
    BY Numbers
  <2>. QED BY <1>1, <2>1, <2>2 DEF BoundInv
<1>5. BatchInv'
  BY <1>1 DEF BatchInv, BoundInv, PTypeOK
<1>6. AppliedInv'
  <2>1. Excused' = Excused
    BY DEF Excused
  <2>2. applied[r] = <<>> /\ last'[r] = checkpoint /\ newLast'[r] = checkpoint
    BY DEF BoundInv, PTypeOK
  <2>3. \A p \in committed : ~(checkpoint < p /\ p <= checkpoint)
    BY DEF IInv, TypeOK, Positions, PTypeOK
  <2>4. \A q \in Replicas \ {r} : last'[q] = last[q] /\ newLast'[q] = newLast[q]
    OBVIOUS
  <2>5. Len(<<>>) = 0
    OBVIOUS
  <2>. QED BY <1>1, <2>1, <2>2, <2>3, <2>4, <2>5 DEF AppliedInv, Faithful
<1>. QED BY <1>1, <1>2, <1>3, <1>4, <1>5, <1>6

\* LIMIT cuts a batch off at its end only.
LEMMA SmallestClosed ==
  ASSUME NEW S \in SUBSET Positions, NEW n \in Nat, NEW p \in Smallest(S, n), NEW q \in S, q <= p
  PROVE  q \in Smallest(S, n)
<1> DEFINE Upto(x) == {y \in S : y <= x}
<1>1. IsFiniteSet(S) /\ S \subseteq Int
  <2>1. 1 \in Int /\ MaxPosition \in Int
    BY SafeWatermarkAssumption
  <2>2. IsFiniteSet(1..MaxPosition)
    BY <2>1, FS_Interval
  <2>3. IsFiniteSet(S)
    BY <2>2, FS_Subset DEF Positions
  <2>. QED BY <2>3 DEF Positions
<1>2. IsFiniteSet(Upto(p)) /\ Upto(q) \subseteq Upto(p)
  <2>1. Upto(p) \subseteq S
    OBVIOUS
  <2>2. p \in Int /\ q \in Int
    BY <1>1 DEF Smallest
  <2>3. ASSUME NEW y \in S, y <= q PROVE y <= p
    BY <1>1, <2>2, <2>3
  <2>4. Upto(q) \subseteq Upto(p)
    BY <2>3
  <2>. QED BY <1>1, <2>1, <2>4, FS_Subset
<1>3. Cardinality(Upto(q)) <= Cardinality(Upto(p)) /\ Cardinality(Upto(q)) \in Nat /\ Cardinality(Upto(p)) \in Nat
  BY <1>2, FS_Subset, FS_CardinalityType
<1>4. Cardinality(Upto(p)) <= n
  BY DEF Smallest
<1>5. Cardinality(Upto(q)) <= n
  BY <1>3, <1>4
<1>. QED BY <1>5 DEF Smallest

LEMMA ReadBatchPInv ==
  ASSUME PInv, NEW r \in Replicas, ReadBatch(r)
  PROVE  PInv'
<1> USE DEF PInv, ReadBatch
<1>1. IInv' /\ UNCHANGED <<certified, committed, safePosition>>
  BY RunKeepsIInv
<1>2. /\ batch'[r] = Smallest(Unread(r), BatchSize)
      /\ batch'[r] \subseteq Unread(r)
      /\ Unread(r) \in SUBSET Positions
      /\ \A q \in Replicas \ {r} : batch'[q] = batch[q] /\ step'[q] = step[q]
      /\ step'[r] \in {"commit", "handle"}
  BY DEF Smallest, Unread, PTypeOK, IInv, TypeOK
<1>3. PTypeOK'
  BY <1>2 DEF PTypeOK
<1>4. RowInv'
  BY <1>2 DEF RowInv, Inside
<1>5. \A p \in Unread(r) : newLast[r] < p /\ p <= certified /\ p \in committed
  BY DEF Unread, BoundInv, IInv, TypeOK, CertifierInv, Positions, PTypeOK, Replicas
<1>6. BoundInv'
  BY <1>1, <1>2, <1>5 DEF BoundInv
<1>7. BatchInv'
  <2>1. ASSUME NEW p \in batch'[r], NEW q \in committed, newLast[r] < q, q <= p PROVE q \in batch'[r]
    <3>1. /\ p \in Unread(r) /\ p \in Int /\ q \in Int /\ safePosition[r] \in Int
      BY <1>2, <2>1 DEF IInv, TypeOK, Positions, Replicas
    <3>2. newLast[r] = last[r]
      BY DEF BoundInv, Replicas
    <3>3. q > last[r]
      BY <2>1, <3>1, <3>2
    <3>4. q <= safePosition[r]
      BY <2>1, <3>1 DEF Unread
    <3>5. q \in Unread(r)
      BY <2>1, <3>3, <3>4 DEF Unread
    <3>. QED BY <1>2, <2>1, <3>5, SmallestClosed, ProjectionAssumption
  <2>. QED BY <1>1, <1>2, <2>1 DEF BatchInv
<1>8. AppliedInv'
  BY <1>1 DEF AppliedInv, Faithful, Excused
<1>. QED BY <1>1, <1>3, <1>4, <1>6, <1>7, <1>8

LEMMA HandleRowPInv ==
  ASSUME PInv, NEW r \in Replicas, HandleRow(r)
  PROVE  PInv'
<1> USE DEF PInv
<1>1. /\ step[r] = "handle"
      /\ UNCHANGED <<vars, policy, ignored, redacted, checkpoint, rowLock, readModel, last>>
  BY DEF HandleRow
<1>2. IInv' /\ UNCHANGED <<certified, committed, safePosition>> /\ Excused' = Excused
  BY <1>1, RunKeepsIInv DEF Excused
<1>3. CASE step' = [step EXCEPT ![r] = "failed"] /\ UNCHANGED <<batch, newLast, applied>>
  <2>1. /\ \A q \in Replicas : step'[q] = step[q] \/ (q = r /\ step'[q] = "failed")
        /\ step' \in [Replicas -> {"certify", "checkpoint", "read", "handle", "commit", "failed"}]
    BY <1>3 DEF PTypeOK
  <2>2. PTypeOK'
    BY <1>1, <1>3, <2>1 DEF PTypeOK
  <2>3. RowInv' /\ BoundInv'
    BY <1>1, <1>2, <1>3, <2>1 DEF RowInv, BoundInv, Inside
  <2>4. BatchInv' /\ AppliedInv'
    BY <1>1, <1>2, <1>3 DEF BatchInv, AppliedInv, Faithful
  <2>. QED BY <1>2, <2>2, <2>3, <2>4
<1>4. ASSUME NEW p \in batch[r], NEW outcome \in Handlings(r, p), outcome # "throw",
             \A q \in batch[r] : p <= q,
             batch' = [batch EXCEPT ![r] = @ \ {p}],
             newLast' = [newLast EXCEPT ![r] = p],
             applied' = [applied EXCEPT ![r] = IF outcome = "apply" THEN Append(@, p) ELSE @],
             step' = [step EXCEPT ![r] = IF batch[r] = {p} THEN "commit" ELSE "handle"]
      PROVE  PInv'
  <2>1. /\ p \in committed /\ p \in Positions /\ newLast[r] < p /\ p <= certified
        /\ last[r] <= newLast[r]
        /\ last[r] \in Int /\ newLast[r] \in Int /\ p \in Int /\ committed \subseteq Int
    BY DEF BoundInv, PTypeOK, IInv, TypeOK, Positions
  <2>2. /\ batch'[r] = batch[r] \ {p} /\ newLast'[r] = p /\ step'[r] \in {"commit", "handle"}
        /\ applied'[r] = IF outcome = "apply" THEN Append(applied[r], p) ELSE applied[r]
        /\ \A q \in Replicas \ {r} : /\ batch'[q] = batch[q] /\ newLast'[q] = newLast[q]
                                     /\ applied'[q] = applied[q] /\ step'[q] = step[q]
    BY <1>4 DEF PTypeOK
  <2>3. applied[r] \in Seq(Positions) /\ Append(applied[r], p) \in Seq(Positions)
    BY <2>1 DEF PTypeOK
  <2>4. PTypeOK'
    <3>1. /\ batch' \in [Replicas -> SUBSET Positions]
          /\ step' \in [Replicas -> {"certify", "checkpoint", "read", "handle", "commit", "failed"}]
      BY <1>4 DEF PTypeOK
    <3>2. newLast' \in [Replicas -> 0..MaxPosition]
      BY <1>4, <2>1, SafeWatermarkAssumption DEF PTypeOK, Positions
    <3>3. applied' \in [Replicas -> Seq(Positions)]
      BY <1>4, <2>3 DEF PTypeOK
    <3>. QED BY <1>1, <3>1, <3>2, <3>3 DEF PTypeOK
  <2>5. RowInv'
    BY <1>1, <2>2 DEF RowInv, Inside
  <2>6. BoundInv'
    <3>1. ASSUME NEW x \in batch'[r] PROVE p < x /\ x <= certified /\ x \in committed
      <4>1. x \in batch[r] /\ x # p /\ p <= x
        BY <1>4, <2>2, <3>1
      <4>2. x \in Positions /\ x <= certified /\ x \in committed
        BY <4>1 DEF BoundInv, PTypeOK
      <4>. QED BY <2>1, <4>1, <4>2 DEF Positions
    <3>2. last[r] <= p
      BY <2>1
    <3>. QED BY <1>1, <1>2, <2>1, <2>2, <3>1, <3>2 DEF BoundInv
  <2>7. BatchInv'
    <3>1. ASSUME NEW x \in batch[r], x # p, NEW q \in committed, p < q, q <= x
          PROVE  q \in batch[r] /\ q # p
      BY <2>1, <3>1, Numbers DEF BatchInv
    <3>. QED BY <1>2, <2>2, <3>1 DEF BatchInv
  <2>8. p \notin Excused => outcome = "apply"
    BY <1>4, ProjectionAssumption DEF Handlings, OnRedacted, Excused, PTypeOK
  <2>9. ASSUME NEW q \in committed, last[r] < q, q <= p, q # p
        PROVE  q \in Excused \/ \E i \in 1..Len(applied[r]) : applied[r][i] = q
    <3>1. q <= newLast[r]
      BY <1>4, <2>1, <2>9 DEF BatchInv, PTypeOK, Positions
    <3>. QED BY <2>9, <3>1 DEF AppliedInv, Faithful
  <2>10. \A i \in 1..Len(applied[r]) :
           /\ applied[r][i] \in committed
           /\ last[r] < applied[r][i] /\ applied[r][i] < p /\ applied[r][i] <= p
    <3>1. ASSUME NEW i \in 1..Len(applied[r])
          PROVE  /\ applied[r][i] \in committed /\ applied[r][i] \in Int
                 /\ last[r] < applied[r][i] /\ applied[r][i] <= newLast[r]
      BY <3>1, Numbers DEF AppliedInv, Faithful
    <3>2. ASSUME NEW i \in 1..Len(applied[r]) PROVE applied[r][i] < p /\ applied[r][i] <= p
      BY <2>1, <3>1
    <3>. QED BY <3>1, <3>2
  <2>11. AppliedInv'
    <3>0. \A q \in Replicas \ {r} : Faithful(q)'
      BY <1>1, <1>2, <2>2 DEF AppliedInv, Faithful
    <3>1. CASE outcome = "apply"
      <4>1. /\ Len(applied'[r]) = Len(applied[r]) + 1 /\ Len(applied[r]) \in Nat
            /\ applied'[r][Len(applied[r]) + 1] = p
            /\ \A i \in 1..Len(applied[r]) : applied'[r][i] = applied[r][i]
        BY <2>2, <2>3, <3>1
      <4>2. \A i \in 1..Len(applied'[r]) :
              /\ applied'[r][i] \in committed
              /\ last[r] < applied'[r][i] /\ applied'[r][i] <= p
        <5>1. last[r] < p /\ p <= p
          BY <2>1
        <5>2. \A i \in 1..Len(applied'[r]) : i \in 1..Len(applied[r]) \/ i = Len(applied[r]) + 1
          BY <4>1
        <5>. QED BY <2>1, <2>10, <4>1, <5>1, <5>2
      <4>3. \A i, j \in 1..Len(applied'[r]) : i < j => applied'[r][i] < applied'[r][j]
        <5>1. SUFFICES ASSUME NEW i \in 1..Len(applied'[r]), NEW j \in 1..Len(applied'[r]), i < j
                       PROVE  applied'[r][i] < applied'[r][j]
          OBVIOUS
        <5>2. CASE j <= Len(applied[r])
          BY <4>1, <5>1, <5>2 DEF AppliedInv, Faithful
        <5>3. CASE j = Len(applied[r]) + 1
          BY <2>10, <4>1, <5>1, <5>3
        <5>. QED BY <4>1, <5>2, <5>3
      <4>4. \A q \in committed : (last[r] < q /\ q <= p) =>
              q \in Excused \/ \E i \in 1..Len(applied'[r]) : applied'[r][i] = q
        BY <2>9, <4>1
      <4>5. last'[r] = last[r] /\ newLast'[r] = p /\ committed' = committed /\ Excused' = Excused
        BY <1>1, <1>2, <2>2
      <4>6. Faithful(r)'
        BY <4>2, <4>3, <4>4, <4>5 DEF Faithful
      <4>. QED BY <3>0, <4>6 DEF AppliedInv
    <3>2. CASE outcome # "apply"
      <4>1. \A i \in 1..Len(applied[r]) : applied[r][i] <= p
        BY <2>10
      <4>2. \A q \in committed : (last[r] < q /\ q <= p) =>
              q \in Excused \/ \E i \in 1..Len(applied[r]) : applied[r][i] = q
        BY <2>8, <2>9, <3>2
      <4>. QED BY <1>1, <1>2, <2>2, <3>0, <3>2, <4>1, <4>2 DEF AppliedInv, Faithful
    <3>. QED BY <3>1, <3>2
  <2>. QED BY <1>2, <2>4, <2>5, <2>6, <2>7, <2>11
<1>. QED BY <1>3, <1>4 DEF HandleRow

\* A step of the watermark protocol, or a revocation, between those of the runs.
LEMMA OutsidePInv ==
  ASSUME PInv,
         \/ \E w \in Writers : WriterStep(w) /\ UNCHANGED projectionVars
         \/ \E r \in Replicas : Certify(r) \/ FailCertify(r)
         \/ RevokeKey
         \/ UNCHANGED pvars
  PROVE  PInv' /\ Frozen
<1>1. [Next]_vars
  BY DEF Next, Replicas, Certify, FailCertify, RevokeKey, pvars
<1>2. IInv' /\ Frozen
  BY <1>1, WatermarkSteps DEF PInv
<1>3. /\ UNCHANGED <<policy, ignored, checkpoint, rowLock, readModel, last, batch, newLast, applied>>
      /\ redacted \subseteq redacted'
      /\ redacted' = redacted \/ redacted' \subseteq redacted \cup committed
  BY DEF projectionVars, runVars, pvars, Certify, FailCertify, RevokeKey
<1>4. /\ step' \in [Replicas -> {"certify", "checkpoint", "read", "handle", "commit", "failed"}]
      /\ \A r \in Replicas : \/ step'[r] = step[r]
                             \/ step[r] = "certify" /\ step'[r] = "checkpoint"
  <2>1. CASE step' = step
    BY <2>1 DEF PInv, PTypeOK
  <2>2. ASSUME NEW r \in Replicas, Certify(r)
        PROVE  step[r] = "certify" /\ \/ step' = step
                                      \/ step' = [step EXCEPT ![r] = "checkpoint"]
    BY <2>2 DEF PInv, PTypeOK, Certify
  <2>3. ASSUME NEW r \in Replicas, step[r] = "certify", step' = [step EXCEPT ![r] = "checkpoint"]
        PROVE  /\ step' \in [Replicas -> {"certify", "checkpoint", "read", "handle", "commit", "failed"}]
               /\ \A q \in Replicas : \/ step'[q] = step[q]
                                      \/ step[q] = "certify" /\ step'[q] = "checkpoint"
    BY <2>3 DEF PInv, PTypeOK
  <2>. QED BY <2>1, <2>2, <2>3 DEF projectionVars, runVars, pvars, FailCertify, RevokeKey
<1>5. PTypeOK'
  BY <1>3, <1>4 DEF PInv, PTypeOK, IInv, TypeOK
<1>. QED BY <1>2, <1>3, <1>4, <1>5, QuietPInv

LEMMA StepPInv == PInv /\ [PNext]_pvars => PInv'
<1> SUFFICES ASSUME PInv, [PNext]_pvars PROVE PInv'
  OBVIOUS
<1>1. ASSUME NEW r \in Replicas, RunStep(r) \/ FailRun(r) PROVE PInv'
  BY <1>1, EnsureCheckpointPInv, ReadBatchPInv, HandleRowPInv, CommitRunPInv, FailRunPInv DEF RunStep
<1>. QED BY <1>1, OutsidePInv DEF PNext

THEOREM PInvariance == PSpec => []PInv
BY InitPInv, StepPInv, PTL DEF PSpec

-----------------------------------------------------------------------------
(* The refinement.                                                         *)

LEMMA InitRefines == PInit => OD!Init
BY DEF PInit, Init, OD!Init, Excused, Positions

\* Outside the runs, events become visible above the frontier, or are excused.
LEMMA OutsideRefines ==
  ASSUME PInv,
         \/ \E w \in Writers : WriterStep(w) /\ UNCHANGED projectionVars
         \/ \E r \in Replicas : Certify(r) \/ FailCertify(r)
         \/ RevokeKey
         \/ UNCHANGED pvars
  PROVE  [OD!Next]_(OD!vars)
<1>1. PInv' /\ Frozen
  BY OutsidePInv
<1>2. UNCHANGED <<policy, ignored, checkpoint, readModel>>
  BY DEF projectionVars, runVars, pvars, Certify, FailCertify, RevokeKey
<1>3. CASE redacted' = redacted
  <2> DEFINE new == committed' \ committed
  <2>1. new \subseteq checkpoint + 1 .. MaxPosition
    BY <1>1, SafeWatermarkAssumption DEF Frozen, PInv, BoundInv, IInv, TypeOK, Positions, PTypeOK
  <2>2. committed' = committed \cup new
    BY <1>1 DEF Frozen
  <2>3. Excused' = Excused
    BY <1>2, <1>3 DEF Excused
  <2>. HIDE DEF new
  <2>4. OD!Publish
    BY <1>2, <2>1, <2>2, <2>3 DEF OD!Publish
  <2>. QED BY <2>4 DEF OD!Next
<1>4. CASE RevokeKey
  <2> DEFINE S == IF policy = "skip" THEN redacted' ELSE {}
  <2>1. S \in SUBSET (1..MaxPosition)
    BY <1>1 DEF PInv, PTypeOK, Positions
  <2>2. Excused' = Excused \cup S
    BY <1>2, <1>4 DEF Excused, RevokeKey
  <2>3. committed' = committed
    BY <1>4 DEF RevokeKey, vars, writerVars
  <2>. HIDE DEF S
  <2>4. OD!Excuse
    BY <1>2, <2>1, <2>2, <2>3 DEF OD!Excuse
  <2>. QED BY <2>4 DEF OD!Next
<1>. QED BY <1>3, <1>4 DEF projectionVars, runVars, pvars, Certify, FailCertify

\* A committed run delivers what lies between the checkpoint and its last row.
LEMMA CommitRefines ==
  ASSUME PInv, NEW r \in Replicas, CommitRun(r)
  PROVE  [OD!Next]_(OD!vars)
<1>1. /\ step[r] = "commit" /\ checkpoint' = newLast[r] /\ readModel' = readModel \o applied[r]
      /\ UNCHANGED <<vars, policy, ignored, redacted>>
  BY DEF CommitRun, EndRun
<1>2. last[r] = checkpoint /\ checkpoint <= newLast[r] /\ newLast[r] <= MaxPosition
      /\ checkpoint \in Int /\ newLast[r] \in Int /\ committed \subseteq Int
  BY <1>1, Numbers, SafeWatermarkAssumption DEF PInv, RowInv, Inside, BoundInv, PTypeOK
<1>3. committed' = committed /\ Excused' = Excused
  BY <1>1 DEF vars, writerVars, Excused
<1>4. readModel \in Seq(Positions) /\ applied[r] \in Seq(Positions)
  BY DEF PInv, PTypeOK
<1>5. /\ Len(readModel) \in Nat /\ Len(applied[r]) \in Nat
      /\ Len(readModel') = Len(readModel) + Len(applied[r])
      /\ \A i \in 1..Len(readModel) : readModel'[i] = readModel[i]
      /\ \A i \in 1..Len(applied[r]) : readModel'[Len(readModel) + i] = applied[r][i]
  BY <1>1, <1>4
<1>6. Faithful(r)
  BY DEF PInv, AppliedInv
<1>7. CASE newLast[r] = checkpoint
  <2>1. Len(applied[r]) = 0
    <3>1. ASSUME 1 \in 1..Len(applied[r]) PROVE FALSE
      BY <1>2, <1>6, <1>7, <3>1, Numbers DEF Faithful
    <3>. QED BY <1>5, <3>1
  <2>2. readModel' = readModel
    BY <1>1, <1>4, <2>1
  <2>. QED BY <1>1, <1>3, <1>7, <2>2 DEF OD!vars
<1>8. CASE newLast[r] # checkpoint
  <2> DEFINE passed == {p \in committed : checkpoint < p /\ p <= newLast[r]}
  <2>1. newLast[r] \in checkpoint + 1 .. MaxPosition
    BY <1>2, <1>8, SafeWatermarkAssumption
  <2>2. \A k \in Len(readModel) + 1 .. Len(readModel') :
          k - Len(readModel) \in 1..Len(applied[r]) /\ readModel'[k] = applied[r][k - Len(readModel)]
    BY <1>5
  <2>3. OD!Handled = {applied[r][i] : i \in 1..Len(applied[r])}
    <3>1. \A i \in 1..Len(applied[r]) :
            Len(readModel) + i \in Len(readModel) + 1 .. Len(readModel')
      BY <1>5
    <3>2. ASSUME NEW i \in 1..Len(applied[r])
          PROVE  \E k \in Len(readModel) + 1 .. Len(readModel') : readModel'[k] = applied[r][i]
      BY <1>5, <3>1
    <3>3. OD!Handled \subseteq {applied[r][i] : i \in 1..Len(applied[r])}
      BY <2>2 DEF OD!Handled
    <3>4. {applied[r][i] : i \in 1..Len(applied[r])} \subseteq OD!Handled
      BY <3>2 DEF OD!Handled
    <3>. QED BY <3>3, <3>4
  <2>4. OD!Handled \subseteq passed /\ passed \ Excused \subseteq OD!Handled
    BY <1>2, <1>6, <2>3 DEF Faithful
  <2>5. OD!Extended
    <3>1. ASSUME NEW i \in Len(readModel) + 1 .. Len(readModel'),
                 NEW j \in Len(readModel) + 1 .. Len(readModel'), i < j
          PROVE  readModel'[i] < readModel'[j]
      <4>1. i - Len(readModel) < j - Len(readModel)
        BY <1>5, <3>1
      <4>. QED BY <1>6, <2>2, <4>1 DEF Faithful
    <3>2. Len(readModel) <= Len(readModel')
      BY <1>5
    <3>. QED BY <1>5, <3>1, <3>2 DEF OD!Extended
  <2>6. OD!Deliver
    BY <1>1, <1>3, <2>1, <2>4, <2>5 DEF OD!Deliver
  <2>. QED BY <2>6 DEF OD!Next
<1>. QED BY <1>7, <1>8

LEMMA StepRefines == PInv /\ [PNext]_pvars => [OD!Next]_(OD!vars)
<1> SUFFICES ASSUME PInv, [PNext]_pvars PROVE [OD!Next]_(OD!vars)
  OBVIOUS
<1>1. ASSUME NEW r \in Replicas, EnsureCheckpoint(r) \/ ReadBatch(r) \/ HandleRow(r) \/ FailRun(r)
      PROVE  UNCHANGED OD!vars
  BY <1>1 DEF EnsureCheckpoint, ReadBatch, HandleRow, FailRun, EndRun, OD!vars, Excused, vars, writerVars
<1>. QED BY <1>1, CommitRefines, OutsideRefines DEF PNext, RunStep

\* The state of the composition stays within its types.
THEOREM PTypeCorrect == PSpec => []PTypeOK
<1>1. PInv => PTypeOK
  BY DEF PInv
<1>. QED BY <1>1, PInvariance, PTL

\* No late commit is passed over; no replica, crash, failing handler or stale
\* certificate makes an event count twice or not at all.
THEOREM ExactlyOnceInOrder == PSpec => ProjectsExactlyOnceInOrder
BY InitRefines, StepRefines, PInvariance, PTL DEF PSpec, ProjectsExactlyOnceInOrder, OD!Spec
=============================================================================
