----------------------- MODULE MissionProjectionProofs -----------------------
(***************************************************************************)
(* Proofs about MissionProjection, for every set of runs, providers,       *)
(* requests and checks and for every bound.                                *)
(***************************************************************************)
EXTENDS MissionProjection, TLAPS

\* An attempt that was made has a route: the run is never absent then.
RoutedInv ==
  \A a \in Attention, n \in Attempt :
    response[a][n] # "none" => route[a][n] # NoRun

\* A mission without a run has had none before.
HistoryInv == run = NoRun => earlier = {}

IInv ==
  /\ TypeOK
  /\ AnsweredAtMostOnce
  /\ RoutedInv
  /\ OpenAnswerOfCurrentRun
  /\ ClosureIsProvenTwice
  /\ HistoryInv
  /\ PackOfCurrentRun

\* What every commit does to the two counters.
LEMMA CommitCounts ==
  ASSUME TypeOK, NEW at \in Time, Commit(at)
  PROVE  /\ sequence' \in 0..MaxSequence /\ sequence' = sequence + 1
         /\ updated' \in Time /\ updated' >= updated
         /\ updated' = Logical(at)
BY BoundAssumption DEF TypeOK, Commit, Logical, Time

\* A receipt of the present head has the type of a receipt.
LEMMA ReceiptType ==
  ASSUME TypeOK, NEW u \in Subject, NEW t \in Time
  PROVE  /\ CurrentReceipt(u, t) \in Receipt
         /\ CurrentReceipt(u, t) # NoReceipt
         /\ CurrentReceipt(u, t).subject = u
         /\ CurrentReceipt(u, t).sequence = sequence
         /\ CurrentReceipt(u, t).at = t
BY NoReceiptAssumption DEF TypeOK, CurrentReceipt, Receipt

\* The fields of a stored receipt.
LEMMA ReceiptFields ==
  ASSUME NEW x \in Receipt
  PROVE  x.sequence \in Nat /\ x.at \in Nat
BY BoundAssumption DEF Receipt, Time

LEMMA InitHolds == Init => IInv
<1> SUFFICES ASSUME Init PROVE IInv
  OBVIOUS
<1> USE DEF Init
<1>1. TypeOK
  <2>1. sequence \in 0..MaxSequence /\ updated \in Time
    BY BoundAssumption DEF Time
  <2>2. /\ attention \in [Attention -> AttentionState]
        /\ evidence \in [Check -> EvidenceStatus]
    BY DEF AttentionState, EvidenceStatus
  <2>3. response \in [Attention -> [Attempt -> ResponseState]]
    BY DEF ResponseState
  <2>4. route \in [Attention -> [Attempt -> Run \cup {NoRun}]]
    OBVIOUS
  <2>5. QED  BY <2>1, <2>2, <2>3, <2>4 DEF TypeOK
<1>2. AnsweredAtMostOnce
  BY DEF AnsweredAtMostOnce, MayApply
<1>3. RoutedInv /\ OpenAnswerOfCurrentRun
  BY DEF RoutedInv, OpenAnswerOfCurrentRun
<1>4. ClosureIsProvenTwice /\ PackOfCurrentRun /\ HistoryInv
  BY DEF ClosureIsProvenTwice, PackOfCurrentRun, HistoryInv
<1>5. QED  BY <1>1, <1>2, <1>3, <1>4 DEF IInv

\* An event that leaves the answers, the work and the proofs of a mission
\* alone preserves all that is said of them, if it does not close it.
LEMMA OthersUnchanged ==
  ASSUME IInv, NEW at \in Time, Commit(at),
         UNCHANGED <<work, answers, proof>>,
         configured' \in BOOLEAN,
         status' \in Status \cup {"absent"},
         status' \in {"ready", "archived"} => status' = status
  PROVE  IInv'
<1> USE DEF IInv, work, answers, proof
<1>0. TypeOK'
  BY CommitCounts DEF TypeOK
<1>1. AnsweredAtMostOnce' /\ RoutedInv'
  BY DEF AnsweredAtMostOnce, MayApply, RoutedInv
<1>2. OpenAnswerOfCurrentRun' /\ PackOfCurrentRun' /\ HistoryInv'
  BY DEF OpenAnswerOfCurrentRun, PackOfCurrentRun, HistoryInv
<1>3. ClosureIsProvenTwice'
  BY CommitCounts, ReceiptFields DEF ClosureIsProvenTwice, TypeOK, Time
<1>4. QED  BY <1>0, <1>1, <1>2, <1>3

\* The six events about creation and runs.
LEMMA MissionEventHolds ==
  ASSUME IInv, NEW at \in Time, MissionEvent(at) PROVE IInv'
<1> USE DEF IInv
<1>1. CASE MissionCreated(at)
  BY <1>1, OthersUnchanged DEF MissionCreated, TypeOK, Status
<1>2. CASE ClosureConfigured(at)
  BY <1>2, OthersUnchanged DEF ClosureConfigured, TypeOK, Status
<1>3. ASSUME NEW r \in Run, NEW v \in Provider, RunStarted(r, v, at) PROVE IInv'
  <2> USE <1>3 DEF RunStarted, answers, proof
  <2>1. TypeOK'
    BY CommitCounts DEF TypeOK, Status
  <2>2. AnsweredAtMostOnce' /\ RoutedInv'
    BY DEF AnsweredAtMostOnce, MayApply, RoutedInv
  <2>3. OpenAnswerOfCurrentRun'
    <3>1. \A a \in Attention, n \in Attempt :
            response[a][n] \notin {"requested", "reconcile"}
      BY DEF OpenAnswerOfCurrentRun, RoutedInv
    <3>2. QED  BY <3>1 DEF OpenAnswerOfCurrentRun
  <2>4. ClosureIsProvenTwice'
    BY CommitCounts, ReceiptFields DEF ClosureIsProvenTwice, TypeOK, Time
  <2>5. PackOfCurrentRun' /\ HistoryInv'
    BY NoneAssumption DEF PackOfCurrentRun, HistoryInv
  <2>6. QED  BY <2>1, <2>2, <2>3, <2>4, <2>5
<1>4. ASSUME NEW r \in Run, NEW v \in Provider, RunContinued(r, v, at) PROVE IInv'
  <2> USE <1>4 DEF RunContinued, answers
  <2>1. TypeOK'
    BY CommitCounts DEF TypeOK, Status, EvidenceStatus
  <2>2. AnsweredAtMostOnce' /\ RoutedInv'
    BY DEF AnsweredAtMostOnce, MayApply, RoutedInv
  <2>3. OpenAnswerOfCurrentRun'
    BY DEF OpenAnswerOfCurrentRun, AnsweredAtMostOnce, Unresolved
  <2>4. ClosureIsProvenTwice' /\ PackOfCurrentRun' /\ HistoryInv'
    BY NoneAssumption DEF ClosureIsProvenTwice, PackOfCurrentRun, HistoryInv, TypeOK
  <2>5. QED  BY <2>1, <2>2, <2>3, <2>4
<1>5. ASSUME NEW s \in Session, ProviderSessionBound(s, at) PROVE IInv'
  <2> USE <1>5 DEF ProviderSessionBound, answers, proof
  <2>1. TypeOK'
    BY CommitCounts DEF TypeOK, Status
  <2>2. AnsweredAtMostOnce' /\ RoutedInv'
    BY DEF AnsweredAtMostOnce, MayApply, RoutedInv
  <2>3. OpenAnswerOfCurrentRun' /\ PackOfCurrentRun' /\ HistoryInv'
    BY DEF OpenAnswerOfCurrentRun, PackOfCurrentRun, HistoryInv
  <2>4. ClosureIsProvenTwice'
    BY CommitCounts, ReceiptFields DEF ClosureIsProvenTwice, TypeOK, Time
  <2>5. QED  BY <2>1, <2>2, <2>3, <2>4
<1>6. ASSUME NEW to \in Status, StatusChanged(to, at) PROVE IInv'
  BY <1>6, OthersUnchanged DEF StatusChanged, TypeOK
<1>7. CASE WorktreeClaimed(at)
  BY <1>7, OthersUnchanged DEF WorktreeClaimed, mission, TypeOK
<1>8. QED  BY <1>1, <1>2, <1>3, <1>4, <1>5, <1>6, <1>7 DEF MissionEvent

\* The events about requests and answers touch neither runs nor proofs.
LEMMA AnswerEventHolds ==
  ASSUME IInv, NEW at \in Time, AnswerEvent(at) PROVE IInv'
<1> USE DEF IInv
<1>0. PICK a \in Attention :
        \/ AttentionOpened(a, at) \/ AttentionExpired(a, at)
        \/ \E n \in Attempt :
             \/ ResponseRequested(a, n, at) \/ ResponseAcknowledged(a, n, at)
             \/ ResponseNotApplied(a, n, at) \/ ResponseUnknown(a, n, at)
  BY DEF AnswerEvent
<1>1. Commit(at) /\ UNCHANGED <<status, configured, work, proof>>
  BY <1>0 DEF AttentionOpened, AttentionExpired, ResponseRequested,
              ResponseAcknowledged, ResponseNotApplied, ResponseUnknown
<1>2. ClosureIsProvenTwice' /\ PackOfCurrentRun' /\ HistoryInv'
  BY <1>1, CommitCounts, ReceiptFields
  DEF ClosureIsProvenTwice, PackOfCurrentRun, HistoryInv, TypeOK, Time, work, proof
<1> DEFINE Rest == TypeOK' /\ AnsweredAtMostOnce' /\ RoutedInv'
                   /\ OpenAnswerOfCurrentRun'
<1> DEFINE Typed == /\ attention' \in [Attention -> AttentionState]
                    /\ response' \in [Attention -> [Attempt -> ResponseState]]
                    /\ route' \in [Attention -> [Attempt -> Run \cup {NoRun}]]
<1>3. ASSUME Typed PROVE TypeOK'
  BY <1>1, <1>3, CommitCounts DEF TypeOK, work, proof
<1>4. CASE AttentionOpened(a, at) \/ AttentionExpired(a, at)
  <2>1. Typed
    BY <1>4 DEF AttentionOpened, AttentionExpired, TypeOK, AttentionState
  <2>2. AnsweredAtMostOnce'
    <3>1. /\ response' = response
          /\ attention[a] \in {"none", "open"} /\ attention'[a] \in {"open", "expired"}
          /\ \A b \in Attention \ {a} : attention'[b] = attention[b]
      BY <1>4 DEF AttentionOpened, AttentionExpired, TypeOK
    <3>2. AnsweredAtMostOnce
      OBVIOUS
    <3> HIDE DEF IInv
    <3>3. ASSUME NEW b \in Attention, b # a
          PROVE  /\ attention'[b] = attention[b]
                 /\ \A n \in Attempt : response'[b][n] = response[b][n]
      BY <3>1, <3>3
    <3>4. \A n \in Attempt : ~MayApply(a, n) /\ response'[a][n] = response[a][n]
      BY <3>1, <3>2 DEF AnsweredAtMostOnce
    <3>5. QED
      BY <3>1, <3>2, <3>3, <3>4 DEF AnsweredAtMostOnce, MayApply
  <2>3. RoutedInv' /\ OpenAnswerOfCurrentRun'
    BY <1>4 DEF AttentionOpened, AttentionExpired, RoutedInv,
                OpenAnswerOfCurrentRun, work
  <2>4. QED  BY <1>2, <2>1, <2>2, <2>3, <1>3
<1>5. ASSUME NEW n \in Attempt, ResponseRequested(a, n, at) PROVE Rest
  <2> USE <1>5 DEF ResponseRequested
  <2>1. Typed
    BY DEF TypeOK, AttentionState, ResponseState
  <2>2. AnsweredAtMostOnce'
    BY DEF TypeOK, AnsweredAtMostOnce, MayApply
  <2>3. RoutedInv' /\ OpenAnswerOfCurrentRun'
    BY DEF TypeOK, RoutedInv, OpenAnswerOfCurrentRun, work
  <2>4. QED  BY <2>1, <2>2, <2>3, <1>3
<1>6. ASSUME NEW n \in Attempt, ResponseAcknowledged(a, n, at) PROVE Rest
  <2> USE <1>6 DEF ResponseAcknowledged
  <2>1. Typed
    BY DEF TypeOK, AttentionState, ResponseState
  <2>2. AnsweredAtMostOnce'
    BY DEF TypeOK, AnsweredAtMostOnce, MayApply
  <2>3. RoutedInv' /\ OpenAnswerOfCurrentRun'
    BY DEF TypeOK, RoutedInv, OpenAnswerOfCurrentRun, work
  <2>4. QED  BY <2>1, <2>2, <2>3, <1>3
<1>7. ASSUME NEW n \in Attempt, ResponseNotApplied(a, n, at) PROVE Rest
  <2> USE <1>7 DEF ResponseNotApplied
  <2>1. Typed
    BY DEF TypeOK, AttentionState, ResponseState
  <2>2. AnsweredAtMostOnce'
    BY DEF TypeOK, AnsweredAtMostOnce, MayApply
  <2>3. RoutedInv' /\ OpenAnswerOfCurrentRun'
    BY DEF TypeOK, RoutedInv, OpenAnswerOfCurrentRun, work
  <2>4. QED  BY <2>1, <2>2, <2>3, <1>3
<1>8. ASSUME NEW n \in Attempt, ResponseUnknown(a, n, at) PROVE Rest
  <2> USE <1>8 DEF ResponseUnknown
  <2>1. Typed
    BY DEF TypeOK, AttentionState, ResponseState
  <2>2. AnsweredAtMostOnce'
    BY DEF TypeOK, AnsweredAtMostOnce, MayApply
  <2>3. RoutedInv' /\ OpenAnswerOfCurrentRun'
    BY DEF TypeOK, RoutedInv, OpenAnswerOfCurrentRun, work
  <2>4. QED  BY <2>1, <2>2, <2>3, <1>3
<1>9. QED  BY <1>0, <1>2, <1>4, <1>5, <1>6, <1>7, <1>8

\* The events about evidence and proofs touch neither runs nor answers.
LEMMA ProofEventHolds ==
  ASSUME IInv, NEW at \in Time, ProofEvent(at) PROVE IInv'
<1> USE DEF IInv
<1>1. Commit(at) /\ UNCHANGED <<configured, work, answers>>
  BY DEF ProofEvent, EvidenceChanged, EvidencePackRecorded, MissionReady,
         MissionArchived
<1>2. AnsweredAtMostOnce' /\ RoutedInv' /\ OpenAnswerOfCurrentRun' /\ HistoryInv'
  BY <1>1 DEF AnsweredAtMostOnce, MayApply, RoutedInv, OpenAnswerOfCurrentRun,
              HistoryInv, work, answers
<1>3. ASSUME NEW c \in Check, NEW e \in EvidenceStatus, EvidenceChanged(c, e, at)
      PROVE  IInv'
  <2> USE <1>3 DEF EvidenceChanged, work, answers
  <2>1. TypeOK'
    BY CommitCounts DEF TypeOK
  <2>2. ClosureIsProvenTwice' /\ PackOfCurrentRun'
    BY CommitCounts, ReceiptFields
    DEF ClosureIsProvenTwice, PackOfCurrentRun, TypeOK, Time
  <2>3. QED  BY <1>2, <2>1, <2>2
<1>4. CASE EvidencePackRecorded(at)
  <2> USE <1>4 DEF EvidencePackRecorded, work, answers
  <2>1. TypeOK'
    BY CommitCounts DEF TypeOK
  <2>2. ClosureIsProvenTwice' /\ PackOfCurrentRun'
    BY CommitCounts, ReceiptFields
    DEF ClosureIsProvenTwice, PackOfCurrentRun, TypeOK, Time
  <2>3. QED  BY <1>2, <2>1, <2>2
<1>5. ASSUME NEW u \in Subject, NEW t \in Time, MissionReady(u, t, at) PROVE IInv'
  <2> USE <1>5 DEF MissionReady, work, answers
  <2>1. TypeOK'
    BY CommitCounts, ReceiptType DEF TypeOK, Status
  <2>2. ClosureIsProvenTwice' /\ PackOfCurrentRun'
    BY CommitCounts, ReceiptType DEF ClosureIsProvenTwice, PackOfCurrentRun, TypeOK
  <2>3. QED  BY <1>2, <2>1, <2>2
<1>6. ASSUME NEW u \in Subject, NEW t \in Time, MissionArchived(u, t, at)
      PROVE  IInv'
  <2> USE <1>6 DEF MissionArchived, work, answers
  <2>1. TypeOK'
    BY CommitCounts, ReceiptType DEF TypeOK, Status
  <2>2. PackOfCurrentRun'
    BY DEF PackOfCurrentRun
  <2>3. ClosureIsProvenTwice'
    BY CommitCounts, ReceiptType, ReceiptFields
    DEF ClosureIsProvenTwice, TypeOK, Time
  <2>4. QED  BY <1>2, <2>1, <2>2, <2>3
<1>7. QED  BY <1>3, <1>4, <1>5, <1>6 DEF ProofEvent

LEMMA StepHolds == IInv /\ [Next]_projection => IInv'
<1> SUFFICES ASSUME IInv, [Next]_projection PROVE IInv'
  OBVIOUS
<1>1. CASE Next
  BY <1>1, MissionEventHolds, AnswerEventHolds, ProofEventHolds DEF Next
<1>2. CASE UNCHANGED projection
  BY <1>2
  DEF projection, mission, work, answers, proof, IInv, TypeOK,
      AnsweredAtMostOnce, MayApply, RoutedInv, HistoryInv,
      OpenAnswerOfCurrentRun, ClosureIsProvenTwice, PackOfCurrentRun
<1>3. QED  BY <1>1, <1>2

LEMMA Invariance == Spec => []IInv
BY InitHolds, StepHolds, PTL DEF Spec

-----------------------------------------------------------------------------
\* Every event that apply accepts leaves a well-typed projection.
THEOREM ProjectionTypeCorrect == Spec => []TypeOK
<1>1. IInv => TypeOK  BY DEF IInv
<1>2. QED  BY <1>1, Invariance, PTL

\* At most one answer to a request may ever take effect, whatever events are
\* committed: ResponseRequested is accepted only from Open.
THEOREM AnsweredAtMostOnceHolds == Spec => []AnsweredAtMostOnce
<1>1. IInv => AnsweredAtMostOnce  BY DEF IInv
<1>2. QED  BY <1>1, Invariance, PTL

\* An outstanding answer was routed to the current run, since RunContinued
\* refuses unresolved requests, and it drops the pack; no run is continued
\* twice.
THEOREM NothingOfEarlierRunHolds == Spec => []NothingOfEarlierRun
<1>1. IInv => NothingOfEarlierRun  BY DEF IInv, NothingOfEarlierRun
<1>2. QED  BY <1>1, Invariance, PTL

\* Archiving needs two proofs of one subject at growing sequences and times.
THEOREM ClosureIsProvenTwiceHolds == Spec => []ClosureIsProvenTwice
<1>1. IInv => ClosureIsProvenTwice  BY DEF IInv
<1>2. QED  BY <1>1, Invariance, PTL

\* No event changes the status, run or proofs of an archived mission.
THEOREM ArchivedIsFinalHolds == Spec => ArchivedIsFinal
<1> DEFINE Final == status = "archived" => UNCHANGED <<status, work, ready, archive>>
<1>1. [Next]_projection => [Final]_projection
  <2> SUFFICES ASSUME Next, status = "archived"
               PROVE  UNCHANGED <<status, work, ready, archive>>
    OBVIOUS
  <2>1. PICK at \in Time : MissionEvent(at) \/ AnswerEvent(at) \/ ProofEvent(at)
    BY DEF Next
  <2>2. CASE MissionEvent(at)
    BY <2>2 DEF MissionEvent, MissionCreated, ClosureConfigured, RunStarted,
       RunContinued, ProviderSessionBound, StatusChanged, CanPersistFrom,
       WorktreeClaimed, mission, proof
  <2>3. CASE AnswerEvent(at)
    BY <2>3 DEF AnswerEvent, AttentionOpened, AttentionExpired,
       ResponseRequested, ResponseAcknowledged, ResponseNotApplied,
       ResponseUnknown, proof
  <2>4. CASE ProofEvent(at)
    BY <2>4 DEF ProofEvent, EvidenceChanged, EvidencePackRecorded,
       MissionReady, MissionArchived
  <2>5. QED  BY <2>1, <2>2, <2>3, <2>4
<1>2. QED  BY <1>1, PTL DEF Spec, ArchivedIsFinal
=============================================================================
