------------------------- MODULE ClosureProofProofs -------------------------
(***************************************************************************)
(* ClosureProof for every plan, scope and worktree: the proof of closure   *)
(* is sound for every check that was not disturbed.  The invariant adds to *)
(* the properties that a passing record is about a good tree, that a       *)
(* command that passed still stands on a good tree until its scan, and     *)
(* which receipts a status allows.                                         *)
(***************************************************************************)
EXTENDS ClosureProof, TLAPS

RecordInv ==
  \A c \in Check \ disturbed :
    record[c].tree # NoTree /\ record[c].passed => record[c].tree \in Good[c]

RanInv ==
  phase = "ran" /\ exit /\ Plan[step] \notin disturbed => tree \in Good[Plan[step]]

StatusInv ==
  /\ status \in {"active", "review"} => ready = NoTree
  /\ status # "archived" => archive = NoTree

IInv == TypeOK /\ RecordInv /\ RanInv /\ StatusInv /\ ProofIsSound /\ ReceiptsAgree

\* Every step of the plan is a check.
LEMMA PlanStep ==
  ASSUME NEW i \in 1..Len(Plan)
  PROVE  Plan[i] \in Check
  <1>1. Plan \in Seq(Check)
    BY PlanAssumption
  <1> QED
    BY <1>1

\* A record is determined by its two fields.
LEMMA RecordFields ==
  /\ NoRecord \in Record /\ NoRecord.tree = NoTree
  /\ \A t \in Tree, b \in BOOLEAN :
       LET q == [tree |-> t, passed |-> b]
       IN  q \in Record /\ q.tree = t /\ q.passed = b
  BY DEF Record, NoRecord

\* A worker starts at a valid place of the plan with no evidence.
LEMMA FreshStart ==
  1 \in 1..Len(Plan) + 1 /\ [c \in Check |-> NoRecord] \in [Check -> Record]
  <1>1. Len(Plan) \in Nat
    BY PlanAssumption
  <1>2. NoRecord \in Record
    BY RecordFields
  <1> QED
    BY <1>1, <1>2

\* Writing a file a check does not read leaves its verdict as it is.
LEMMA EditOutside ==
  ASSUME NEW c \in Check, NEW t \in Tree, NEW p \in Path, NEW x \in Content,
         p \notin Scope[c], t \in Good[c]
  PROVE  [t EXCEPT ![p] = x] \in Good[c]
  <1> DEFINE u == [t EXCEPT ![p] = x]
  <1>1. u \in Tree
    BY DEF Tree
  <1>2. Scope[c] \subseteq Path
    BY PlanAssumption
  <1>3. Same(c, t, u)
    BY <1>2 DEF Same, Tree
  <1> QED
    BY <1>1, <1>3, GoodAssumption

LEMMA InitHolds == Init => IInv
  <1> SUFFICES ASSUME Init PROVE IInv
    OBVIOUS
  <1>2. TypeOK
    BY FreshStart DEF Init, TypeOK
  <1>3. \A c \in Check : record[c].tree = NoTree
    BY RecordFields DEF Init
  <1> QED
    BY <1>2, <1>3 DEF Init, IInv, RecordInv, RanInv, StatusInv, ProofIsSound, ReceiptsAgree

LEMMA EditHolds ==
  ASSUME IInv, NEW p \in Path, NEW x \in Content, Edit(p, x)
  PROVE  IInv'
  <1> USE DEF IInv, Edit, verdict, worker
  <1>0. phase = "ran" => Plan[step] \in Check
    BY PlanStep, PlanAssumption DEF TypeOK
  <1>1. tree' \in Tree
    BY DEF TypeOK, Tree
  <1>2. disturbed' \subseteq Check /\ disturbed \subseteq disturbed'
    BY <1>0 DEF TypeOK
  <1>3. TypeOK'
    BY <1>1, <1>2 DEF TypeOK
  <1>4. RecordInv'
    BY <1>2 DEF RecordInv
  <1>5. RanInv'
    <2> SUFFICES ASSUME phase = "ran", exit, Plan[step] \notin disturbed'
                 PROVE  tree' \in Good[Plan[step]]
      BY DEF RanInv
    <2>1. p \notin Scope[Plan[step]] /\ tree \in Good[Plan[step]]
      BY <1>2 DEF RanInv
    <2> QED
      BY <1>0, <2>1, EditOutside DEF TypeOK
  <1>6. StatusInv' /\ ReceiptsAgree'
    BY DEF StatusInv, ReceiptsAgree
  <1>7. ProofIsSound'
    BY <1>2 DEF ProofIsSound
  <1> QED
    BY <1>3, <1>4, <1>5, <1>6, <1>7

LEMMA ServerStepHolds ==
  ASSUME IInv, TurnCompleted \/ Close \/ Continue
  PROVE  IInv'
  <1> USE DEF IInv, verdict, worker
  <1>1. CASE TurnCompleted
    <2>1. TypeOK'
      BY <1>1, FreshStart DEF TypeOK, TurnCompleted, Spawn
    <2>2. RecordInv'
      BY <1>1, RecordFields DEF RecordInv, TurnCompleted, Spawn
    <2>3. RanInv' /\ StatusInv' /\ ProofIsSound' /\ ReceiptsAgree'
      BY <1>1 DEF RanInv, StatusInv, ProofIsSound, ReceiptsAgree, TurnCompleted, Spawn
    <2> QED
      BY <2>1, <2>2, <2>3
  <1>2. CASE Close
    <2>1. TypeOK'
      BY <1>2, FreshStart DEF TypeOK, Close, Spawn
    <2>2. RecordInv'
      BY <1>2, RecordFields DEF RecordInv, Close, Spawn
    <2>3. RanInv' /\ StatusInv' /\ ProofIsSound' /\ ReceiptsAgree'
      BY <1>2 DEF RanInv, StatusInv, ProofIsSound, ReceiptsAgree, Close, Spawn
    <2> QED
      BY <2>1, <2>2, <2>3
  <1>3. CASE Continue
    <2>1. TypeOK'
      BY <1>3 DEF TypeOK, Continue
    <2>2. RecordInv' /\ RanInv'
      BY <1>3 DEF RecordInv, RanInv, Continue
    <2>3. StatusInv' /\ ProofIsSound' /\ ReceiptsAgree'
      BY <1>3 DEF StatusInv, ProofIsSound, ReceiptsAgree, Continue
    <2> QED
      BY <2>1, <2>2, <2>3
  <1> QED
    BY <1>1, <1>2, <1>3

LEMMA WorkerStepHolds ==
  ASSUME IInv, WorkerStep
  PROVE  IInv'
  <1> USE DEF IInv, verdict
  <1>0. Len(Plan) \in Nat
    BY PlanAssumption
  <1>1. StatusInv' /\ ProofIsSound' /\ ReceiptsAgree'
    BY DEF WorkerStep, RunCommand, CommandRejected, AfterScan, FinalScan, WorkerFails,
           StatusInv, ProofIsSound, ReceiptsAgree
  <1>2. CASE RunCommand
    <2>1. TypeOK'
      BY <1>0, <1>2 DEF TypeOK, RunCommand
    <2>2. RecordInv' /\ RanInv'
      BY <1>2 DEF RecordInv, RanInv, RunCommand
    <2> QED
      BY <1>1, <2>1, <2>2
  <1>3. CASE CommandRejected
    <2>1. TypeOK'
      BY <1>0, <1>3 DEF TypeOK, CommandRejected
    <2>2. RecordInv' /\ RanInv'
      BY <1>3 DEF RecordInv, RanInv, CommandRejected
    <2> QED
      BY <1>1, <2>1, <2>2
  <1>4. CASE AfterScan
    <2> DEFINE d == Plan[step]
               q == [tree |-> tree, passed |-> exit]
    <2>1. d \in Check
      BY <1>0, <1>4, PlanStep DEF TypeOK, AfterScan
    <2>2. q \in Record /\ q.tree = tree /\ q.passed = exit
      BY RecordFields DEF TypeOK
    <2> HIDE DEF d, q
    <2>3. record' = [record EXCEPT ![d] = q]
      BY <1>4 DEF AfterScan, d, q
    <2>4. TypeOK'
      <3>1. record' \in [Check -> Record]
        BY <2>1, <2>2, <2>3 DEF TypeOK
      <3>2. step' \in 1..Len(Plan) + 1
        BY <1>0, <1>4 DEF TypeOK, AfterScan
      <3> QED
        BY <1>4, <3>1, <3>2 DEF TypeOK, AfterScan
    <2>5. RecordInv'
      <3> SUFFICES ASSUME NEW c \in Check \ disturbed,
                          record'[c].tree # NoTree, record'[c].passed
                   PROVE  record'[c].tree \in Good[c]
        BY <1>4 DEF RecordInv, AfterScan
      <3>1. CASE c = d
        <4>1. record'[c] = q
          BY <2>1, <2>3, <3>1 DEF TypeOK
        <4>2. exit /\ d \notin disturbed /\ phase = "ran"
          BY <1>4, <2>2, <3>1, <4>1 DEF AfterScan
        <4>3. tree \in Good[d]
          BY <4>2 DEF RanInv, d
        <4> QED
          BY <2>2, <3>1, <4>1, <4>3
      <3>2. CASE c # d
        BY <2>3, <3>2 DEF TypeOK, RecordInv
      <3> QED
        BY <3>1, <3>2
    <2>6. RanInv'
      BY <1>4 DEF RanInv, AfterScan
    <2> QED
      BY <1>1, <2>4, <2>5, <2>6
  <1>5. CASE FinalScan
    <2>1. TypeOK'
      BY <1>0, <1>5, NoTreeAssumption DEF TypeOK, FinalScan
    <2>2. RecordInv' /\ RanInv'
      BY <1>5 DEF RecordInv, RanInv, FinalScan
    <2> QED
      BY <1>1, <2>1, <2>2
  <1>6. CASE WorkerFails
    <2>1. TypeOK'
      BY <1>0, <1>6 DEF TypeOK, WorkerFails
    <2>2. RecordInv' /\ RanInv'
      BY <1>6 DEF RecordInv, RanInv, WorkerFails
    <2> QED
      BY <1>1, <2>1, <2>2
  <1> QED
    BY <1>2, <1>3, <1>4, <1>5, <1>6 DEF WorkerStep

LEMMA FinalizeHolds ==
  ASSUME IInv, Finalize
  PROVE  IInv'
  <1> USE DEF IInv, verdict
  <1>1. current \in Tree
    BY DEF TypeOK, Finalize
  <1>2. ASSUME NEW c \in Check \ disturbed, Assessed(c)
        PROVE  current \in Good[c]
    <2>1. record[c] \in Record /\ record[c].tree # NoTree /\ record[c].passed
      BY <1>2 DEF TypeOK, Assessed
    <2>2. record[c].tree \in Tree
      BY <2>1 DEF Record
    <2>3. record[c].tree \in Good[c]
      BY <2>1 DEF RecordInv
    <2> QED
      BY <1>1, <1>2, <2>2, <2>3, GoodAssumption DEF Assessed
  <1>3. TypeOK'
    BY <1>1 DEF TypeOK, Finalize
  <1>4. RecordInv' /\ RanInv'
    BY DEF RecordInv, RanInv, Finalize
  <1>5. StatusInv' /\ ReceiptsAgree'
    BY <1>1, NoTreeAssumption DEF StatusInv, ReceiptsAgree, Finalize
  <1>6. ProofIsSound'
    <2>1. CASE \A c \in Check : Assessed(c)
      BY <1>2, <2>1 DEF ProofIsSound, Finalize
    <2>2. CASE ~(\A c \in Check : Assessed(c))
      BY <2>2 DEF ProofIsSound, Finalize
    <2> QED
      BY <2>1, <2>2
  <1> QED
    BY <1>3, <1>4, <1>5, <1>6

LEMMA StepHolds == IInv /\ [Next]_vars => IInv'
  <1> SUFFICES ASSUME IInv, [Next]_vars PROVE IInv'
    OBVIOUS
  <1>1. CASE \E p \in Path, x \in Content : Edit(p, x)
    BY <1>1, EditHolds
  <1>2. CASE TurnCompleted \/ Close \/ Continue
    BY <1>2, ServerStepHolds
  <1>3. CASE WorkerStep
    BY <1>3, WorkerStepHolds
  <1>4. CASE Finalize
    BY <1>4, FinalizeHolds
  <1>5. CASE UNCHANGED vars
    BY <1>5 DEF IInv, TypeOK, RecordInv, RanInv, StatusInv, ProofIsSound, ReceiptsAgree,
                Assessed, vars, verdict, worker
  <1> QED
    BY <1>1, <1>2, <1>3, <1>4, <1>5 DEF Next

LEMMA Invariance == Spec => []IInv
  BY InitHolds, StepHolds, PTL DEF Spec

\* The worker's and the server's variables keep their types.
THEOREM ClosureTypeCorrect == Spec => []TypeOK
  BY Invariance, PTL DEF IInv

\* For every plan and every interleaving of edits with the worker, a verified
\* workspace passes each check that was not disturbed.
THEOREM ProofIsSoundHolds == Spec => []ProofIsSound
  BY Invariance, PTL DEF IInv

\* A mission is archived for the workspace it was found ready for.
THEOREM ReceiptsAgreeHolds == Spec => []ReceiptsAgree
  BY Invariance, PTL DEF IInv
=============================================================================
