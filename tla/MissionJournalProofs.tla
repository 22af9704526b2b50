------------------------ MODULE MissionJournalProofs ------------------------
(***************************************************************************)
(* Proofs about MissionJournal for every set of processes and events and   *)
(* every bound on frames and faults.                                       *)
(***************************************************************************)
EXTENDS MissionJournal, TLAPS

USE ProcessAssumption, FramesAssumption, FaultsAssumption,
    PowerLossAssumption, NoFrameAssumption

(***************************************************************************)
(* The operators of the model.                                             *)
(***************************************************************************)

\* First, the model of a truncated file, is a sequence of n frames.
LEMMA FirstIsSeq ==
  ASSUME NEW s \in Seq(Frame), NEW n \in 0..Len(s)
  PROVE  First(s, n) \in Seq(Frame) /\ Len(First(s, n)) = n
                        /\ \A i \in 1..n : First(s, n)[i] = s[i]
BY DEF First

\* Equal length and equal elements make sequences equal.
LEMMA SeqExtensional ==
  ASSUME NEW s \in Seq(Frame), NEW t \in Seq(Frame), Len(s) = Len(t),
         \A i \in 1..Len(s) : s[i] = t[i]
  PROVE  s = t
OBVIOUS

\* The records of the model are in their types.
LEMMA FenceTypes ==
  NoFence \in Fence /\ \A s \in Seq(Frame) : FenceAt(s) \in Fence
BY DEF NoFence, FenceAt, Fence

LEMMA SnapshotTypes ==
  /\ NoSnapshot \in Snapshot
  /\ \A k \in SnapshotKind, s \in Seq(Frame), n \in Nat :
       [kind |-> k, state |-> s, offset |-> n] \in Snapshot
  /\ \A s \in Snapshot : s.state \in Seq(Frame) /\ s.offset \in Nat
BY DEF NoSnapshot, Snapshot, SnapshotKind

LEMMA FileLengthType == TypeOK => FileLength \in Nat
BY DEF TypeOK, FileLength, Offset

\* A complete frame ends at an even offset.
LEMMA FramesOfOffset == \A n \in Nat : (2 * n) \div 2 = n
  OBVIOUS

\* A replay that starts from an authenticated snapshot, or from nothing,
\* ends in the journal itself.
LEMMA ReplayIsJournal ==
  ASSUME TypeOK PROVE Replay = journal
<1> DEFINE from == IF Authentic(snapshot) THEN snapshot.state ELSE <<>>
           skip == IF Authentic(snapshot) THEN snapshot.offset \div 2 ELSE 0
<1>1. from \in Seq(Frame)
  BY SnapshotTypes DEF TypeOK
<1>2. Prefix(from, journal) /\ skip = Len(from)
  <2>1. CASE Authentic(snapshot)
    <3>1. snapshot.offset = 2 * Len(snapshot.state)
      BY <2>1 DEF Authentic, Offset
    <3>2. Len(snapshot.state) \in Nat
      BY <1>1, <2>1
    <3>3. (2 * Len(snapshot.state)) \div 2 = Len(snapshot.state)
      BY <3>2, FramesOfOffset
    <3>4. QED  BY <2>1, <3>1, <3>3 DEF Authentic
  <2>2. CASE ~Authentic(snapshot)
    BY <2>2 DEF Prefix, TypeOK
  <2>3. QED  BY <2>1, <2>2
<1>3. Replay = [i \in 1..(Len(from) + (Len(journal) - skip)) |->
                  IF i <= Len(from) THEN from[i] ELSE journal[i - Len(from) + skip]]
  BY DEF Replay
<1> HIDE DEF from, skip
<1>4. Len(from) + (Len(journal) - skip) = Len(journal)
  BY <1>1, <1>2 DEF TypeOK
<1>5. Replay = [i \in 1..Len(journal) |->
                  IF i <= Len(from) THEN from[i] ELSE journal[i - Len(from) + skip]]
  BY <1>3, <1>4
<1>6. \A i \in 1..Len(journal) :
        (IF i <= Len(from) THEN from[i] ELSE journal[i - Len(from) + skip]) = journal[i]
  BY <1>1, <1>2 DEF Prefix, TypeOK
<1>7. Replay = [i \in 1..Len(journal) |-> journal[i]]
  BY <1>5, <1>6
<1>8. Replay \in Seq(Frame) /\ Len(Replay) = Len(journal)
      /\ \A i \in 1..Len(journal) : Replay[i] = journal[i]
  BY <1>7 DEF TypeOK
<1>9. QED  BY <1>8, SeqExtensional DEF TypeOK

-----------------------------------------------------------------------------
(***************************************************************************)
(* Types.  A frame is appended only while one is pending, so the type of   *)
(* the journal rests on PendingInv.                                        *)
(***************************************************************************)
PendingInv == \A p \in Process : phase[p] \in Committing => pending[p] \in Frame

LEMMA InitTypes == Init => TypeOK /\ PendingInv
<1> SUFFICES ASSUME Init PROVE TypeOK /\ PendingInv
  OBVIOUS
<1> USE DEF Init
<1>1. journal \in Seq(Frame) /\ head \in Seq(Frame) /\ headStable \in Seq(Frame)
  OBVIOUS
<1>2. torn \in BOOLEAN /\ poisoned \in [Process -> BOOLEAN]
  OBVIOUS
<1>3. synced \in 0..Len(journal) /\ faults \in 0..MaxFaults /\ acked \subseteq Frame
  OBVIOUS
<1>4. snapshot \in Snapshot /\ lock \in Process \cup {NoProcess}
  BY SnapshotTypes
<1>5. phase \in [Process -> Phase] /\ replayed \in [Process -> Seq(Frame)]
  BY DEF Phase
<1>6. pending \in [Process -> Frame \cup {NoFrame}] /\ PendingInv
  BY DEF PendingInv, Committing
<1>7. fence \in [Process -> Fence] /\ offer \in Fence
  BY FenceTypes
<1>8. QED
  BY <1>1, <1>2, <1>3, <1>4, <1>5, <1>6, <1>7 DEF TypeOK

LEMMA RepairTypes ==
  ASSUME TypeOK, RepairTail
  PROVE  /\ journal' \in Seq(Frame) /\ torn' \in BOOLEAN /\ ~torn'
         /\ synced' \in 0..Len(journal')
<1>1. journal' = journal /\ torn' = FALSE
  BY DEF RepairTail
<1>2. synced' = Len(journal) \/ synced' = synced
  BY DEF RepairTail
<1>3. Len(journal) \in Nat /\ synced \in 0..Len(journal)
  BY DEF TypeOK
<1>4. synced' \in 0..Len(journal')
  BY <1>1, <1>2, <1>3
<1>5. QED  BY <1>1, <1>4 DEF TypeOK

LEMMA StepTypes ==
  ASSUME TypeOK, PendingInv, [Next]_vars
  PROVE  TypeOK' /\ PendingInv'
<1> USE DEF TypeOK, PendingInv, Goto, Phase, Holding, Opening, Committing,
            disk, memory
<1> DEFINE Good == TypeOK' /\ PendingInv'
<1>1. ASSUME NEW p \in Process, OpenLock(p) PROVE Good
  BY <1>1, FenceTypes DEF OpenLock
<1>2. ASSUME NEW p \in Process, OpenRefused(p) PROVE Good
  BY <1>2 DEF OpenRefused
<1>3. ASSUME NEW p \in Process, OpenInvalid(p) PROVE Good
  <2>1. RepairTail
    BY <1>3 DEF OpenInvalid
  <2>2. QED  BY <1>3, <2>1, RepairTypes DEF OpenInvalid, DropStore
<1>4. ASSUME NEW p \in Process, OpenError(p) PROVE Good
  BY <1>4 DEF OpenError, DropStore, Fault
<1>5. ASSUME NEW p \in Process, OpenReplay(p) PROVE Good
  <2>1. RepairTail
    BY <1>5 DEF OpenReplay
  <2>2. QED  BY <1>5, <2>1, RepairTypes, ReplayIsJournal DEF OpenReplay
<1>6. ASSUME NEW p \in Process, OpenReconcile(p) PROVE Good
  BY <1>6 DEF OpenReconcile
<1>7. ASSUME NEW p \in Process, OpenReconciled(p) PROVE Good
  BY <1>7 DEF OpenReconciled
<1>8. ASSUME NEW p \in Process, OpenFinish(p) PROVE Good
  <2>1. snapshot' \in Snapshot
    BY <1>8, SnapshotTypes, FileLengthType DEF OpenFinish, SnapshotKind
  <2>2. \/ Goto(p, "vacant") /\ DropStore(p)
        \/ Goto(p, "owned") /\ UNCHANGED <<lock, memory>>
    BY <1>8 DEF OpenFinish
  <2>3. CASE Goto(p, "vacant") /\ DropStore(p)
    BY <1>8, <2>1, <2>3 DEF OpenFinish, DropStore
  <2>4. CASE Goto(p, "owned") /\ UNCHANGED <<lock, memory>>
    BY <1>8, <2>1, <2>4 DEF OpenFinish
  <2>5. QED  BY <2>2, <2>3, <2>4
<1>9. ASSUME NEW p \in Process, NEW f \in Frame, BeginCommit(p, f) PROVE Good
  BY <1>9 DEF BeginCommit
<1>10. ASSUME NEW p \in Process, NEW f \in Frame, CommitDuplicate(p, f)
       PROVE Good
  BY <1>10 DEF CommitDuplicate
<1>11. ASSUME NEW p \in Process, WritePart(p) PROVE Good
  BY <1>11 DEF WritePart
<1>12. ASSUME NEW p \in Process, WriteAll(p) PROVE Good
  <2>1. pending[p] \in Frame
    BY <1>12 DEF WriteAll
  <2>2. journal' \in Seq(Frame) /\ Len(journal') = Len(journal) + 1
    BY <1>12, <2>1 DEF WriteAll
  <2>3. synced' \in 0..Len(journal')
    BY <1>12, <2>2 DEF WriteAll
  <2>4. QED  BY <1>12, <2>2, <2>3 DEF WriteAll
<1>13. ASSUME NEW p \in Process, SyncData(p) PROVE Good
  BY <1>13 DEF SyncData
<1>14. ASSUME NEW p \in Process, RenameHead(p) PROVE Good
  <2>1. head' \in Seq(Frame)
    BY <1>14 DEF RenameHead
  <2>2. QED  BY <1>14, <2>1 DEF RenameHead
<1>15. ASSUME NEW p \in Process, Publish(p) PROVE Good
  <2>1. pending[p] \in Frame
    BY <1>15 DEF Publish
  <2>2. replayed' \in [Process -> Seq(Frame)]
    BY <1>15, <2>1 DEF Publish
  <2>3. QED  BY <1>15, <2>1, <2>2 DEF Publish
<1>16. ASSUME NEW p \in Process, CommitError(p) PROVE Good
  BY <1>16 DEF CommitError, Fault
<1>17. ASSUME NEW p \in Process, PrepareHandoff(p) PROVE Good
  <2>1. snapshot' \in Snapshot
    BY <1>17, SnapshotTypes, FileLengthType DEF PrepareHandoff, SnapshotKind
  <2>2. QED  BY <1>17, <2>1, FenceTypes DEF PrepareHandoff
<1>18. ASSUME NEW p \in Process, AbortHandoff(p) PROVE Good
  BY <1>18 DEF AbortHandoff
<1>19. ASSUME NEW p \in Process, RelinquishHandoff(p) PROVE Good
  BY <1>19 DEF RelinquishHandoff, DropStore
<1>20. ASSUME NEW p \in Process, ObserveHandoff(p) PROVE Good
  BY <1>20 DEF ObserveHandoff
<1>21. ASSUME NEW p \in Process, Exit(p) PROVE Good
  BY <1>21 DEF Exit, DropStore
<1>22. ASSUME NEW p \in Process, Crash(p) PROVE Good
  BY <1>22 DEF Crash, DropStore, Fault
<1>23. CASE LosePower
  <2>1. PICK n \in synced..Len(journal) :
          journal' = First(journal, n) /\ synced' = n /\ torn' \in BOOLEAN
    BY <1>23 DEF LosePower
  <2>2. journal' \in Seq(Frame) /\ synced' \in 0..Len(journal')
    BY <2>1, FirstIsSeq
  <2>3. QED  BY <1>23, <2>1, <2>2 DEF LosePower, Fault
<1>24. CASE CorruptSnapshot
  <2>1. snapshot' \in Snapshot
    BY <1>24, SnapshotTypes DEF CorruptSnapshot, SnapshotKind
  <2>2. QED  BY <1>24, <2>1 DEF CorruptSnapshot, Fault
<1>25. CASE UNCHANGED vars
  BY <1>25 DEF vars
<1>26. QED
  BY <1>1, <1>2, <1>3, <1>4, <1>5, <1>6, <1>7, <1>8, <1>9, <1>10, <1>11,
     <1>12, <1>13, <1>14, <1>15, <1>16, <1>17, <1>18, <1>19, <1>20, <1>21,
     <1>22, <1>23, <1>24, <1>25
  DEF Next, OpenStep, CommitStep

\* Every variable keeps its type in every step of the store.
THEOREM TypeCorrect == Spec => []TypeOK
<1>1. TypeOK /\ PendingInv /\ [Next]_vars => TypeOK' /\ PendingInv'
  BY StepTypes
<1>2. QED  BY InitTypes, <1>1, PTL DEF Spec

-----------------------------------------------------------------------------
(***************************************************************************)
(* The inductive invariant.  It ties every phase of a writer to the bytes  *)
(* in the file: this is what makes the lock, the poisoning and the         *)
(* authentication of the snapshot work together.                           *)
(***************************************************************************)

\* A process has the store exactly while it holds the writer lock.
LockInv == \A p \in Process : phase[p] \in Holding <=> lock = p

\* What a process in phase[p] knows about the files.
PhaseInv(p) ==
  /\ phase[p] \in {"replayed", "reconciling", "opened"}
       => replayed[p] = journal /\ ~torn /\ ~poisoned[p]
  /\ phase[p] = "writing"
       => replayed[p] = journal /\ ~poisoned[p] /\ NewEvent(journal, pending[p])
  /\ phase[p] \in {"written", "synced", "renamed"}
       => journal = Append(replayed[p], pending[p]) /\ ~torn /\ ~poisoned[p]
  /\ phase[p] \in {"renamed", "reconciling"} => head = journal
  /\ phase[p] \in {"owned", "prepared"} /\ ~poisoned[p]
       => replayed[p] = journal /\ ~torn
  /\ phase[p] \in {"owned", "prepared"} /\ poisoned[p]
       => Prefix(replayed[p], journal) /\ Len(journal) <= Len(replayed[p]) + 1

StoreInv ==
  /\ LockInv
  /\ \A p \in Process : PhaseInv(p)
  /\ AppendedAtMostOnce

LEMMA StepStore ==
  ASSUME TypeOK, PendingInv, StoreInv, [Next]_vars
  PROVE  StoreInv'
<1>0. TypeOK' /\ PendingInv'
  BY StepTypes
<1> DEFINE Good == StoreInv'
<1> USE DEF TypeOK, StoreInv, LockInv, PhaseInv, Goto, Phase, Holding, Opening,
            Committing, disk, memory
<1>1. ASSUME NEW p \in Process, OpenLock(p) PROVE Good
  BY <1>1 DEF OpenLock, AppendedAtMostOnce
<1>2. ASSUME NEW p \in Process, OpenRefused(p) PROVE Good
  BY <1>2 DEF OpenRefused, AppendedAtMostOnce
<1>3. ASSUME NEW p \in Process, OpenInvalid(p) PROVE Good
  BY <1>3 DEF OpenInvalid, DropStore, RepairTail, AppendedAtMostOnce
<1>4. ASSUME NEW p \in Process, OpenError(p) PROVE Good
  BY <1>4 DEF OpenError, DropStore, AppendedAtMostOnce
<1>5. ASSUME NEW p \in Process, OpenReplay(p) PROVE Good
  BY <1>5, ReplayIsJournal DEF OpenReplay, RepairTail, AppendedAtMostOnce
<1>6. ASSUME NEW p \in Process, OpenReconcile(p) PROVE Good
  BY <1>6 DEF OpenReconcile, AppendedAtMostOnce
<1>7. ASSUME NEW p \in Process, OpenReconciled(p) PROVE Good
  BY <1>7 DEF OpenReconciled, AppendedAtMostOnce
<1>8. ASSUME NEW p \in Process, OpenFinish(p) PROVE Good
  <2>1. \/ Goto(p, "vacant") /\ DropStore(p)
        \/ Goto(p, "owned") /\ UNCHANGED <<lock, memory>>
    BY <1>8 DEF OpenFinish
  <2>2. CASE Goto(p, "vacant") /\ DropStore(p)
    BY <1>8, <2>2 DEF OpenFinish, DropStore, AppendedAtMostOnce
  <2>3. CASE Goto(p, "owned") /\ UNCHANGED <<lock, memory>>
    BY <1>8, <2>3 DEF OpenFinish, AppendedAtMostOnce
  <2>4. QED  BY <2>1, <2>2, <2>3
<1>9. ASSUME NEW p \in Process, NEW f \in Frame, BeginCommit(p, f) PROVE Good
  BY <1>9 DEF BeginCommit, AppendedAtMostOnce
<1>10. ASSUME NEW p \in Process, NEW f \in Frame, CommitDuplicate(p, f)
       PROVE Good
  BY <1>10 DEF CommitDuplicate, AppendedAtMostOnce
<1>11. ASSUME NEW p \in Process, WritePart(p) PROVE Good
  BY <1>11 DEF WritePart, AppendedAtMostOnce
<1>12. ASSUME NEW p \in Process, WriteAll(p) PROVE Good
  <2>1. pending[p] \in Frame /\ NewEvent(journal, pending[p])
    BY <1>12 DEF WriteAll, PendingInv
  <2>2. AppendedAtMostOnce'
    BY <1>12, <2>1 DEF WriteAll, NewEvent, Ids, AppendedAtMostOnce
  <2>3. QED  BY <1>12, <2>1, <2>2 DEF WriteAll
<1>13. ASSUME NEW p \in Process, SyncData(p) PROVE Good
  BY <1>13 DEF SyncData, AppendedAtMostOnce
<1>14. ASSUME NEW p \in Process, RenameHead(p) PROVE Good
  BY <1>14 DEF RenameHead, AppendedAtMostOnce
<1>15. ASSUME NEW p \in Process, Publish(p) PROVE Good
  BY <1>15 DEF Publish, AppendedAtMostOnce
<1>16. ASSUME NEW p \in Process, CommitError(p) PROVE Good
  <2>1. pending[p] \in Frame /\ replayed[p] \in Seq(Frame)
    BY <1>16 DEF CommitError, PendingInv
  <2>2. journal = replayed[p] \/ journal = Append(replayed[p], pending[p])
    BY <1>16 DEF CommitError
  <2>3. Prefix(replayed[p], journal) /\ Len(journal) <= Len(replayed[p]) + 1
    <3> DEFINE r == replayed[p]
               f == pending[p]
    <3>1. r \in Seq(Frame) /\ f \in Frame
      BY <2>1
    <3> HIDE DEF r, f
    <3>2. Prefix(r, r) /\ Prefix(r, Append(r, f))
          /\ Len(r) <= Len(r) + 1 /\ Len(Append(r, f)) <= Len(r) + 1
      BY <3>1 DEF Prefix
    <3>3. QED  BY <2>2, <3>2 DEF r, f
  <2>4. QED  BY <1>16, <2>3 DEF CommitError, AppendedAtMostOnce
<1>17. ASSUME NEW p \in Process, PrepareHandoff(p) PROVE Good
  BY <1>17 DEF PrepareHandoff, AppendedAtMostOnce
<1>18. ASSUME NEW p \in Process, AbortHandoff(p) PROVE Good
  BY <1>18 DEF AbortHandoff, AppendedAtMostOnce
<1>19. ASSUME NEW p \in Process, RelinquishHandoff(p) PROVE Good
  BY <1>19 DEF RelinquishHandoff, DropStore, AppendedAtMostOnce
<1>20. ASSUME NEW p \in Process, ObserveHandoff(p) PROVE Good
  BY <1>20 DEF ObserveHandoff, AppendedAtMostOnce
<1>21. ASSUME NEW p \in Process, Exit(p) PROVE Good
  BY <1>21 DEF Exit, DropStore, AppendedAtMostOnce
<1>22. ASSUME NEW p \in Process, Crash(p) PROVE Good
  BY <1>22 DEF Crash, DropStore, AppendedAtMostOnce
<1>23. CASE LosePower
  <2>1. PICK n \in synced..Len(journal) : journal' = First(journal, n)
    BY <1>23 DEF LosePower
  <2>2. n \in 0..Len(journal)
    BY <2>1
  <2>3. Len(journal') = n /\ \A i \in 1..n : journal'[i] = journal[i]
    BY <2>1, <2>2, FirstIsSeq
  <2>4. AppendedAtMostOnce'
    <3>1. \A i \in 1..n : i \in 1..Len(journal)
      BY <2>2
    <3>2. ASSUME NEW i \in 1..n, NEW j \in 1..n, journal'[i].id = journal'[j].id
          PROVE  i = j
      <4>1. journal[i].id = journal[j].id
        BY <2>3, <3>2
      <4>2. QED  BY <3>1, <4>1 DEF AppendedAtMostOnce
    <3>3. QED  BY <2>3, <3>2 DEF AppendedAtMostOnce
  <2>5. QED  BY <1>23, <2>4 DEF LosePower
<1>24. CASE CorruptSnapshot
  BY <1>24 DEF CorruptSnapshot, AppendedAtMostOnce
<1>25. CASE UNCHANGED vars
  BY <1>25 DEF vars, AppendedAtMostOnce
<1>26. QED
  BY <1>1, <1>2, <1>3, <1>4, <1>5, <1>6, <1>7, <1>8, <1>9, <1>10, <1>11,
     <1>12, <1>13, <1>14, <1>15, <1>16, <1>17, <1>18, <1>19, <1>20, <1>21,
     <1>22, <1>23, <1>24, <1>25
  DEF Next, OpenStep, CommitStep

LEMMA InitStore == Init => StoreInv
BY DEF Init, StoreInv, LockInv, PhaseInv, AppendedAtMostOnce, Holding, Opening,
       Committing

\* The conjunction is inductive.
IInv == TypeOK /\ PendingInv /\ StoreInv

LEMMA Invariance == Spec => []IInv
<1>1. Init => IInv
  BY InitTypes, InitStore DEF IInv
<1>2. IInv /\ [Next]_vars => IInv'
  BY StepTypes, StepStore DEF IInv
<1>3. QED  BY <1>1, <1>2, PTL DEF Spec

\* Whatever crashes, I/O errors, power losses, damaged snapshots and handoffs
\* there were, the memory of a healthy writer is the replay of the journal,
\* and a poisoned one lags by at most the frame it failed to publish.
THEOREM StoreMatchesJournalHolds == Spec => []StoreMatchesJournal
<1>1. IInv => StoreMatchesJournal
  <2> SUFFICES ASSUME IInv, NEW p \in Process
               PROVE  /\ phase[p] \in {"replayed", "reconciling", "opened",
                                        "owned", "prepared"}
                           => Prefix(replayed[p], journal)
                      /\ phase[p] \in {"owned", "prepared"} /\ ~poisoned[p]
                           => replayed[p] = journal
                      /\ phase[p] \in {"owned", "prepared"} /\ poisoned[p]
                           => Len(journal) <= Len(replayed[p]) + 1
    BY DEF StoreMatchesJournal
  <2>1. Prefix(journal, journal)
    BY DEF IInv, TypeOK, Prefix
  <2>2. QED  BY <2>1 DEF IInv, StoreInv, PhaseInv
<1>2. QED  BY Invariance, <1>1, PTL

\* No event identifier is ever in the journal twice.
THEOREM AppendedAtMostOnceHolds == Spec => []AppendedAtMostOnce
<1>1. IInv => AppendedAtMostOnce
  BY DEF IInv, StoreInv
<1>2. QED  BY Invariance, <1>1, PTL

-----------------------------------------------------------------------------
(***************************************************************************)
(* Process crashes only.  Without a loss of power the journal file never   *)
(* loses a complete frame, so the head and every acknowledgement stay      *)
(* covered by it and the store implements the abstract event log.          *)
(***************************************************************************)
DurableInv == HeadWithinJournal /\ AcknowledgedIsDurable

\* The journal is left alone or extended by the new frame being committed.
Extended == \E f \in Frame : NewEvent(journal, f) /\ journal' = Append(journal, f)

LEMMA JournalOnlyGrows ==
  ASSUME IInv, [Next]_vars, PowerLoss = FALSE
  PROVE  \/ journal' = journal
         \/ Extended /\ UNCHANGED <<head, headStable, acked>>
<1> USE DEF disk
<1>1. ASSUME NEW p \in Process, WriteAll(p)
      PROVE  Extended /\ UNCHANGED <<head, headStable, acked>>
  <2>1. pending[p] \in Frame /\ NewEvent(journal, pending[p])
    BY <1>1 DEF IInv, PendingInv, Committing, StoreInv, PhaseInv, WriteAll
  <2>2. QED  BY <1>1, <2>1 DEF WriteAll, Extended
<1>2. CASE \E p \in Process : OpenStep(p)
  BY <1>2 DEF OpenStep, OpenReplay, OpenReconcile, OpenReconciled, OpenFinish,
              RepairTail
<1>3. CASE \E p \in Process :
             OpenLock(p) \/ OpenRefused(p) \/ OpenInvalid(p) \/ OpenError(p)
  BY <1>3 DEF OpenLock, OpenRefused, OpenInvalid, OpenError, RepairTail
<1>4. CASE \E p \in Process, f \in Frame :
             BeginCommit(p, f) \/ CommitDuplicate(p, f)
  BY <1>4 DEF BeginCommit, CommitDuplicate
<1>5. CASE \E p \in Process : \/ WritePart(p) \/ SyncData(p)
                               \/ RenameHead(p) \/ Publish(p) \/ CommitError(p)
  BY <1>5 DEF WritePart, SyncData, RenameHead, Publish, CommitError
<1>6. CASE \E p \in Process : \/ PrepareHandoff(p) \/ AbortHandoff(p)
                               \/ RelinquishHandoff(p) \/ ObserveHandoff(p)
                               \/ Exit(p) \/ Crash(p)
  BY <1>6 DEF PrepareHandoff, AbortHandoff, RelinquishHandoff, ObserveHandoff,
              Exit, Crash
<1>7. CASE CorruptSnapshot \/ UNCHANGED vars
  BY <1>7 DEF CorruptSnapshot, vars
<1>8. ~LosePower
  BY DEF LosePower
<1>9. QED
  BY <1>1, <1>2, <1>3, <1>4, <1>5, <1>6, <1>7, <1>8 DEF Next, CommitStep

\* A step that leaves the journal alone points the heads at the journal or
\* at one another, and acknowledges only what the journal holds.
LEMMA HeadsFollowJournal ==
  ASSUME IInv, [Next]_vars, PowerLoss = FALSE, journal' = journal
  PROVE  /\ head' \in {head, journal}
         /\ headStable' \in {headStable, head}
         /\ \/ acked' = acked
            \/ \E f \in Frame : acked' = acked \cup {f} /\ Holds(journal, f)
<1> USE DEF disk
<1>1. ASSUME NEW p \in Process, OpenReconcile(p)
      PROVE  head' = journal /\ UNCHANGED <<headStable, acked>>
  BY <1>1 DEF OpenReconcile, IInv, StoreInv, PhaseInv
<1>2. ASSUME NEW p \in Process, RenameHead(p)
      PROVE  head' = journal /\ UNCHANGED <<headStable, acked>>
  BY <1>2 DEF RenameHead, IInv, StoreInv, PhaseInv
<1>3. ASSUME NEW p \in Process, Publish(p)
      PROVE  /\ UNCHANGED head /\ headStable' = head
             /\ \E f \in Frame : acked' = acked \cup {f} /\ Holds(journal, f)
  <2>1. pending[p] \in Frame /\ journal = Append(replayed[p], pending[p])
        /\ replayed[p] \in Seq(Frame)
    BY <1>3 DEF Publish, IInv, PendingInv, Committing, StoreInv, PhaseInv, TypeOK
  <2>2. Holds(journal, pending[p])
    <3>1. Len(replayed[p]) + 1 \in 1..Len(journal)
          /\ journal[Len(replayed[p]) + 1] = pending[p]
      BY <2>1
    <3>2. QED  BY <3>1 DEF Holds
  <2>3. QED  BY <1>3, <2>1, <2>2 DEF Publish
<1>4. ASSUME NEW p \in Process, NEW f \in Frame, CommitDuplicate(p, f)
      PROVE  /\ UNCHANGED <<head, headStable>>
             /\ acked' = acked \cup {f} /\ Holds(journal, f)
  BY <1>4 DEF CommitDuplicate, IInv, StoreInv, PhaseInv
<1>5. ASSUME NEW p \in Process, OpenReconciled(p)
      PROVE  UNCHANGED <<head, acked>> /\ headStable' = head
  BY <1>5 DEF OpenReconciled
<1>6. CASE \E p \in Process :
             \/ OpenLock(p) \/ OpenRefused(p) \/ OpenInvalid(p) \/ OpenError(p)
             \/ OpenReplay(p) \/ OpenFinish(p)
  BY <1>6 DEF OpenLock, OpenRefused, OpenInvalid, OpenError, OpenReplay,
              OpenFinish
<1>7. CASE \E p \in Process : (\E f \in Frame : BeginCommit(p, f))
             \/ WritePart(p) \/ WriteAll(p) \/ SyncData(p) \/ CommitError(p)
  BY <1>7 DEF BeginCommit, WritePart, WriteAll, SyncData, CommitError
<1>8. CASE \E p \in Process : \/ PrepareHandoff(p) \/ AbortHandoff(p)
                               \/ RelinquishHandoff(p) \/ ObserveHandoff(p)
                               \/ Exit(p) \/ Crash(p)
  BY <1>8 DEF PrepareHandoff, AbortHandoff, RelinquishHandoff, ObserveHandoff,
              Exit, Crash
<1>9. CASE CorruptSnapshot \/ UNCHANGED vars
  BY <1>9 DEF CorruptSnapshot, vars
<1>10. ~LosePower
  BY DEF LosePower
<1>11. QED
  BY <1>1, <1>2, <1>3, <1>4, <1>5, <1>6, <1>7, <1>8, <1>9, <1>10
  DEF Next, OpenStep, CommitStep

LEMMA StepDurable ==
  ASSUME IInv, DurableInv, [Next]_vars, PowerLoss = FALSE
  PROVE  DurableInv'
<1> USE DEF DurableInv, HeadWithinJournal, AcknowledgedIsDurable
<1>1. CASE journal' = journal
  <2>1. Prefix(journal, journal)
    BY DEF IInv, TypeOK, Prefix
  <2>2. Prefix(head, journal)' /\ Prefix(headStable, journal)'
    BY <1>1, <2>1, HeadsFollowJournal
  <2>3. \A f \in acked' : Holds(journal, f)
    BY <1>1, HeadsFollowJournal
  <2>4. QED  BY <1>1, <2>2, <2>3 DEF Holds
<1>2. CASE Extended /\ UNCHANGED <<head, headStable, acked>>
  <2>1. PICK f \in Frame : journal' = Append(journal, f)
    BY <1>2 DEF Extended
  <2>2. journal \in Seq(Frame) /\ head \in Seq(Frame) /\ headStable \in Seq(Frame)
    BY DEF IInv, TypeOK
  <2>3. \A i \in 1..Len(journal) :
          i \in 1..Len(journal') /\ journal'[i] = journal[i]
    BY <2>1, <2>2
  <2>4. Len(journal') = Len(journal) + 1
    BY <2>1, <2>2
  <2>5. Prefix(head, journal)' /\ Prefix(headStable, journal)'
    BY <1>2, <2>2, <2>3, <2>4 DEF Prefix
  <2>6. AcknowledgedIsDurable'
    BY <1>2, <2>3 DEF Holds
  <2>7. QED  BY <2>5, <2>6
<1>3. QED  BY <1>1, <1>2, JournalOnlyGrows

\* While machines do not lose power, every acknowledged event is in the
\* journal for good and the head never outruns the journal, so that no
\* restart is refused.
THEOREM DurableHolds ==
  ASSUME PowerLoss = FALSE
  PROVE  Spec => [](HeadWithinJournal /\ AcknowledgedIsDurable)
<1>1. Init => DurableInv
  BY DEF Init, DurableInv, HeadWithinJournal, AcknowledgedIsDurable, Prefix
<1>2. IInv /\ DurableInv /\ [Next]_vars => DurableInv'
  BY StepDurable
<1>3. QED  BY <1>1, <1>2, Invariance, PTL DEF Spec, DurableInv

\* While machines do not lose power, MissionStore implements the abstract
\* event log: its steps append a new event, acknowledge a recorded one, or
\* are invisible to callers.
THEOREM StoreImplementsEventLog ==
  ASSUME PowerLoss = FALSE
  PROVE  Spec => ImplementsEventLog
<1>1. Init => Log!Init
  BY DEF Init, Log!Init
<1>2. IInv /\ [Next]_vars => [Log!Next]_<<journal, acked>>
  <2> SUFFICES ASSUME IInv, [Next]_vars PROVE [Log!Next]_<<journal, acked>>
    OBVIOUS
  <2>1. CASE journal' = journal
    <3>1. CASE acked' = acked
      BY <2>1, <3>1
    <3>2. ASSUME NEW f \in Frame, acked' = acked \cup {f}, Holds(journal, f)
          PROVE  Log!Acknowledge(f)
      BY <2>1, <3>2 DEF Log!Acknowledge, Holds
    <3>3. QED
      BY <2>1, <3>1, <3>2, HeadsFollowJournal DEF Log!Next, Log!Event, Frame
  <2>2. CASE Extended /\ UNCHANGED <<head, headStable, acked>>
    <3>1. PICK f \in Frame : NewEvent(journal, f) /\ journal' = Append(journal, f)
      BY <2>2 DEF Extended
    <3>2. Log!Record(f)
      BY <2>2, <3>1 DEF Log!Record, NewEvent, Ids
    <3>3. QED  BY <3>2 DEF Log!Next, Log!Event, Frame
  <2>3. QED  BY <2>1, <2>2, JournalOnlyGrows
<1>3. QED  BY <1>1, <1>2, Invariance, PTL DEF Spec, ImplementsEventLog, Log!Spec

\* Without a fence and without a new fault, an open in progress goes on or ends
\* with the store owned.
OpenGoesOn ==
  \A p \in Process : phase[p] \in Opening /\ ~fence[p].known /\ faults' = faults
                       => phase'[p] \in Opening \cup {"owned"}

\* While machines do not lose power, an open is refused by no leftover of a
\* crash: a restart that gives up met a new fault.  This is the safety half of
\* RestartRecovers.
THEOREM OpenNeverRefused ==
  ASSUME PowerLoss = FALSE
  PROVE  Spec => [][OpenGoesOn]_vars
<1>1. IInv /\ HeadWithinJournal /\ [Next]_vars => [OpenGoesOn]_vars
  <2> SUFFICES ASSUME IInv, HeadWithinJournal, Next,
                      NEW p \in Process, phase[p] \in Opening, ~fence[p].known, faults' = faults
               PROVE  phase'[p] \in Opening \cup {"owned"}
    BY DEF OpenGoesOn
  <2>1. /\ phase \in [Process -> Phase] /\ faults \in Nat /\ HeadValid
    BY FaultsAssumption DEF IInv, TypeOK, HeadWithinJournal, HeadValid
  <2>2. ~Fault
    BY <2>1 DEF Fault
  <2>3. ASSUME NEW q \in Process, NEW s, Goto(q, s), q # p \/ s \in Opening \cup {"owned"}
        PROVE  phase'[p] \in Opening \cup {"owned"}
    BY <2>1, <2>3 DEF Goto
  <2>4. ASSUME NEW q \in Process, NEW s, Goto(q, s), phase[q] \notin Opening
        PROVE  phase'[p] \in Opening \cup {"owned"}
    BY <2>1, <2>4 DEF Goto
  <2>5. ASSUME NEW q \in Process, OpenStep(q) PROVE phase'[p] \in Opening \cup {"owned"}
    <3>1. CASE OpenReplay(q) \/ OpenReconcile(q) \/ OpenReconciled(q)
      <4>1. PICK s \in Opening : Goto(q, s)
        BY <3>1 DEF OpenReplay, OpenReconcile, OpenReconciled, Opening
      <4>2. QED  BY <2>3, <4>1
    <3>2. CASE OpenFinish(q)
      <4>1. \/ Goto(q, "owned")
            \/ Goto(q, "vacant") /\ fence[q].known
        BY <3>2 DEF OpenFinish
      <4>2. CASE Goto(q, "owned")
        BY <2>3, <4>2
      <4>3. CASE Goto(q, "vacant") /\ fence[q].known
        BY <2>3, <4>3
      <4>4. QED  BY <4>1, <4>2, <4>3
    <3>3. QED  BY <2>5, <3>1, <3>2 DEF OpenStep
  <2>6. CASE \E q \in Process : OpenInvalid(q) \/ OpenError(q) \/ CommitError(q) \/ Crash(q)
    BY <2>1, <2>2, <2>6 DEF OpenInvalid, OpenError, CommitError, Crash
  <2>7. CASE LosePower \/ CorruptSnapshot
    BY <2>2, <2>7 DEF LosePower, CorruptSnapshot
  <2>8. ASSUME NEW q \in Process,
               \/ OpenLock(q) \/ OpenRefused(q) \/ CommitStep(q)
               \/ \E f \in Frame : BeginCommit(q, f) \/ CommitDuplicate(q, f)
               \/ PrepareHandoff(q) \/ AbortHandoff(q) \/ RelinquishHandoff(q)
               \/ ObserveHandoff(q) \/ Exit(q)
        PROVE  phase'[p] \in Opening \cup {"owned"}
    <3>1. CASE phase' = phase
      BY <3>1
    <3>2. phase' = phase \/ \E s : Goto(q, s)
      BY <2>8 DEF OpenLock, OpenRefused, CommitStep, WritePart, WriteAll, SyncData, RenameHead,
                  Publish, BeginCommit, CommitDuplicate, PrepareHandoff, AbortHandoff,
                  RelinquishHandoff, ObserveHandoff, Exit
    <3>3. phase[q] \notin Opening
      BY <2>8 DEF OpenLock, OpenRefused, CommitStep, WritePart, WriteAll, SyncData, RenameHead,
                  Publish, BeginCommit, CommitDuplicate, PrepareHandoff, AbortHandoff,
                  RelinquishHandoff, ObserveHandoff, Exit, Opening
    <3>4. QED  BY <2>4, <3>1, <3>2, <3>3
  <2>9. QED  BY <2>5, <2>6, <2>7, <2>8 DEF Next
<1>2. QED  BY <1>1, Invariance, DurableHolds, PTL DEF Spec
=============================================================================
