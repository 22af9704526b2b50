--------------------------- MODULE MissionJournal ---------------------------
(***************************************************************************)
(* The durable store of the mission runtime: the framed journal file, the  *)
(* head file beside it, the accelerator snapshot and the writer lock       *)
(* (src/mission/journal.rs, src/mission/store.rs), together with the       *)
(* ownership a server process has of the store while it opens it, commits  *)
(* to it and hands it to a successor (src/mission/runtime.rs).             *)
(*                                                                         *)
(* Hashes are abstracted to what they identify.  A record hash covers the  *)
(* previous hash, so it stands for the whole prefix of frames it closes:   *)
(* the head is that prefix, and two heads have equal hashes exactly when   *)
(* the prefixes are equal.  A state digest likewise stands for the prefix  *)
(* whose events were applied.                                              *)
(*                                                                         *)
(* The files distinguish what a process sees from what survives a loss of  *)
(* power: "synced" frames and the "headStable" head are on stable storage, *)
(* the rest is in the page cache.  A kill of the process keeps the cache.  *)
(***************************************************************************)
EXTENDS Naturals, Sequences, FiniteSets

CONSTANTS
  Process,      \* server processes that may open the store
  NoProcess,    \* nobody holds the writer lock
  EventId,      \* idempotence identifiers given to commit
  Payload,      \* event contents, as told apart by their fingerprints
  NoFrame,      \* no commit is in flight
  MaxFrames,    \* MAX_JOURNAL_FRAMES
  MaxFaults,    \* bound on crashes, I/O errors and snapshot corruption
  PowerLoss     \* TRUE when a crash may also lose unsynced writes

ASSUME ProcessAssumption == NoProcess \notin Process
ASSUME FramesAssumption == MaxFrames \in Nat
ASSUME FaultsAssumption == MaxFaults \in Nat
ASSUME PowerLossAssumption == PowerLoss \in BOOLEAN

Frame == [id : EventId, payload : Payload]

ASSUME NoFrameAssumption == NoFrame \notin Frame

VARIABLES
  journal,      \* complete frames in the journal file
  torn,         \* is there a partial frame after them?
  synced,       \* how many of the frames are on stable storage
  head,         \* the head file: the prefix its sequence and hash identify
  headStable,   \* the head that a loss of power may bring back
  snapshot,     \* the snapshot file
  lock,         \* holder of the writer lock
  phase,        \* what each process is doing with the store
  replayed,     \* a process's projection, event index and journal head
  pending,      \* the frame a process is appending
  poisoned,     \* the store of a process refuses further commits
  fence,        \* the head a process must find when it acquires the store
  offer,        \* the fence the source of a handoff sent to its successor
  acked,        \* history: frames whose commit returned Ok
  faults        \* faults so far, bounded by MaxFaults

disk == <<journal, torn, synced, head, headStable, snapshot>>
memory == <<replayed, pending, poisoned>>
vars == <<disk, lock, phase, memory, fence, offer, acked, faults>>

(***************************************************************************)
(* Values.                                                                 *)
(***************************************************************************)
SnapshotKind == {"missing", "corrupt", "written"}
Snapshot == [kind : SnapshotKind, state : Seq(Frame), offset : Nat]
NoSnapshot == [kind |-> "missing", state |-> <<>>, offset |-> 0]

NoFence == [known |-> FALSE, at |-> <<>>]
FenceAt(s) == [known |-> TRUE, at |-> s]
Fence == [known : BOOLEAN, at : Seq(Frame)]

\* Phases in which a process holds a MissionStore and so the writer lock.
Opening == {"locked", "replayed", "reconciling", "opened"}
Committing == {"writing", "written", "synced", "renamed"}
Holding == Opening \cup Committing \cup {"owned", "prepared"}
Phase == Holding \cup {"vacant", "released", "observing"}

Prefix(s, t) == Len(s) <= Len(t) /\ \A i \in 1..Len(s) : s[i] = t[i]
First(s, n) == [i \in 1..n |-> s[i]]
Ids(s) == {s[i].id : i \in 1..Len(s)}
Holds(s, f) == \E i \in 1..Len(s) : s[i] = f

\* A file length: complete frames have even ends, a partial tail is odd.
Offset(n) == 2 * n
FileLength == Offset(Len(journal)) + (IF torn THEN 1 ELSE 0)

\* Mutant of Authentic: the byte offset is believed unseen.
AuthenticAnyOffset(s) ==
  /\ s.kind = "written"
  /\ Prefix(s.state, journal)

\* authenticate_snapshot: sequence, record hash, byte offset and state digest
\* are all bound to the scanned journal before the snapshot is believed.
Authentic(s) ==
  /\ s.kind = "written"
  /\ Prefix(s.state, journal)
  /\ s.offset = Offset(Len(s.state))

\* A snapshot that is neither absent nor believed is set aside and rebuilt.
Rejected(s) == s.kind # "missing" /\ ~Authentic(s)

\* load_journal_tail: the believed snapshot's state, or the empty one, and
\* then every frame from the snapshot's byte offset on.
Replay ==
  LET from == IF Authentic(snapshot) THEN snapshot.state ELSE <<>>
      skip == IF Authentic(snapshot) THEN snapshot.offset \div 2 ELSE 0
  IN  [i \in 1..(Len(from) + (Len(journal) - skip)) |->
         IF i <= Len(from) THEN from[i] ELSE journal[i - Len(from) + skip]]

Fault == faults < MaxFaults /\ faults' = faults + 1

Goto(p, to) == phase' = [phase EXCEPT ![p] = to]

\* The MissionStore of a process is dropped with everything it remembers.
DropStore(p) ==
  /\ lock' = IF lock = p THEN NoProcess ELSE lock
  /\ replayed' = [replayed EXCEPT ![p] = <<>>]
  /\ pending' = [pending EXCEPT ![p] = NoFrame]
  /\ poisoned' = [poisoned EXCEPT ![p] = FALSE]

Init ==
  /\ journal = <<>> /\ torn = FALSE /\ synced = 0
  /\ head = <<>> /\ headStable = <<>>
  /\ snapshot = NoSnapshot
  /\ lock = NoProcess
  /\ phase = [p \in Process |-> "vacant"]
  /\ replayed = [p \in Process |-> <<>>]
  /\ pending = [p \in Process |-> NoFrame]
  /\ poisoned = [p \in Process |-> FALSE]
  /\ fence = [p \in Process |-> NoFence]
  /\ offer = NoFence
  /\ acked = {}
  /\ faults = 0

(***************************************************************************)
(* Opening: MissionStore::open.  A server start opens without a fence, a   *)
(* released source and an observing successor open with theirs.            *)
(***************************************************************************)
OpenLock(p) ==
  /\ phase[p] \in {"vacant", "released", "observing"}
  /\ lock = NoProcess
  /\ lock' = p
  /\ Goto(p, "locked")
  /\ fence' = [fence EXCEPT ![p] = IF phase[p] = "vacant" THEN NoFence ELSE @]
  /\ UNCHANGED <<disk, memory, offer, acked, faults>>

\* WriterAlreadyActive: the handle of a released or observing process is
\* consumed by the failed call, which leaves its runtime Vacant.
OpenRefused(p) ==
  /\ phase[p] \in {"released", "observing"}
  /\ lock # NoProcess
  /\ Goto(p, "vacant")
  /\ UNCHANGED <<disk, lock, memory, fence, offer, acked, faults>>

\* The persisted head must be a prefix of what the journal holds:
\* HeadAheadOfJournal and HeadHashMismatch refuse to open.
HeadValid == Prefix(head, journal)

\* Mutant of RepairTail: the cut also takes the last complete frame.
RepairTailTooFar ==
  /\ torn' = FALSE
  /\ journal' = IF torn /\ journal # <<>> THEN First(journal, Len(journal) - 1)
                                         ELSE journal
  /\ UNCHANGED synced

\* scan in RepairFinalPartial mode: a partial final frame is cut off and the
\* file synced; complete frames are kept, also those past the head.
RepairTail ==
  /\ torn' = FALSE
  /\ synced' = IF torn THEN Len(journal) ELSE synced
  /\ UNCHANGED journal

\* Mutant of OpenReplay: a partial final frame is treated as corruption.
OpenReplayStrict(p) ==
  /\ phase[p] = "locked"
  /\ HeadValid /\ ~torn
  /\ RepairTail
  /\ replayed' = [replayed EXCEPT ![p] = Replay]
  /\ poisoned' = [poisoned EXCEPT ![p] = FALSE]
  /\ Goto(p, "replayed")
  /\ UNCHANGED <<head, headStable, snapshot, lock, pending, fence,
                 offer, acked, faults>>

OpenReplay(p) ==
  /\ phase[p] = "locked"
  /\ HeadValid
  /\ RepairTail
  /\ replayed' = [replayed EXCEPT ![p] = Replay]
  /\ poisoned' = [poisoned EXCEPT ![p] = FALSE]
  /\ Goto(p, "replayed")
  /\ UNCHANGED <<head, headStable, snapshot, lock, pending, fence,
                 offer, acked, faults>>

OpenInvalid(p) ==
  /\ phase[p] = "locked"
  /\ ~HeadValid
  /\ DropStore(p)
  /\ Goto(p, "vacant")
  /\ RepairTail
  /\ UNCHANGED <<head, headStable, snapshot, fence, offer, acked,
                 faults>>

\* reconcile_head: nothing to do, or an atomic replacement whose rename is
\* visible before the directory is synced.
OpenReconcile(p) ==
  /\ phase[p] = "replayed"
  /\ head' = replayed[p]
  /\ Goto(p, IF head = replayed[p] THEN "opened" ELSE "reconciling")
  /\ UNCHANGED <<journal, torn, synced, headStable, snapshot, lock, memory,
                 fence, offer, acked, faults>>

OpenReconciled(p) ==
  /\ phase[p] = "reconciling"
  /\ headStable' = head
  /\ Goto(p, "opened")
  /\ UNCHANGED <<journal, torn, synced, head, snapshot, lock, memory, fence,
                 offer, acked, faults>>

OpenError(p) ==
  /\ phase[p] \in Opening
  /\ Fault
  /\ DropStore(p)
  /\ Goto(p, "vacant")
  /\ UNCHANGED <<disk, fence, offer, acked>>

\* quarantine_and_rebuild_snapshot, then the fence check of acquire_writer
\* and reacquire.
OpenFinish(p) ==
  /\ phase[p] = "opened"
  /\ snapshot' = IF Rejected(snapshot)
                   THEN [kind |-> "written", state |-> replayed[p],
                         offset |-> FileLength]
                   ELSE snapshot
  /\ IF fence[p].known /\ fence[p].at # replayed[p]
       THEN Goto(p, "vacant") /\ DropStore(p)
       ELSE Goto(p, "owned") /\ UNCHANGED <<lock, memory>>
  /\ UNCHANGED <<journal, torn, synced, head, headStable, fence, offer, acked,
                 faults>>

(***************************************************************************)
(* Committing: MissionStore::commit.                                       *)
(***************************************************************************)

\* Mutant of NewEvent: only an identical event counts as a duplicate.
NewEventByValue(s, f) == ~Holds(s, f)

\* duplicate_outcome: an identifier already in the event index is never
\* appended again.
NewEvent(s, f) == f.id \notin Ids(s)

BeginCommit(p, f) ==
  /\ phase[p] = "owned"
  /\ ~poisoned[p]
  /\ NewEvent(replayed[p], f)
  /\ Len(replayed[p]) < MaxFrames
  /\ pending' = [pending EXCEPT ![p] = f]
  /\ Goto(p, "writing")
  /\ UNCHANGED <<disk, lock, replayed, poisoned, fence, offer, acked, faults>>

\* Mutant of CommitDuplicate: the fingerprint is not compared.
CommitDuplicateById(p, f) ==
  /\ phase[p] = "owned"
  /\ ~poisoned[p]
  /\ f.id \in Ids(replayed[p])
  /\ acked' = acked \cup {f}
  /\ UNCHANGED <<disk, lock, phase, memory, fence, offer, faults>>

\* The same identifier with the same fingerprint is acknowledged without an
\* append; with another fingerprint it is an EventIdConflict, which changes
\* nothing.
CommitDuplicate(p, f) ==
  /\ phase[p] = "owned"
  /\ ~poisoned[p]
  /\ Holds(replayed[p], f)
  /\ acked' = acked \cup {f}
  /\ UNCHANGED <<disk, lock, phase, memory, fence, offer, faults>>

\* write_all of header, payload and hash: some of the frame is in the file...
WritePart(p) ==
  /\ phase[p] = "writing"
  /\ ~torn
  /\ torn' = TRUE
  /\ UNCHANGED <<journal, synced, head, headStable, snapshot, lock, phase,
                 memory, fence, offer, acked, faults>>

\* ... and then all of it.
WriteAll(p) ==
  /\ phase[p] = "writing"
  /\ journal' = Append(journal, pending[p])
  /\ torn' = FALSE
  /\ Goto(p, "written")
  /\ UNCHANGED <<synced, head, headStable, snapshot, lock, memory, fence,
                 offer, acked, faults>>

SyncData(p) ==
  /\ phase[p] = "written"
  /\ synced' = Len(journal)
  /\ Goto(p, "synced")
  /\ UNCHANGED <<journal, torn, head, headStable, snapshot, lock, memory,
                 fence, offer, acked, faults>>

\* atomic_write_json of the next head, up to the rename.
RenameHead(p) ==
  /\ phase[p] = "synced"
  /\ head' = Append(replayed[p], pending[p])
  /\ Goto(p, "renamed")
  /\ UNCHANGED <<journal, torn, synced, headStable, snapshot, lock, memory,
                 fence, offer, acked, faults>>

\* The directory is synced; only now is the event published in memory and
\* the commit acknowledged.
Publish(p) ==
  /\ phase[p] = "renamed"
  /\ headStable' = head
  /\ replayed' = [replayed EXCEPT ![p] = Append(@, pending[p])]
  /\ acked' = acked \cup {pending[p]}
  /\ pending' = [pending EXCEPT ![p] = NoFrame]
  /\ Goto(p, "owned")
  /\ UNCHANGED <<journal, torn, synced, head, snapshot, lock, poisoned, fence,
                 offer, faults>>

\* Any I/O error from the append on poisons the writer.
CommitError(p) ==
  /\ phase[p] \in Committing
  /\ Fault
  /\ poisoned' = [poisoned EXCEPT ![p] = TRUE]
  /\ pending' = [pending EXCEPT ![p] = NoFrame]
  /\ Goto(p, "owned")
  /\ UNCHANGED <<disk, lock, replayed, fence, offer, acked>>

(***************************************************************************)
(* Handing the store to a successor process.                               *)
(***************************************************************************)

\* prepare_handoff: checkpoint, which asks neither whether the writer is
\* poisoned nor whether the file ends where its head does, then the fence.
PrepareHandoff(p) ==
  /\ phase[p] = "owned"
  /\ snapshot' = [kind |-> "written", state |-> replayed[p],
                  offset |-> FileLength]
  /\ fence' = [fence EXCEPT ![p] = FenceAt(replayed[p])]
  /\ offer' = FenceAt(replayed[p])
  /\ Goto(p, "prepared")
  /\ UNCHANGED <<journal, torn, synced, head, headStable, lock, memory, acked,
                 faults>>

AbortHandoff(p) ==
  /\ phase[p] = "prepared"
  /\ Goto(p, "owned")
  /\ UNCHANGED <<disk, lock, memory, fence, offer, acked, faults>>

RelinquishHandoff(p) ==
  /\ phase[p] = "prepared"
  /\ DropStore(p)
  /\ Goto(p, "released")
  /\ UNCHANGED <<disk, fence, offer, acked, faults>>

\* observe_handoff over MissionStoreReader::open_existing: it repairs
\* nothing, and it refuses a partial tail, a head behind the journal and a
\* journal that is not the offered one.  The source spawned the successor
\* and waits for it, prepared.
ObserveHandoff(p) ==
  /\ phase[p] = "vacant"
  /\ \E source \in Process : phase[source] = "prepared"
  /\ offer.known
  /\ ~torn
  /\ head = journal
  /\ journal = offer.at
  /\ fence' = [fence EXCEPT ![p] = offer]
  /\ Goto(p, "observing")
  /\ UNCHANGED <<disk, lock, memory, offer, acked, faults>>

\* A server that owns the store shuts down, a source exits once its
\* successor owns the store, a successor gives up when the source does.
Exit(p) ==
  /\ phase[p] \in {"owned", "released", "observing"}
  /\ DropStore(p)
  /\ Goto(p, "vacant")
  /\ UNCHANGED <<disk, fence, offer, acked, faults>>

(***************************************************************************)
(* Faults.                                                                 *)
(***************************************************************************)

\* The process is killed; the kernel drops its lock and keeps its writes.
Crash(p) ==
  /\ phase[p] # "vacant"
  /\ Fault
  /\ Goto(p, "vacant")
  /\ DropStore(p)
  /\ UNCHANGED <<disk, fence, offer, acked>>

\* The machine loses power: every process is gone, unsynced frames are lost
\* from some point on (perhaps leaving part of the first lost one), and a
\* rename that was not synced may be undone.
LosePower ==
  /\ PowerLoss
  /\ Fault
  /\ phase' = [p \in Process |-> "vacant"]
  /\ lock' = NoProcess
  /\ replayed' = [p \in Process |-> <<>>]
  /\ pending' = [p \in Process |-> NoFrame]
  /\ poisoned' = [p \in Process |-> FALSE]
  /\ \E n \in synced..Len(journal) :
       /\ journal' = First(journal, n)
       /\ synced' = n
       /\ torn' \in {b \in BOOLEAN : b => torn \/ n < Len(journal)}
  /\ head' \in {head, headStable}
  /\ headStable' = head'
  /\ UNCHANGED <<snapshot, fence, offer, acked>>

\* The snapshot file is damaged or replaced; the journal stays canonical.
\* An open reads the file once, so damage behind its back is not looked at.
CorruptSnapshot ==
  /\ snapshot.kind = "written"
  /\ \A p \in Process : phase[p] \notin Opening
  /\ Fault
  /\ snapshot' = [kind |-> "corrupt", state |-> snapshot.state,
                  offset |-> snapshot.offset]
  /\ UNCHANGED <<journal, torn, synced, head, headStable, lock, phase, memory,
                 fence, offer, acked>>

OpenStep(p) ==
  \/ OpenReplay(p) \/ OpenReconcile(p) \/ OpenReconciled(p) \/ OpenFinish(p)

CommitStep(p) ==
  \/ WritePart(p) \/ WriteAll(p) \/ SyncData(p) \/ RenameHead(p) \/ Publish(p)

Next ==
  \/ \E p \in Process :
       \/ OpenLock(p) \/ OpenRefused(p) \/ OpenInvalid(p) \/ OpenError(p)
       \/ OpenStep(p)
       \/ \E f \in Frame : BeginCommit(p, f) \/ CommitDuplicate(p, f)
       \/ CommitStep(p) \/ CommitError(p)
       \/ PrepareHandoff(p) \/ AbortHandoff(p) \/ RelinquishHandoff(p)
       \/ ObserveHandoff(p) \/ Exit(p)
       \/ Crash(p)
  \/ LosePower
  \/ CorruptSnapshot

Spec == Init /\ [][Next]_vars

\* The server that finds the store closed opens it, and an open that has
\* begun runs to its end: nothing in it waits for another process.
Fairness ==
  \A p \in Process : WF_vars(phase[p] = "vacant" /\ OpenLock(p))
                     /\ WF_vars(OpenStep(p) \/ OpenInvalid(p))

FairSpec == Spec /\ Fairness

(***************************************************************************)
(* Properties.                                                             *)
(***************************************************************************)
\* Files, locks and phases have the types the code gives them; a head, a
\* snapshot and a fence are sequences of frames.
TypeOK ==
  /\ journal \in Seq(Frame) /\ torn \in BOOLEAN
  /\ synced \in 0..Len(journal)
  /\ head \in Seq(Frame) /\ headStable \in Seq(Frame)
  /\ snapshot \in Snapshot
  /\ lock \in Process \cup {NoProcess}
  /\ phase \in [Process -> Phase]
  /\ replayed \in [Process -> Seq(Frame)]
  /\ pending \in [Process -> Frame \cup {NoFrame}]
  /\ poisoned \in [Process -> BOOLEAN]
  /\ fence \in [Process -> Fence]
  /\ offer \in Fence
  /\ acked \subseteq Frame
  /\ faults \in 0..MaxFaults

\* What a writer has in memory is exactly what a replay of the journal from
\* its first frame would give: the snapshot it started from was genuine and
\* nothing reached the file behind its back.  A poisoned writer may lag, and
\* is never more than the one frame it failed to publish behind.
StoreMatchesJournal ==
  \A p \in Process :
    /\ phase[p] \in {"replayed", "reconciling", "opened", "owned", "prepared"}
         => Prefix(replayed[p], journal)
    /\ phase[p] \in {"owned", "prepared"} /\ ~poisoned[p]
         => replayed[p] = journal
    /\ phase[p] \in {"owned", "prepared"} /\ poisoned[p]
         => Len(journal) <= Len(replayed[p]) + 1

\* No event identifier is in the journal twice, whatever retries, crashes
\* and handoffs there were: commit's idempotence outlives the process that
\* answered first, and replay never meets DuplicateJournalEventId.
AppendedAtMostOnce ==
  \A i, j \in 1..Len(journal) : journal[i].id = journal[j].id => i = j

\* A frame whose commit returned Ok, for the first time or as a duplicate,
\* is in the journal.
AcknowledgedIsDurable ==
  \A f \in acked : Holds(journal, f)

\* The head file never names frames the journal does not have, so a restart
\* is never refused with HeadAheadOfJournal or HeadHashMismatch.
HeadWithinJournal == Prefix(head, journal) /\ Prefix(headStable, journal)

\* A store that nobody has open is opened again: the leftovers of any crash
\* or I/O error are repaired and never refused.
RestartRecovers ==
  (\A p \in Process : phase[p] = "vacant")
    ~> (\E p \in Process : phase[p] = "owned")

\* The abstract event log the store promises.
Log == INSTANCE EventLog WITH log <- journal, acknowledged <- acked
ImplementsEventLog == Log!Spec
=============================================================================
