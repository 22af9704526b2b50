---------------------------- MODULE LiveHandoff ----------------------------
(***************************************************************************)
(* Live handoff of a running server to a new process: perform_live_handoff *)
(* and its rollback (server/headless.rs) on one side, the import server    *)
(* (run_handoff_import_server) on the other, over the line protocol of     *)
(* server/handoff.rs and the ownership states of mission/runtime.rs.       *)
(*                                                                         *)
(* Process 0 is the old server, process n the import server of attempt n.  *)
(* Both run one blocking step after the other.  A read of the stream ends  *)
(* with the next line, with end of file once the peer is gone, or with its *)
(* timeout when nothing has arrived; a timer may run out at any such time. *)
(* A line that has been written is never lost.                             *)
(***************************************************************************)
EXTENDS Naturals, Sequences, FiniteSets

CONSTANTS
  Panes,       \* panes with a running terminal
  MaxAttempts, \* bound on the handoffs tried
  MaxHead,     \* bound on the journal's sequence
  MaxFds       \* MAX_FDS_PER_HANDOFF

ASSUME AttemptsAssumption == MaxAttempts \in Nat
ASSUME HeadAssumption == MaxHead \in Nat
ASSUME PanesAssumption == IsFiniteSet(Panes) /\ MaxFds \in Nat

Old == 0
New == 1..MaxAttempts
Process == {Old} \cup New

VARIABLES
  pc,       \* the step each process is at
  attempt,  \* handoffs tried so far, and the import server of the last one
  own,      \* Ownership of the mission runtime of each process
  fence,    \* the journal head in the last manifest (no earlier one is used)
  head,     \* the journal head
  reads,    \* panes whose reader runs in the process
  holds,    \* the process holds the panes' terminal masters
  killer,   \* dropping the panes' runtimes ends their processes
  public,   \* processes listening on the public sockets
  inbox,    \* lines written to the process and not yet read
  quit,     \* why the old server stops: "no", "handedOff" or "uncertain"
  alive     \* the panes' processes run

handoffVars == <<pc, attempt, own, fence, head, reads, holds, killer, public,
                 inbox, quit, alive>>
memory == <<own, fence, head, reads, holds, killer, public, quit, alive>>

Ownership == {"none", "owned", "prepared", "released", "observing", "vacant"}
Line == {"token", "manifest", "validated", "fds", "restored", "ready",
         "committed", "owned"}
OldStep == {"idle", "pause", "spawn", "duplicate", "accept", "validate",
            "restored", "ready", "commit", "ack", "terminate", "rollback",
            "revert", "restore", "exit"}
NewStep == {"none", "connect", "manifest", "fds", "observe", "close", "bind",
            "committed", "acquire", "report", "assume", "unpause", "run",
            "exit"}

(***************************************************************************)
(* The store's lock is held by the process that owns or has prepared it.   *)
(***************************************************************************)
Locks(p) == own[p] \in {"owned", "prepared"}
Unlocked == \A p \in Process : ~Locks(p)
Alive(n) == pc[n] \notin {"none", "exit"}

(***************************************************************************)
(* The old server keeps its end of the stream until perform_live_handoff   *)
(* returns; the listener goes with the accept.                             *)
(***************************************************************************)
Listening(n) == n = attempt /\ pc[Old] \in {"duplicate", "accept"}
Connected(n) == n = attempt /\ pc[Old] \in {"validate", "restored", "ready",
                   "commit", "ack", "terminate", "rollback", "revert", "restore"}

HandoffInit ==
  /\ pc = [p \in Process |-> IF p = Old THEN "idle" ELSE "none"]
  /\ attempt = 0
  /\ own = [p \in Process |-> IF p = Old THEN "owned" ELSE "none"]
  /\ fence = 0
  /\ head = 0
  /\ reads = [p \in Process |-> IF p = Old THEN Panes ELSE {}]
  /\ holds = [p \in Process |-> p = Old]
  /\ killer = [p \in Process |-> p = Old]
  /\ public = {Old}
  /\ inbox = [p \in Process |-> <<>>]
  /\ quit = "no"
  /\ alive = TRUE

Goto(p, step) == pc' = [pc EXCEPT ![p] = step]
Write(p, line) == inbox' = [inbox EXCEPT ![p] = Append(@, line)]
Receives(p, line) == inbox[p] # <<>> /\ Head(inbox[p]) = line
Consume(p) == inbox' = [inbox EXCEPT ![p] = Tail(@)]

(***************************************************************************)
(* The end of process n: its lock, terminals and listeners go.  The        *)
(* runtimes' destructor runs unless the process is killed; a terminal that *)
(* nobody holds any more hangs up on the processes of its pane.            *)
(***************************************************************************)
End(p, dropped) ==
  /\ own' = [own EXCEPT ![p] = "none"]
  /\ reads' = [reads EXCEPT ![p] = {}]
  /\ holds' = [holds EXCEPT ![p] = FALSE]
  /\ public' = public \ {p}
  /\ alive' = (alive /\ ~(dropped /\ killer[p] /\ holds[p])
                     /\ \E q \in Process \ {p} : holds[q])

(***************************************************************************)
(* The old server.                                                         *)
(***************************************************************************)
\* A served client's request reaches the journal.
Commit(p) ==
  /\ pc[p] = (IF p = Old THEN "idle" ELSE "run")
  /\ own[p] = "owned"
  /\ p = Old => quit = "no"
  /\ head < MaxHead
  /\ head' = head + 1
  /\ UNCHANGED <<pc, attempt, own, fence, reads, holds, killer, public, inbox,
                 quit, alive>>

Begin ==
  /\ pc[Old] = "idle" /\ quit = "no"
  /\ Cardinality(Panes) <= MaxFds
  /\ attempt < MaxAttempts
  /\ attempt' = attempt + 1
  /\ Goto(Old, "pause")
  /\ inbox' = [inbox EXCEPT ![Old] = <<>>]
  /\ UNCHANGED memory

\* pause_handoff_reader on each pane; a failure rolls back.
Pause(p) ==
  /\ pc[Old] = "pause"
  /\ p \in reads[Old]
  /\ \/ /\ reads' = [reads EXCEPT ![Old] = @ \ {p}]
        /\ UNCHANGED pc
     \/ /\ Goto(Old, "rollback")
        /\ UNCHANGED reads
  /\ UNCHANGED <<attempt, own, fence, head, holds, killer, public, inbox, quit,
                 alive>>

\* prepare_handoff writes a checkpoint, which may fail, and takes the fence.
Prepare ==
  /\ pc[Old] = "pause"
  /\ reads[Old] = {}
  /\ \/ /\ own[Old] = "owned"
        /\ own' = [own EXCEPT ![Old] = "prepared"]
        /\ fence' = head
        /\ Goto(Old, "spawn")
     \/ /\ Goto(Old, "rollback")
        /\ UNCHANGED <<own, fence>>
  /\ UNCHANGED <<attempt, head, reads, holds, killer, public, inbox, quit,
                 alive>>

Spawn ==
  /\ pc[Old] = "spawn"
  /\ \/ pc' = [pc EXCEPT ![Old] = "duplicate", ![attempt] = "connect"]
     \/ Goto(Old, "rollback")
  /\ UNCHANGED <<attempt, inbox, memory>>

(***************************************************************************)
(* A failure after the import server was spawned.  cleanup_failed_import_  *)
(* child kills it, or logs that it could not, and the rollback follows.    *)
(***************************************************************************)
Killed(n) ==
  /\ End(n, FALSE)
  /\ UNCHANGED <<attempt, fence, head, killer, quit>>

CleanupFailed ==
  \/ /\ pc' = [pc EXCEPT ![Old] = "rollback", ![attempt] = "exit"]
     /\ Killed(attempt)
     /\ UNCHANGED inbox
  \/ /\ Goto(Old, "rollback")
     /\ UNCHANGED <<attempt, inbox, memory>>

Duplicate ==
  /\ pc[Old] = "duplicate"
  /\ \/ /\ Goto(Old, "accept")
        /\ UNCHANGED <<attempt, inbox, memory>>
     \/ CleanupFailed

\* accept_and_validate_on, first half: the token, then the manifest.
Accept ==
  /\ pc[Old] = "accept"
  /\ Receives(Old, "token")
  /\ inbox' = [inbox EXCEPT ![Old] = Tail(@), ![attempt] = Append(@, "manifest")]
  /\ Goto(Old, "validate")
  /\ UNCHANGED <<attempt, memory>>

\* Its second half and the start of send_fds_and_wait_restored.
SendFds ==
  /\ pc[Old] = "validate"
  /\ Receives(Old, "validated")
  /\ inbox' = [inbox EXCEPT ![Old] = Tail(@), ![attempt] = Append(@, "fds")]
  /\ Goto(Old, "restored")
  /\ UNCHANGED <<attempt, memory>>

\* The panes are restored: the old server gives up the public sockets.
Unlink ==
  /\ pc[Old] = "restored"
  /\ Receives(Old, "restored")
  /\ Consume(Old)
  /\ public' = public \ {Old}
  /\ Goto(Old, "ready")
  /\ UNCHANGED <<attempt, own, fence, head, reads, holds, killer, quit, alive>>

Relinquish ==
  /\ pc[Old] = "ready"
  /\ Receives(Old, "ready")
  /\ Consume(Old)
  /\ own' = [own EXCEPT ![Old] = "released"]
  /\ Goto(Old, "commit")
  /\ UNCHANGED <<attempt, fence, head, reads, holds, killer, public, quit, alive>>

ReportCommitted ==
  /\ pc[Old] = "commit"
  /\ Alive(attempt)
  /\ Write(attempt, "committed")
  /\ Goto(Old, "ack")
  /\ UNCHANGED <<attempt, memory>>

\* A read that ends with a timeout or end of file, or a write to a closed end.
Fail ==
  /\ pc[Old] \in {"accept", "validate", "restored", "ready", "commit"}
  /\ pc[Old] = "commit" => ~Alive(attempt)
  /\ inbox[Old] = <<>>
  /\ CleanupFailed

\* wait_owned_ack: the runtimes are drained and the old server stops.
OwnedAck ==
  /\ pc[Old] = "ack"
  /\ Receives(Old, "owned")
  /\ Consume(Old)
  /\ holds' = [holds EXCEPT ![Old] = FALSE]
  /\ alive' = (alive /\ \E q \in New : holds[q])
  /\ quit' = "handedOff"
  /\ Goto(Old, "idle")
  /\ UNCHANGED <<attempt, own, fence, head, reads, killer, public>>

AckFails ==
  /\ pc[Old] = "ack"
  /\ inbox[Old] = <<>>
  /\ Goto(Old, "terminate")
  /\ UNCHANGED <<attempt, inbox, memory>>

(***************************************************************************)
(* preserve_runtimes_for_uncertain_handoff: the panes' processes are left  *)
(* alone, their terminals closed, and the server stops.                    *)
(***************************************************************************)
PreserveRuntimes ==
  /\ reads' = [reads EXCEPT ![Old] = {}]
  /\ holds' = [holds EXCEPT ![Old] = FALSE]
  /\ alive' = (alive /\ \E q \in New : holds[q])
  /\ quit' = "uncertain"

\* terminate_import_child reaps an exited child and may fail to kill a live one.
Terminate ==
  /\ pc[Old] = "terminate"
  /\ \/ /\ pc' = [pc EXCEPT ![Old] = "revert", ![attempt] = "exit"]
        /\ Killed(attempt)
        /\ UNCHANGED inbox
     \/ /\ Alive(attempt)
        /\ PreserveRuntimes
        /\ Goto(Old, "idle")
        /\ UNCHANGED <<attempt, own, fence, head, killer, public, inbox>>

(***************************************************************************)
(* rollback_handoff_before_commit.  A released journal is opened again,    *)
(* which needs its lock and an unchanged head and may fail anyway; nothing *)
(* can go wrong while it was only prepared.  A rollback for want of an     *)
(* acknowledgement that fails leaves the public sockets alone.             *)
(***************************************************************************)
Reacquirable == own[Old] = "released" => Unlocked /\ head = fence

AfterRollback == IF Old \in public THEN "idle" ELSE "restore"

Rollback ==
  /\ pc[Old] \in {"rollback", "revert"}
  /\ \/ /\ Reacquirable
        /\ own' = [own EXCEPT ![Old] = "owned"]
        /\ reads' = [reads EXCEPT ![Old] = Panes]
        /\ Goto(Old, AfterRollback)
        /\ UNCHANGED <<holds, quit, alive>>
     \/ /\ own[Old] = "released"
        /\ own' = [own EXCEPT ![Old] = "vacant"]
        /\ PreserveRuntimes
        /\ Goto(Old, IF pc[Old] = "revert" THEN "idle" ELSE AfterRollback)
  /\ UNCHANGED <<attempt, fence, head, killer, public, inbox>>

(***************************************************************************)
(* wait_then_restore_public_sockets_after_failed_handoff; when the wait or *)
(* the binding fails the old server runs on without public sockets.        *)
(***************************************************************************)
Restore ==
  /\ pc[Old] = "restore"
  /\ public' \in {public, IF public = {} THEN {Old} ELSE public}
  /\ Goto(Old, "idle")
  /\ UNCHANGED <<attempt, own, fence, head, reads, holds, killer, inbox, quit,
                 alive>>

\* The main loop ends; what is left of the runtimes was preserved.
OldExit ==
  /\ pc[Old] = "idle" /\ quit # "no"
  /\ Goto(Old, "exit")
  /\ own' = [own EXCEPT ![Old] = "none"]
  /\ public' = public \ {Old}
  /\ UNCHANGED <<attempt, fence, head, reads, holds, killer, inbox, quit, alive>>

OldNext ==
  \/ Begin \/ (\E p \in Panes : Pause(p)) \/ Prepare \/ Spawn \/ Duplicate
  \/ Accept \/ SendFds \/ Unlink \/ Relinquish \/ ReportCommitted \/ Fail
  \/ OwnedAck \/ AckFails \/ Terminate \/ Rollback \/ Restore \/ OldExit

(***************************************************************************)
(* The import server.  Any error ends the process.                         *)
(***************************************************************************)
NewExit(n) ==
  /\ Goto(n, "exit")
  /\ End(n, TRUE)
  /\ UNCHANGED <<attempt, fence, head, killer, inbox, quit>>

\* Mutant of NewFails: wait_committed has no timeout.
NewFailsButWaiting(n) ==
  /\ pc[n] \in {"connect", "manifest", "fds", "observe", "close", "bind",
                "acquire", "report"}
  /\ NewExit(n)

\* Steps before it owns the journal may fail, and so may the process itself.
NewFails(n) ==
  /\ pc[n] \in {"connect", "manifest", "fds", "observe", "close", "bind",
                "committed", "acquire", "report"}
  /\ NewExit(n)

Connect(n) ==
  /\ pc[n] = "connect"
  /\ Listening(n)
  /\ Write(Old, "token")
  /\ Goto(n, "manifest")
  /\ UNCHANGED <<attempt, memory>>

\* receive: the manifest's versions are checked (a mismatch is NewFails).
Validate(n) ==
  /\ pc[n] = "manifest"
  /\ Receives(n, "manifest")
  /\ Connected(n)
  /\ inbox' = [inbox EXCEPT ![n] = Tail(@), ![Old] = Append(@, "validated")]
  /\ Goto(n, "fds")
  /\ UNCHANGED <<attempt, memory>>

ReceiveFds(n) ==
  /\ pc[n] = "fds"
  /\ Receives(n, "fds")
  /\ Consume(n)
  /\ holds' = [holds EXCEPT ![n] = TRUE]
  /\ Goto(n, "observe")
  /\ UNCHANGED <<attempt, own, fence, head, reads, killer, public, quit, alive>>

\* Mutant of Observe: the imported readers are not paused.
ObserveReading(n) ==
  /\ pc[n] = "observe"
  /\ head = fence
  /\ Connected(n)
  /\ own' = [own EXCEPT ![n] = "observing"]
  /\ reads' = [reads EXCEPT ![n] = Panes]
  /\ Write(Old, "restored")
  /\ Goto(n, "close")
  /\ UNCHANGED <<attempt, fence, head, holds, killer, public, quit, alive>>

\* observe_handoff, new_from_handoff with paused readers, report_restored.
Observe(n) ==
  /\ pc[n] = "observe"
  /\ head = fence
  /\ Connected(n)
  /\ own' = [own EXCEPT ![n] = "observing"]
  /\ Write(Old, "restored")
  /\ Goto(n, "close")
  /\ UNCHANGED <<attempt, fence, head, reads, holds, killer, public, quit, alive>>

\* wait_for_old_public_sockets_to_close
Close(n) ==
  /\ pc[n] = "close"
  /\ public = {}
  /\ Goto(n, "bind")
  /\ UNCHANGED <<attempt, inbox, memory>>

\* The public sockets are bound unless somebody listens on them.
Bind(n) ==
  /\ pc[n] = "bind"
  /\ public = {}
  /\ Connected(n)
  /\ public' = {n}
  /\ Write(Old, "ready")
  /\ Goto(n, "committed")
  /\ UNCHANGED <<attempt, own, fence, head, reads, holds, killer, quit, alive>>

\* Mutant of WaitCommitted: ownership is reported before it is acquired.
WaitCommittedOwned(n) ==
  /\ pc[n] = "committed"
  /\ Receives(n, "committed")
  /\ inbox' = [inbox EXCEPT ![n] = Tail(@), ![Old] = Append(@, "owned")]
  /\ Goto(n, "acquire")
  /\ UNCHANGED <<attempt, memory>>

WaitCommitted(n) ==
  /\ pc[n] = "committed"
  /\ Receives(n, "committed")
  /\ Consume(n)
  /\ Goto(n, "acquire")
  /\ UNCHANGED <<attempt, memory>>

AcquireHandoff(n) ==
  /\ pc[n] = "acquire"
  /\ Unlocked /\ head = fence
  /\ own' = [own EXCEPT ![n] = "owned"]
  /\ Goto(n, "report")
  /\ UNCHANGED <<attempt, fence, head, reads, holds, killer, public, inbox, quit,
                 alive>>

ReportOwned(n) ==
  /\ pc[n] = "report"
  /\ Connected(n)
  /\ Write(Old, "owned")
  /\ Goto(n, "assume")
  /\ UNCHANGED <<attempt, memory>>

Assume(n) ==
  /\ pc[n] = "assume"
  /\ killer' = [killer EXCEPT ![n] = TRUE]
  /\ Goto(n, "unpause")
  /\ UNCHANGED <<attempt, own, fence, head, reads, holds, public, inbox, quit,
                 alive>>

Unpause(n) ==
  /\ pc[n] = "unpause"
  /\ \/ \E p \in Panes \ reads[n] :
          /\ reads' = [reads EXCEPT ![n] = @ \cup {p}]
          /\ UNCHANGED pc
     \/ /\ reads[n] = Panes
        /\ Goto(n, "run")
        /\ UNCHANGED reads
  /\ UNCHANGED <<attempt, own, fence, head, holds, killer, public, inbox, quit,
                 alive>>

NewNext(n) ==
  \/ Connect(n) \/ Validate(n) \/ ReceiveFds(n) \/ Observe(n) \/ Close(n)
  \/ Bind(n) \/ WaitCommitted(n) \/ AcquireHandoff(n) \/ ReportOwned(n)
  \/ Assume(n) \/ Unpause(n) \/ NewFails(n)

HandoffNext ==
  \/ OldNext
  \/ \E n \in New : NewNext(n)
  \/ \E p \in Process : Commit(p)

HandoffSpec == HandoffInit /\ [][HandoffNext]_handoffVars

(***************************************************************************)
(* The old server works off a handoff it has begun, and so does a process  *)
(* that was spawned: each is a thread that runs to the end of the handoff  *)
(* and every read it blocks in has a timeout.                              *)
(***************************************************************************)
OldWorks == OldNext /\ (pc[Old] # "idle" \/ quit # "no")

HandoffFairness ==
  /\ WF_handoffVars(OldWorks)
  /\ \A n \in New : WF_handoffVars(NewNext(n))

LiveHandoffSpec == HandoffSpec /\ HandoffFairness

(***************************************************************************)
(* Properties.                                                             *)
(***************************************************************************)
\* The variables have their types.
HandoffTypeOK ==
  /\ pc \in [Process -> OldStep \cup NewStep]
  /\ pc[Old] \in OldStep /\ \A n \in New : pc[n] \in NewStep
  /\ attempt \in 0..MaxAttempts
  /\ own \in [Process -> Ownership]
  /\ fence \in 0..MaxHead /\ head \in 0..MaxHead
  /\ reads \in [Process -> SUBSET Panes]
  /\ holds \in [Process -> BOOLEAN]
  /\ killer \in [Process -> BOOLEAN]
  /\ public \subseteq Process
  /\ inbox \in [Process -> Seq(Line)]
  /\ quit \in {"no", "handedOff", "uncertain"}
  /\ alive \in BOOLEAN

\* A pane's output is read by one server at most, whatever is late or fails: a
\* second reader would take bytes of the terminal away from the first one.  That
\* server owns the mission journal: the import server reads no pane before it
\* has the journal, the old one none after it lost it.
OneReader ==
  /\ \A p, q \in Process : p # q => reads[p] \cap reads[q] = {}
  /\ \A p \in Process : reads[p] # {} => own[p] = "owned"

\* A handoff, completed or rolled back, loses nothing.  The panes survive unless
\* the old server stops because it cannot tell who owns the journal; it gives
\* them away only to an import server that has the journal and the terminals;
\* and one that has the journal is the one clients reach: nobody takes the
\* public sockets while it comes up or runs.
NothingLost ==
  /\ quit # "uncertain" => alive
  /\ quit = "handedOff" => \E n \in New : own[n] = "owned" /\ holds[n]
  /\ \A n \in New : own[n] = "owned" => public = {n}

Serves(p) ==
  /\ pc[p] = (IF p = Old THEN "idle" ELSE "run")
  /\ p = Old => quit = "no"
  /\ own[p] = "owned" /\ reads[p] = Panes

\* Every handoff that begins ends with a server that owns the journal and reads
\* all panes, or with the old server stopping over an uncertain owner; and every
\* import server runs or is gone in the end: one whose handoff was rolled back
\* does not linger on its terminals, even when it could not be killed.
HandoffEnds ==
  /\ pc[Old] # "idle" ~> (\E p \in Process : Serves(p)) \/ quit = "uncertain"
  /\ \A n \in New : Alive(n) ~> pc[n] \in {"run", "exit"}
=============================================================================
