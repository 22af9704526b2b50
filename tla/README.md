# Nagi: a TLA+ model of its core

Nagi is a terminal workspace manager with a long-lived server. Coding agents run
in its panes or as *managed providers* of a *mission*: an objective that an agent
works on in a git worktree, whose questions are answered centrally, and that may
be closed only on evidence Nagi itself has produced. Missions survive restarts
through a journal, panes survive an update of the server through a live handoff.
This directory models the parts of Nagi that carry such promises, checks them
with TLC on small instances, and proves nearly all of the safety properties of
every modelled part with TLAPS, for instances of any size.

Paths below are relative to the repository's `src/`; `PROJECT.json` maps every
definition to its lines.

## The system

| part | source | state | operations | interacts through | what is hard |
|---|---|---|---|---|---|
| mission store | `mission/store.rs`, `journal.rs` | journal of hashed frames, head file, snapshot, writer lock, projection, poisoned flag | open, commit, checkpoint, prepare / abort / relinquish / observe / acquire handoff | owned by `MissionRuntime`; a successor process through files and a fence | a crash between any two writes, torn frames, failing I/O, retries, two processes |
| mission projection | `mission/store.rs` (`apply`), `model.rs` | status, run and its history, questions and answers, evidence, pack, receipts | one per event kind | written by commit only | long event sequences, clock steps, reruns |
| server handlers, runtime, claims | `server/headless.rs`, `mission/runtime.rs`, `claims.rs` | managed runs, channels, inflight answers, proofs, claims | mission API calls, provider events, proof events, recovery, drop | channels from providers, proof threads and clients into one loop | several commits per handler, each of which may fail; crash between effects |
| closure proof | `mission/executor.rs`, `evidence.rs`, `proof.rs`, `verifier.rs` | records, scans, receipts | run checks, scan, evaluate | worker thread, result to the loop | the worktree changes under it |
| session state | `mission/run_state.rs` | best observation of a session | apply | provider observations | lost, duplicated, reordered observations |
| attention inbox | `mission/attention.rs` | items, attempts, indexes | ingest, refresh, decide, confirm, fail, dismiss | provider events, user, responses on the wire | redelivery, retries, expiry against decisions |
| managed provider adapters | `managed_provider/` | one conversation each | start, turn, respond, interrupt, stop | frames or HTTP and events of a foreign process; `ProviderEvent` to the server | foreign protocols, deadlines, crossing messages |
| live handoff | `server/handoff.rs`, `headless.rs` | journal ownership, panes, public sockets, stream between two servers | export, import, ownership, rollback | two server processes | lost or late lines, deaths, timeouts |
| pseudo terminals | `pty/actor/unix.rs`, `pane.rs` | gate, channels, pending bytes | write, resize, quiesce, roll back, release | threads and channels | replies after a timeout, writers racing the gate |
| agent authority | `terminal/state.rs`, `app/actions.rs` | detected agent, hook authority, sessions, suppressions | detection, hook report, release, clear, exit, respawn | detector thread, socket API | events applied late |
| event subscriptions | `api/event_hub.rs`, `subscriptions.rs`, `wait.rs` | bounded ring of events, subscriber positions | push, subscribe, poll, wait | one thread per client, snapshots from the application | events dropped, changes without events, snapshots that race |
| ports and services | `resources/` | registry file, lock file, sockets, child processes | reserve, spawn, bind, adopt, stop, cleanup | several processes over two files | deaths at any step, stale locks |

What makes the parts correct:

- *store*: what is acknowledged stays, nothing is recorded twice, memory equals
  journal, every crash leaves files that open again;
- *projection*: at most one answer to a question can take effect, a closed
  mission is proven twice on one subject, nothing of an earlier run counts for a
  later one;
- *handlers*: journal, providers, proof workers and the worktree claim agree
  between any two handlers, through crashes and failing commits;
- *closure proof*: a receipt is about a tree that passes the checks;
- *session state, inbox*: what the user is shown is justified by what was
  received, in whatever order; a request is answered once;
- *adapters*: `Ready` first, turns in order, requests of the running turn only;
- *handoff, terminals*: one reader and one owner, no accepted input lost;
- *authority*: no hook speaks against the process in the foreground, an ended
  session stays ended;
- *subscriptions*: nothing old is told, the last status is learnt;
- *ports*: the registry stays loadable, a living service that was recorded keeps
  its lease.

## Modules

| module | models | run by | proved in |
|---|---|---|---|
| `EventLog` | what a caller of the store may rely on: an append-only log without repeated ids, acknowledgements of recorded events | refinement in `journal` | |
| `MissionJournal` | store, journal, handoff of the store | `MCMissionJournal` | `MissionJournalProofs` |
| `MissionProjection` | `MissionProjection::apply` and the checks of `commit` for one mission | `MCProvider` | `MissionProjectionProofs` |
| `ManagedRuns` | handlers, runtime, claims; extends `MissionProjection`, whose actions are its commits | `MCManagedRuns` | `ManagedRunsProofs` |
| `ClosureProof` | worker, evidence, evaluation | `MCMission`, `MCClosureProof` | `ClosureProofProofs` |
| `RunState` | `SessionSnapshot::apply` | `MCMission` | `SessionProofs` |
| `AttentionInbox` | the inbox | `MCMission` | `SessionProofs` |
| `LiveHandoff` | both servers of a handoff | `MCServer` | `ServerProofs` |
| `PtyActor` | the thread that owns a terminal, and its handle | `MCServer` | `ServerProofs` |
| `AgentAuthority` | `TerminalState`'s merging of detections and hooks | `MCOwnership` | `OwnershipProofs` |
| `PortRegistry` | registry, lock, services, cleanup | `MCOwnership`, `MCPortRegistry` | `OwnershipProofs` |
| `ClaudeAdapter` | the actor for a Claude Code process | `MCReports` | `ReportsProofs` |
| `OpenCodeAdapter` | the actor for an OpenCode server | `MCProvider` | `ReportsProofs` |
| `EventSubscriptions` | event hub, subscribers, `events.wait` | `MCReports` | `ReportsProofs` |
| `Option` | the value `None` the composed modules share | | |

`MCProvider`, `MCMission`, `MCServer`, `MCOwnership` and `MCReports` check several modules in
one run. The modules in one of them share no state, so each behaviour works in
one part, named by `focus`, while the others stay as they began: TLC explores the
sum of the state spaces, and every property of a part is checked on all of its
reachable states. `MCProvider` follows its `OpenCodeAdapter` twice, under different
bounds. Fairness is stated of the part in focus.

Definitions marked `Mutant of` are plausible bugs. No specification uses them;
for each property of a passing run one of them, put in the place of the
definition it mutates, makes TLC find the property violated.

### MissionJournal

The files are `journal` (complete frames), `torn` (a partial one after them),
`head` and `snapshot`; `synced` and `headStable` say what a loss of power
leaves. A process is in a `phase`: opening is lock, replay, reconcile, finish;
a commit is write (in parts), sync, rename of the head, publication. Every
phase may be cut by `Crash`, an I/O error, or `LosePower`. `fence` and `offer`
are the handoff: the successor observes the store, the owner relinquishes it
with a fence, the successor opens and compares. A record hash covers its
predecessors, so a hash is modelled by the prefix it stands for; two hashes are
equal exactly when the prefixes are. `Offset` gives a frame two units of length
so that a torn tail has a length of its own.

### MissionProjection

One mission, one action per event. `at` is the clock the caller read; it may
step back, and `Logical` is the maximum the code takes. `sequence` is the number
of frames, bounded by `MaxSequence` as the code bounds it by
`MAX_JOURNAL_FRAMES`. Receipts keep subject, sequence and time. A refused event
has no step.

### ManagedRuns

The server's loop runs a handler to its end, but a handler is a series of
effects: commits, a claim, a launch, a message to a provider. `todo` is what is
left of the current one; a crash, a refused or a failing commit may come
between any two. `Otherwise` is the error path of each commit. A failing commit
poisons the store and leaves its frame in the file or not (`tail`), which the
next boot finds. `sent` is a history variable: how often an answer was really
handed to a provider. Providers report `Ready` before anything else, which
`ReportsInOrder` shows of the Claude adapter. Another mission may hold the
worktree at any time. The clock stands still.

### ClosureProof

The worktree maps paths to contents; a check is its relevant paths and the
trees it passes on (`Good`, which depends on those paths only: a check with
undeclared inputs is outside what Nagi promises). The command is the moment it
reads the tree; the scan after it is another; edits come anywhere. `disturbed`
is a history variable: the checks with an edit between those two moments.

### RunState and AttentionInbox

`RunState` stamps observations of all sources with a sequence on receipt and
delivers them lost, twice or reordered; the history of what was accepted is what
the snapshot is compared with. `AttentionInbox` has one action per operation;
`wire` is the fate of each response at the provider, which the inbox learns late,
wrongly ordered or never, and every caller may stamp its call with an old time.
Four payloads cover a request with a deadline, the same request with other
contents, one without a deadline and one that can only be dismissed.

### LiveHandoff and PtyActor

`LiveHandoff` has both servers as sequences of blocking steps (`pc`); a read of
the stream ends with a line, with end of file or with its timeout, so any line
may be late. `own` is the ownership state of the journal, `reads` who reads which
pane, `holds` who has the terminals, `public` who listens for clients. Any step
may fail, the import server may die or resist being killed, and a rolled back
handoff may be tried again. `PtyActor` is the thread behind one pane: user input
passes a gate and a bounded channel, control calls another one whose replies may
outlive their caller. An input has several bytes, so that a write can stop in the
middle of it.

### AgentAuthority

`hook` is the authority a hook holds, `detected` what the detector saw last and
`fallbackAt` when; `persisted` is the session kept for resuming, `suppressed` and
`stale` what bars an ended one. A detection is applied some time after it was
observed. Owners differ in what their integration may do (`Full`, `Reserved`,
`Rethreading`, `Replaces`), as the tables of the code do.

### ClaudeAdapter and OpenCodeAdapter

The Claude process sends any frame at any time once it has answered
`initialize`; the owner sends any command; the deadlines run out whenever they
are set. A frame can be half read when a command is taken: its bytes are lost,
as the future that read them is dropped. The OpenCode session is modelled with
its own turns, permissions and questions, a stream of events that lags behind it,
and the requests whose answers tell how it is now; a resume merges the answers to
six requests with events of the same changes. Somebody else may prompt the
session, settle a permission, answer a question or remove a message at any time.
Assumed of the server: it updates a message only while the turn that made it runs,
so neither after the idle that ends the turn nor once the message is removed.
`working` counts how often a turn was reported Working; `crossed` and `erred` record the
cases in which a stale event can end a prompt (difference 7).

### EventSubscriptions

The application changes a pane's state and pushes an event, except when the user
looks at the pane, which turns done into idle without one. `ring` keeps the last
`RingSize` events, `kinds` is the history of all. A subscriber's poll is four
steps (read the ring, read the sequence, ask for a snapshot, read the sequence
again) with the application between any two. `moment` numbers the looks of the
pane and `tells` counts what the client was told, so that a report can be compared
with the one before and a repetition shows. Subscribers only read, so one stands
for all.

### PortRegistry

`lockFile`, `registry` and the listening sockets are what processes share; each
operation is its steps from taking the lock to dropping it. A process may die at
any of them, a lock attempt may time out or fail to be written, a service may
listen, end or be killed. Nothing keeps two runtimes off one request, in the model
as in the code. `recorded` is a history variable: the services whose process was
written into a lease.

## Runs

| run | what it shows | instance |
|---|---|---|
| `journal` | AcknowledgedIsDurable, ImplementsEventLog, RestartRecovers: without losses of power the store is an `EventLog` and a closed store is opened again | two processes, two ids, two payloads, two frames, two faults: a retry, a conflicting retry, a handoff that fails half way, a crash in the recovery from a crash |
| `journal_power` | StoreMatchesJournal, AppendedAtMostOnce under losses of power | the same with three faults, symmetric in processes and values |
| `provider` | AnsweredAtMostOnce, NothingOfEarlierRun, ClosureIsProvenTwice, ArchivedIsFinal; OwnTurnIsShown, QuietAgrees | two runs, two questions with two attempts, two clock values, twelve events: a closure takes eight, a failed answer and its repetition five; an OpenCode session of a message and two turns, once without requests and with three events under way (the update, the removal and the idle of an earlier turn when the prompt is sent), once with a permission and a question and two events (a question asked and answered, or a permission asked and settled, between two requests of a resume) |
| `managed_runs` | SentIsRecorded, NoOrphanRun, LeaseMatchesWork, ClosedOnEvidence; LeaseReturned, OrphanSettled | a source and its handoff, two questions of one run, sixteen events, two faults |
| `mission` | SnapshotIsJustified, CompletedTurnHolds; AnsweredOnce, AuditTrail, BlockedWhileInDoubt; ProofIsSound, ReceiptsAgree | two turns and three deliveries; three events of four payloads, two attempts; two checks that share a path, three contents, any number of edits |
| `server` | OneReader, NothingLost, HandoffEnds; InputDelivered, QuiescedIsDrained, AcceptedIsWritten | two handoffs in a row, two panes; two inputs of two bytes, a channel of one, three control calls |
| `ownership` | ForegroundAgrees, OneIdentity, EndedIsBarred; RegistryLoads, ServiceStaysRecorded | two owners, two sessions, two instants; two runtimes, two requests, two ports, two starts |
| `reports` | ReportsInOrder, RequestsOfTurn, TurnEnds; ToldInOrder, ClientLearns | two turns, two requests, six frames; a ring of two for three events, two titles, two changes |
| `journal_power_ack`, `managed_reconcile`, `closure_edited`, `ports_stale_lock` | violated, see findings | the smallest instances that show them |

The bounds are chosen so that the case a property is about happens, which the
mutants confirm: every property is violated by its mutant under its own
configuration. Symmetry is used only in runs without liveness. Deadlock is not
checked where the part may stop: an actor ends with its provider, a subscriber
with its client, a bounded history with its bound. Four conditions of properties
are deliberate, since the code does otherwise. `EndedIsBarred` excludes a release that
finds no live authority (difference 5 below), `BlockedWhileInDoubt` requests with a
deadline (4). `OwnTurnIsShown` excludes prompts that were crossed by somebody else's turn
or a removed message, and sessions that reported an error (7). `ServiceStaysRecorded`
excludes one step, the release of a lease by an operation of another runtime on
the same request that never read the service's process in it: difference 8 says
what that step does.

### Fairness

- `MissionJournal!FairSpec`: a server that finds the store closed opens it, and
  an open that has begun goes on; nothing in it waits for another process.
- `ManagedRuns!FairSpec`: weak fairness of a handler's steps (a handler never
  waits for an event) and of `Boot` (somebody restarts the server); strong
  fairness of `ProofEnds`, since a check has a timeout and the loop's
  `tokio::select!` is not biased, so a waiting proof result is not passed over
  forever. Nothing is assumed of providers or users. `DiligentSpec`, used for the
  violated property only, adds users who answer, continue and close whenever they
  can, so that the counterexample is not somebody's inaction.
- `LiveHandoff`: each server goes on with its steps, every read it blocks in has
  a timeout. Nobody has to begin a handoff.
- `PtyActor`: the actor's loop goes on, and a terminal that is writable again and
  again takes a byte in the end.
- `ClaudeAdapter`: a deadline that stays set runs out; nothing of the process.
- `EventSubscriptions`: the subscriber polls every 100 ms, and the application
  answers a `pane_get` that is asked again and again.

### Findings

1. `journal_power_ack`. A kill between the write of a frame and its sync leaves
   a frame in the page cache. The next open replays it, `reconcile_head` syncs a
   head for it, and a retry is acknowledged as a duplicate; the journal itself
   is never synced. A loss of power then drops an acknowledged event and leaves
   the head ahead of the journal, which the next open refuses.
2. `managed_reconcile`. An answer that is marked as of unknown delivery loses its
   channel with its run, and no later event of any handler settles it: the
   mission keeps an unresolved question, so it can be neither continued nor
   verified.
3. `closure_edited`. Evidence of a command is bound to the scan after it, and the
   scan before it is never compared. An edit between the moment a command read
   a file and the second scan gives passed evidence for a tree no check has seen.
   `ProofIsSound` is the part that does hold.
4. `ports_stale_lock`. A lock file is judged stale by its contents and removed by
   its name. Two runtimes that wait for a dead third can both judge it; the slower
   removes the lock the faster has just made, both rewrite the registry and one
   port is selected twice. It takes three runtimes: of two, one is alone when it
   finds the other's lock stale, so that their sections exclude each other
   (`TwoRuntimesExclude`) and a recorded service keeps its lease through all steps but
   the one of difference 8 (`ServiceStaysRecordedHolds`, for at most two runtimes).
   `RegistryLoads` is proved for any number of them: what a runtime writes can be
   loaded even when the lock has failed.

Differences met while modelling, which no run is devoted to:

1. When the successor was killed and `abort_handoff` then fails,
   `preserve_runtimes_for_uncertain_handoff` (`server/headless.rs:2121`) closes
   the last descriptors of the panes' terminals, so nothing is preserved.
2. A reply to the rollback of a handoff that is later than a second leaves the
   gate of the pane shut although its actor runs (`pty/actor/unix.rs:275`).
3. A late event of an earlier turn takes a session out of its completed turn
   (`run_state.rs:222`); the test at `mission/tests.rs:1320` has it the other way
   for a late event of the same turn.
4. A second decision after the deadline turns an item whose response is in doubt
   into an expired one (`attention.rs:709`), while the tests at
   `mission/tests.rs:1645` and `:1706` keep it for reconciliation.
5. A second release overwrites the suppression of the first
   (`terminal/state.rs:1233`).
6. Claude adapter: `read_bounded_frame` is not safe to cancel inside `select!`;
   `handle_control_cancel` tells nobody that a request was withdrawn; a rejected
   command is reported as `TransportFailed` although the actor goes on; a
   withdrawal that crosses the user's answer ends the run.
7. OpenCode adapter: an error event of an earlier turn ends the next prompt's
   turn as failed; an old idle merged after the last status snapshot can hide a
   running turn; a turn of somebody else that begins between the status check
   and the prompt ends the own turn early; an update under way of a message that
   was removed before the messages are asked for (`opencode.rs:1120`) passes for a
   new message, arms the own turn, and the idle behind it completes that turn
   while the prompt is still to be done; an interrupt without a turn ends the actor.
8. Ports: a lock file left empty, by a death or a failing write just after it was
   created, is never stale, so every later operation times out; a death between
   spawning a service and recording its process (`services.rs:138`) lets a cleanup,
   or a new start of the request that fails to spawn, free the port of a service
   that lives. A release goes by the id of the lease (`ports.rs:288`), and binding
   its port again keeps the id: a start reserves, lets go of the socket and fails to
   spawn (`services.rs:132`) or to record (`services.rs:142`); before it releases, a
   second runtime on the same mission, run and service binds the port again, spawns
   its service and records it. The first one's release removes that lease, and the
   service, found healthy, is detached without one: no later runtime adopts it, no
   cleanup finds it, and another request may be given its port, although
   `services.rs:59` has healthy services keep their leases. A stop that is slow does
   the same. This is the step `ServiceStaysRecorded` excludes.
9. A subscriber to lifecycle events begins with all the hub still holds, events
   from before its subscription included, gets one event for each poll of 100 ms
   and is not told when the hub drops some. `ToldInOrder` says what it does get.

## Proofs

All theorems hold for every value of the constants that satisfies the named
assumptions: the "none" values are none of the things they stand for the absence
of (`NoneAssumption`, `AbsentAssumption`, `NoLockAssumption` and their like),
bounds are natural numbers and sizes positive, sets of options lie within those
of the code (`AuthorityAssumption`, `AgentStateAssumption`), every question of
`ManagedRuns` has one run that asks it, and in `ClosureProof` a check depends on its
relevant paths only. TLC evaluates each of them on the instances of the runs.

Each proof has the same shape: an inductive invariant, a lemma for each action or
group of actions that it is preserved, a lemma `...Invariance` that puts them
together, and one theorem for each property that follows. What is said below is what
the invariant adds to the properties, and why they are not inductive without it.

*MissionJournal.* `IInv == TypeOK /\ PendingInv /\ StoreInv`. StoreMatchesJournal and
AppendedAtMostOnce are not inductive: an append keeps memory equal to the file
and ids unique only if nobody else extends the file meanwhile, so `LockInv` says
that a process in any phase that touches the files holds the lock, and `PhaseInv`
says, phase by phase, how a process's memory and its pending frame relate to the
journal (a written frame is its last one, one still to be written is new).
From it follow `TypeCorrect`, `StoreMatchesJournalHolds` and
`AppendedAtMostOnceHolds`, with losses of power included. `DurableHolds` and
`StoreImplementsEventLog` assume `PowerLoss = FALSE` and rest on the lemma that
without it the journal only grows; `DurableInv` adds that the head is never ahead
of it. Finding 1 is why they need the assumption. From the same comes the action
property `OpenNeverRefused`: an open without a fence goes on until the store is owned,
unless a new fault ends it, which is the safety half of `RestartRecovers`.

*MissionProjection.* `IInv` is `TypeOK`, `AnsweredAtMostOnce`, `RoutedInv`,
`OpenAnswerOfCurrentRun`, `ClosureIsProvenTwice`, `HistoryInv` and
`PackOfCurrentRun`. `RoutedInv` says that every attempt on record has a run it was
routed to, `HistoryInv` that a mission without a run has no earlier ones; without
the second the first run could be one of the history. `NothingOfEarlierRunHolds`
follows from the parts about open answers and packs; `ArchivedIsFinalHolds` is an
action property from the same invariant.

*ClosureProof.* `IInv == TypeOK /\ RecordInv /\ RanInv /\ StatusInv /\ ProofIsSound /\
ReceiptsAgree`. `RanInv` relates the exit code of a command to the tree as long as
its check is undisturbed; `RecordInv` carries that into the record at the scan;
`Good` depending on the relevant paths only carries it from the record to the
tree of the pack.

*ManagedRuns.* `ManagedInv == JournalInv /\ TailInv /\ MemoryTypeOK /\ WorkInv /\
HandlerInv`. Between two handlers the claim, the providers, the proof worker and
the journal agree (`WorkInv`), but in the middle of one they do not: `HandlerInv`
lists, for each value of `todo`, how far they have come, so that the step that is
left brings them together again, whether its commit succeeds, is refused or
fails. `TailInv` says that the frame a failed commit may have left is harmless when
the next boot replays it. `JournalInv` is the invariant of `MissionProjection`, whose
lemmas are used again for the commits. `SentIsRecordedHolds`, `NoOrphanRunHolds`,
`LeaseMatchesWorkHolds` and `ClosedOnEvidenceHolds` follow, and so does
`ManagedImplementsProjection`: every step of a handler, crash or boot is one event of
the projection or leaves it alone, so what is proved of the projection is true of
the server.

*AttentionInbox.* `InboxInv == InboxTypeOK /\ IndexesAgree /\ TrailInv`. The three
indexes agree with the items, and of each item: every attempt is one response on
the wire, only the last can still be in doubt, and the item's status says which
of these is the case. That only the last is in doubt is what makes a redelivered
confirmation, or one of an earlier attempt, change nothing.

*RunState.* `SessionInv` adds to `SnapshotIsJustified` that every delivered observation
was emitted and no accepted one is newer than the snapshot (`ReceivedInv`,
`StampsInv`). `CompletedTurnHoldsAlways` is an action property.

*AgentAuthority.* `AuthorityInv` adds to the three properties that the owner of a live
full authority is not suppressed (`LiveIsNotSuppressed`), so that ending it never
overwrites the suppression of a session that ended before. Where a release finds
no live authority this fails, which is difference 5.

*PortRegistry.* `RegistryInv` adds to `RegistryLoads` that every copy a runtime has loaded
loads too, and `IdsInv`: the id of a lease is the number of its start, and those of
starts that may still acquire one are new and differ. Nothing in it says that the
lock excludes anybody. `ServiceStaysRecorded` does need it: a section must write a change
of the registry as it is. `ServicesInv` adds to `RegistryInv`, of each operation, how the
registry and the processes look to it (`TasksFit`): what a section has read is the
registry, and while an operation has a lease (`Holds`), every lease of that id is of
its request and port, and names no process, the operation's own, or one that
another runtime spawned; as long as the runtime owns the lease, it is not the last
of these. That last case is two runtimes on one request, which the invariant has to
allow because the code does. An operation gives its lease back only when the
process it knows of has ended. Others do not disturb this, because what they write
keeps the request and port of an id and makes the lease theirs (`Passed`, `Apart`,
`Writes`), and no start acquires under an id that is held (`HeldIds`). With it each step
keeps a recorded service named (`KeepsNamed`), or is the release that is excepted.
`ExcludedServicesRecorded` follows for any number of runtimes whose sections exclude each
other, whatever requests they work on. `TwoRuntimesExclude` proves the exclusion for at
most two from `LockInv`: a runtime from making the lock file to removing it is the one
the file names, and a runtime that found a stale file is the only one up.
`ServiceStaysRecordedHolds` puts the two together, with no assumption on the lock; its
assumption is that there are at most two runtimes, and finding 4 is what three do.

*ClaudeAdapter.* `ClaudeInv` relates the handshake, what has been reported and the
running turn: nothing is reported before the answer to `initialize`, turns are
reported in the order of their numbers, and pending requests belong to a turn that
is running.

*OpenCodeAdapter.* The actor learns of its session from events that lag behind it, so
`OwnTurnIsShown` and `QuietAgrees` can only be maintained by an invariant about the
events still under way. `PermissionInv`: a settled permission that the actor still
shows has its reply in the stream, behind the question. `TurnInv`: a message in the
stream is followed by an idle unless the session is busy; an unarmed turn is owed
a message that is new to the actor, an armed one its end. `PromptInv`: while the
idle of an earlier turn is in the stream, the actor knows every message before it
and its turn is unarmed, so that this idle cannot be taken for the end; the
exceptions of `OwnTurnIsShown` are where this fails. `RemovalInv`: a removal under way is of
a message that is gone, and no update of it follows, so that what the actor
forgets on receiving it does not come back as new. `EarlyInv` and `HistoryInv` are about
what has been reported so far; a turn was reported Working once if it is marked
as shown, and not at all if it is not.

*EventSubscriptions.* `EventsInv == EventsTypeOK /\ HubInv /\ ToldInv`. Looks lie in the
past; the hub numbers its events without a gap and their moments grow; what was
told is older than every event the subscriber has not read, and no newer than a
snapshot it is about to compare. That nothing is told twice needs `LastInv` as well: the
look a snapshot is compared with is the one that was told last, unless the pane
has changed since. From both the action property `ToldInOrderHolds`.

*LiveHandoff.* `HandoffInv == HandoffTypeOK /\ OldState /\ NewStates /\ OneLock /\
OwnedLine /\ PanesLive`. `OldState` and `NewStates` describe each server at every step of
its own; what ties the two together are the lock of the store, the public sockets
and the "owned" line, which is on the stream only if the new server has the journal.
A timeout of the old server that crosses this line is the case that needs them.

*PtyActor.* `PtyInv` treats the control channel as a queue: calls and replies come in
one order, so that a reply to the call that is waited for means that no other call
is under way. That excludes a late reply to an earlier call opening the gate of a
quiesced actor. `PausedInv` and `FinalInv` say what is left in the channel then.
`DeliveryInv` is about the bytes: `InputDelivered` states with positions that the line of
written, pending and queued bytes is that of the accepted inputs, and is kept by
each step that appends to the line, moves a piece along it or writes some of its
bytes. It needs `AcceptedOnce`, since a byte is told apart by its input; `StoppedInv`,
that a write to an empty line begins at its first byte and the channel of a
quiesced actor is empty; and `ReleaseInv`, that a release is made, and ends, with
the pane paused.

Only model-checked:

- `RestartRecovers`, `LeaseReturned`, `OrphanSettled`, `HandoffEnds`, `AcceptedIsWritten`,
  `TurnEnds` and `ClientLearns`: liveness under fairness is out of the prover's reach;
- the violated properties.

## Not modelled

Within the modelled parts: collisions of hashes and tampering with files; symlink
and permission checks; manual evidence and optional checks; limits on output and
time of the check runner; the launch queue around a start; more than one mission
in the handlers (they share only the store and, if they name the same worktree,
the claim, which `OtherMission` stands for); event ids of status changes, which
repeat within one millisecond; lock files and nonces behind a claim; reuse of
process ids; subscriptions to output and scrolling, which compare each snapshot
with the last.

The Codex and ACP adapters are read but not modelled. ACP reports `Ready` first
because an empty session id refuses every inbound frame before the session's
response; Codex checks no session in its notifications, so there the order
depends on the process, and `ManagedRuns` assumes it. Both lose half-read frames
like the Claude adapter.

The rest of the repository, by far the larger part of its lines, is terminal
emulation, rendering, key handling, layout, configuration, the command line,
remote access, integration installers, plugins, self update, the website and
vendored libraries: presentation, foreign code or sequential file work that no
promise above depends on. `server/consent.rs` is unreachable at this commit, since
the requests that would use it are refused at the API.

## Plan

Done: the modules above with their runs, and the proof of every invariant, action
property and refinement the passing runs check. To come:

1. The Codex and ACP adapters against an abstract order of provider events that
   the Claude adapter implements too.
2. Status changes with their event ids and a moving clock in `ManagedRuns`.
3. Clients of the server: attach rights and delivery of frames.
