---------------------------- MODULE ManagedRuns ----------------------------
(***************************************************************************)
(* The server's handlers for the runs of one mission (server/headless.rs)  *)
(* over the mission runtime (mission/runtime.rs), the worktree claims      *)
(* (mission/claims.rs) and the durable projection of MissionProjection.    *)
(*                                                                         *)
(* A handler runs to its end before the server takes the next event, but   *)
(* it commits several events and the process may die, or a commit may      *)
(* fail and poison the store, between any two of them.  What the current   *)
(* handler has left to do is todo, a sequence of sets of effects: a set    *)
(* with several members is a loop over a map, in any order.  Effects that  *)
(* touch memory only are done in one step with the effect they follow      *)
(* whenever nothing can come between.  The clock stands still.             *)
(***************************************************************************)
EXTENDS MissionProjection, Sequences

CONSTANTS
  Asker,      \* the run whose provider asks a question
  Other,      \* another mission's claim on the worktree
  MaxFaults   \* bound on the crashes and the failing commits

ASSUME AskerAssumption == Asker \in [Attention -> Run]
ASSUME OtherAssumption == Other \notin Run \cup {NoRun}
ASSUME FaultsAssumption == MaxFaults \in Nat

VARIABLES
  up,         \* the server process runs
  todo,       \* what is left of the current handler
  poisoned,   \* a commit failed and the store refuses to write
  tail,       \* the event of that commit when its frame reached the file
  faults,     \* crashes and failing commits so far
  checks,     \* execute_declared_checks of the mission's runs
  managed,    \* managed_runs
  recovered,  \* those taken over from an earlier server
  announced,  \* those whose provider has reported its session
  channel,    \* requests with a live response channel (responses)
  inflight,   \* attempt sent and not yet resolved (inflight_responses), or 0
  proving,    \* pending_proofs
  lease,      \* owner of the worktree's claim
  sent        \* how often an answer to a request was handed to a provider

process == <<up, todo, poisoned, tail, faults>>
provided == <<managed, recovered, announced, channel, inflight>>
outside == <<checks, lease, sent>>
managedVars == <<projection, process, provided, proving, outside>>

Now == 0
Idle == up /\ todo = <<>>
Attentions(r) == {a \in Attention : Asker[a] = r}
Answer == Attention \X Attempt

(***************************************************************************)
(* Effects.  The first group are commits, the second changes of memory.    *)
(***************************************************************************)
Created == [do |-> "created"]
Configured == [do |-> "configured"]
Started(r, v) == [do |-> "started", run |-> r, provider |-> v]
Continued(r, v) == [do |-> "continued", run |-> r, provider |-> v]
Bound(r, s) == [do |-> "bound", run |-> r, session |-> s]
Transition(r, to) == [do |-> "status", run |-> r, to |-> to]
Opened(a) == [do |-> "opened", attention |-> a]
Requested(a, n) == [do |-> "requested", attention |-> a, attempt |-> n]
Acknowledged(a, n) == [do |-> "acknowledged", attention |-> a, attempt |-> n]
NotApplied(a, n) == [do |-> "notApplied", attention |-> a, attempt |-> n]
Unknown(a, n) == [do |-> "unknown", attention |-> a, attempt |-> n]
Packed(r) == [do |-> "pack", run |-> r]
Checked(r, c, e) == [do |-> "evidence", run |-> r, check |-> c, result |-> e]
Proven(r, u) == [do |-> "ready", run |-> r, subject |-> u]
Closed(r, u) == [do |-> "archived", run |-> r, subject |-> u]

Durable == {"created", "configured", "started", "continued", "bound",
            "status", "opened", "requested", "acknowledged", "notApplied",
            "unknown", "pack", "evidence", "ready", "archived"}

Claim(r) == [do |-> "claim", run |-> r]
Launch(r) == [do |-> "launch", run |-> r]
Offer(a) == [do |-> "offer", attention |-> a]
Settle(a) == [do |-> "settle", attention |-> a]
Send(a, n) == [do |-> "send", attention |-> a, attempt |-> n]
Prove(r) == [do |-> "prove", run |-> r]
Conclude(r, u, ok) == [do |-> "conclude", run |-> r, subject |-> u, passed |-> ok]
Drop(r) == [do |-> "drop", run |-> r]
Free(r) == [do |-> "free", run |-> r]
Recover == [do |-> "recover"]
Exit == [do |-> "exit"]

\* A loop over S before the steps q.
Then(S, q) == IF S = {} THEN q ELSE <<S>> \o q
Rest(e) == Then(Head(todo) \ {e}, Tail(todo))

\* Mutant of Unknowns: a lost connection counts as an answer not applied.
UnknownsAsFailed(r) ==
  {NotApplied(a, inflight[a]) : a \in {b \in Attentions(r) : inflight[b] # 0}}

Unknowns(r) ==
  {Unknown(a, inflight[a]) : a \in {b \in Attentions(r) : inflight[b] # 0}}

ManagedInit ==
  /\ Init
  /\ up = TRUE /\ todo = <<>> /\ poisoned = FALSE /\ tail = {} /\ faults = 0
  /\ checks \in BOOLEAN
  /\ managed = {} /\ recovered = {} /\ announced = {} /\ channel = {}
  /\ inflight = [a \in Attention |-> 0]
  /\ proving = {}
  /\ lease = NoRun
  /\ sent = [a \in Attention |-> 0]

(***************************************************************************)
(* A commit is applied to the projection, refused by it, or fails after    *)
(* which the store is poisoned and the frame may or may not be in the file. *)
(***************************************************************************)
Apply(e) ==
  \/ e.do = "created" /\ MissionCreated(Now)
  \/ e.do = "configured" /\ ClosureConfigured(Now)
  \/ e.do = "started" /\ RunStarted(e.run, e.provider, Now)
  \/ e.do = "continued" /\ RunContinued(e.run, e.provider, Now)
  \/ e.do = "bound" /\ ProviderSessionBound(e.session, Now)
  \/ e.do = "status" /\ StatusChanged(e.to, Now)
  \/ e.do = "opened" /\ AttentionOpened(e.attention, Now)
  \/ e.do = "requested" /\ ResponseRequested(e.attention, e.attempt, Now)
  \/ e.do = "acknowledged" /\ ResponseAcknowledged(e.attention, e.attempt, Now)
  \/ e.do = "notApplied" /\ ResponseNotApplied(e.attention, e.attempt, Now)
  \/ e.do = "unknown" /\ ResponseUnknown(e.attention, e.attempt, Now)
  \/ e.do = "pack" /\ EvidencePackRecorded(Now)
  \/ e.do = "evidence" /\ EvidenceChanged(e.check, e.result, Now)
  \/ e.do = "ready" /\ MissionReady(e.subject, Now, Now)
  \/ e.do = "archived" /\ MissionArchived(e.subject, Now, Now)

Accepts(e) ==
  /\ ~poisoned /\ sequence < MaxSequence
  /\ e.do = "continued" => \A a \in Attention : ~Unresolved(a)
  /\ e.do = "bound" => status = "preparing" /\ e.run = run
  /\ e.do = "status" => CanPersistFrom(e.to, status)
  /\ e.do = "opened" => attention[e.attention] = "none"
  /\ e.do = "requested" => attention[e.attention] = "open" /\ session # NoSession

\* What the handler does when a commit of it does not succeed.
Otherwise(e) ==
  CASE e.do \in {"started", "continued"} -> <<{Free(e.run)}>>
    [] e.do = "bound" -> <<{Transition(e.run, "failed")}, {Drop(e.run)}>>
    [] e.do = "notApplied" -> LET r == Asker[e.attention]
                              IN  <<{Transition(r, "failed")}, {Drop(r)}>>
    [] e.do = "status" /\ e.to = "review" -> <<{Drop(e.run)}>>
    [] e.do = "unknown" \/ (e.do = "status" /\ e.to # "review") -> Rest(e)
    [] e.do \in {"pack", "evidence", "ready", "archived"} -> <<{Free(e.run)}>>
    [] OTHER -> <<>>

Committed(e) ==
  /\ Accepts(e) /\ Apply(e)
  /\ todo' = Rest(e)
  /\ UNCHANGED <<up, poisoned, tail, faults>>

Refused(e) ==
  /\ ~Accepts(e)
  /\ todo' = Otherwise(e)
  /\ UNCHANGED <<projection, up, poisoned, tail, faults>>

CommitFails(e) ==
  /\ Accepts(e) /\ faults < MaxFaults
  /\ poisoned' = TRUE /\ faults' = faults + 1
  /\ tail' \in {{}, {e}}
  /\ todo' = Otherwise(e)
  /\ UNCHANGED <<projection, up>>

CommitStep(e) ==
  /\ e.do \in Durable
  /\ Committed(e) \/ Refused(e) \/ CommitFails(e)
  /\ UNCHANGED <<provided, proving, outside>>

(***************************************************************************)
(* Memory: claims, providers and response channels.                        *)
(***************************************************************************)
Released(r) == IF lease = r THEN NoRun ELSE lease

\* The run leaves managed_runs and takes its response channels with it.
Unmanage(r) ==
  /\ managed' = managed \ {r} /\ recovered' = recovered \ {r}
  /\ announced' = announced \ {r}
  /\ channel' = channel \ Attentions(r)
  /\ inflight' = [a \in Attention |-> IF Asker[a] = r THEN 0 ELSE inflight[a]]

ClaimStep(e) ==
  /\ e.do = "claim"
  /\ \/ lease = NoRun /\ lease' = e.run /\ todo' = Rest(e)
     \/ lease # NoRun /\ todo' = <<>> /\ UNCHANGED lease
  /\ UNCHANGED <<projection, up, poisoned, tail, faults, provided, proving, checks, sent>>

\* Mutant of LaunchStep: the mission of a failed launch is not marked failed.
LaunchStepUnmarked(e) ==
  /\ e.do = "launch"
  /\ \/ managed' = managed \cup {e.run} /\ todo' = Rest(e)
     \/ todo' = <<{Free(e.run)}>> /\ UNCHANGED managed
  /\ UNCHANGED <<projection, up, poisoned, tail, faults, recovered, announced,
                 channel, inflight, proving, outside>>

\* spawn_managed_provider and the first command to the provider.
LaunchStep(e) ==
  /\ e.do = "launch"
  /\ \/ managed' = managed \cup {e.run} /\ todo' = Rest(e)
     \/ /\ todo' = <<{Transition(e.run, "failed")}, {Free(e.run)}>>
        /\ UNCHANGED managed
  /\ UNCHANGED <<projection, up, poisoned, tail, faults, recovered, announced,
                 channel, inflight, proving, outside>>

ChannelStep(e) ==
  /\ \/ /\ e.do = "offer"
        /\ channel' = channel \cup {e.attention} /\ UNCHANGED inflight
     \/ /\ e.do = "settle"
        /\ inflight' = [inflight EXCEPT ![e.attention] = 0] /\ UNCHANGED channel
  /\ todo' = Rest(e)
  /\ UNCHANGED <<projection, up, poisoned, tail, faults, managed, recovered,
                 announced, proving, outside>>

\* try_send: the provider takes the answer, its queue is full, or it is gone.
SendStep(e) ==
  LET a == e.attention  n == e.attempt
  IN  /\ e.do = "send"
      /\ \/ /\ sent' = [sent EXCEPT ![a] = @ + 1]
            /\ channel' = channel \ {a}
            /\ inflight' = [inflight EXCEPT ![a] = n]
            /\ todo' = Rest(e)
         \/ /\ todo' \in {<<{NotApplied(a, n)}>>,
                          <<{NotApplied(a, n)}, {Transition(Asker[a], "failed")},
                            {Drop(Asker[a])}>>}
            /\ UNCHANGED <<sent, channel, inflight>>
      /\ UNCHANGED <<projection, up, poisoned, tail, faults, managed, recovered,
                     announced, proving, checks, lease>>

DropStep(e) ==
  /\ e.do = "drop"
  /\ IF e.run \in managed
       THEN Unmanage(e.run) /\ lease' = Released(e.run)
       ELSE UNCHANGED <<provided, lease>>
  /\ todo' = Rest(e)
  /\ UNCHANGED <<projection, up, poisoned, tail, faults, proving, checks, sent>>

FreeStep(e) ==
  /\ e.do = "free"
  /\ lease' = Released(e.run)
  /\ todo' = Rest(e)
  /\ UNCHANGED <<projection, up, poisoned, tail, faults, provided, proving, checks, sent>>

\* Mutant of ProveStep: the lease is kept when the worker does not start.
ProveStepLeaks(e) ==
  /\ e.do = "prove"
  /\ Unmanage(e.run)
  /\ proving' \in {proving, proving \cup {e.run}} /\ UNCHANGED lease
  /\ todo' = Rest(e)
  /\ UNCHANGED <<projection, up, poisoned, tail, faults, checks, sent>>

\* start_closure_execution hands the lease to a proof worker, whose thread may
\* fail to start.
ProveStep(e) ==
  /\ e.do = "prove"
  /\ Unmanage(e.run)
  /\ \/ proving' = proving \cup {e.run} /\ UNCHANGED lease
     \/ lease' = Released(e.run) /\ UNCHANGED proving
  /\ todo' = Rest(e)
  /\ UNCHANGED <<projection, up, poisoned, tail, faults, checks, sent>>

\* Mutant of ConcludeStep: open questions do not stop the proof.
ConcludeStepUnresolved(e) ==
  LET outcome ==
        CASE e.passed /\ status = "ready" /\ ready.subject = e.subject -> {Closed(e.run, e.subject)}
          [] e.passed /\ status # "ready" -> {Proven(e.run, e.subject)}
          [] status = "ready" -> {Transition(e.run, "blocked")}
          [] OTHER -> {}
  IN  /\ e.do = "conclude"
      /\ todo' = Then(outcome, Rest(e))
      /\ UNCHANGED <<projection, up, poisoned, tail, faults, provided, proving, outside>>

\* The second half of finalize_evidence_pack: evaluate, then ready or archive.
ConcludeStep(e) ==
  LET verified == e.passed /\ \A a \in Attention : ~Unresolved(a)
      outcome ==
        CASE verified /\ status = "ready" /\ ready.subject = e.subject -> {Closed(e.run, e.subject)}
          [] verified /\ status # "ready" -> {Proven(e.run, e.subject)}
          [] status = "ready" -> {Transition(e.run, "blocked")}
          [] OTHER -> {}
  IN  /\ e.do = "conclude"
      /\ todo' = Then(outcome, Rest(e))
      /\ UNCHANGED <<projection, up, poisoned, tail, faults, provided, proving, outside>>

\* Mutant of RecoverStep: a mission that was preparing is left alone.
RecoverStepActive(e) ==
  /\ e.do = "recover"
  /\ \/ /\ run = NoRun \/ status # "active"
        /\ todo' = <<>> /\ UNCHANGED <<managed, recovered, lease>>
     \/ /\ run # NoRun /\ status = "active"
        /\ todo' = <<{Transition(run, "blocked")}>>
        /\ UNCHANGED <<managed, recovered, lease>>
  /\ UNCHANGED <<projection, up, poisoned, tail, faults, announced, channel,
                 inflight, proving, checks, sent>>

\* recover_managed_runs: only an active run with a session and no open
\* question is resumed, and only when its worktree can be claimed.
RecoverStep(e) ==
  /\ e.do = "recover"
  /\ \/ /\ run = NoRun \/ status \notin {"preparing", "active"}
        /\ todo' = <<>> /\ UNCHANGED <<managed, recovered, lease>>
     \/ /\ run # NoRun /\ status \in {"preparing", "active"}
        /\ todo' = <<{Transition(run, "blocked")}>>
        /\ UNCHANGED <<managed, recovered, lease>>
     \/ /\ status = "active" /\ session # NoSession /\ run # NoRun
        /\ \A a \in Attention : ~Unresolved(a)
        /\ lease = NoRun /\ lease' = run
        /\ managed' = managed \cup {run} /\ recovered' = recovered \cup {run}
        /\ todo' = <<>>
  /\ UNCHANGED <<projection, up, poisoned, tail, faults, announced, channel,
                 inflight, proving, checks, sent>>

\* Every claim and every provider of this process ends with it.
Gone ==
  /\ up' = FALSE /\ todo' = <<>>
  /\ managed' = {} /\ recovered' = {} /\ announced' = {} /\ channel' = {}
  /\ inflight' = [a \in Attention |-> 0]
  /\ proving' = {}
  /\ lease' = IF lease = Other THEN Other ELSE NoRun
  /\ UNCHANGED <<projection, poisoned, tail, checks, sent>>

ExitStep(e) == e.do = "exit" /\ Gone /\ UNCHANGED faults

Step ==
  /\ up /\ todo # <<>>
  /\ \E e \in Head(todo) :
       \/ CommitStep(e)
       \/ ClaimStep(e) \/ LaunchStep(e) \/ ChannelStep(e) \/ SendStep(e)
       \/ DropStep(e) \/ FreeStep(e) \/ ProveStep(e) \/ ConcludeStep(e)
       \/ RecoverStep(e) \/ ExitStep(e)

(***************************************************************************)
(* Handlers.  Each one starts when the server is idle.                     *)
(***************************************************************************)
Begin(steps) ==
  /\ Idle
  /\ todo' = steps
  /\ UNCHANGED <<projection, up, poisoned, tail, faults, outside>>

Create ==
  /\ status = "absent"
  /\ Begin(<<{Created}>>)
  /\ UNCHANGED <<provided, proving>>

Configure ==
  /\ status = "draft" /\ run = NoRun /\ ~configured
  /\ Begin(<<{Configured}>>)
  /\ UNCHANGED <<provided, proving>>

Start(r, v) ==
  /\ r \notin managed
  /\ status = "draft" /\ run = NoRun /\ configured
  /\ Begin(<<{Claim(r)}, {Started(r, v)}, {Launch(r)}>>)
  /\ UNCHANGED <<provided, proving>>

\* A run identifier is derived from the mission, the target and the tree.
Continue(r, v) ==
  /\ status \in {"blocked", "failed", "review", "ready"}
  /\ run # NoRun /\ v # provider
  /\ r # run /\ r \notin earlier
  /\ Begin(<<{Drop(run)}, {Claim(r)}, {Continued(r, v)}, {Launch(r)}>>)
  /\ UNCHANGED <<provided, proving>>

Respond(a, n) ==
  /\ Asker[a] \in managed /\ a \in channel
  /\ NextAttempt(a, n)
  /\ Begin(<<{Requested(a, n)}, {Send(a, n)}>>)
  /\ UNCHANGED <<provided, proving>>

\* The claim, the entry in pending_proofs and the worker's thread.
Close ==
  /\ Idle
  /\ status = "ready" /\ run # NoRun
  /\ run \notin proving /\ run \notin managed
  /\ lease = NoRun /\ lease' = run
  /\ proving' = proving \cup {run}
  /\ UNCHANGED <<projection, process, provided, checks, sent>>

\* The adapters report Ready once, before any other event of the run.
Ready(r, s) ==
  /\ r \in managed \ announced
  /\ announced' = announced \cup {r}
  /\ Begin(IF status = "active" /\ run = r /\ session = s THEN <<>> ELSE <<{Bound(r, s)}>>)
  /\ UNCHANGED <<managed, recovered, channel, inflight, proving>>

AttentionRequested(a) ==
  /\ Asker[a] \in announced
  /\ Begin(<<{Opened(a)}, {Offer(a)}>>)
  /\ UNCHANGED <<provided, proving>>

ResponseResolved(a) ==
  /\ inflight[a] # 0
  /\ Begin(<<{Acknowledged(a, inflight[a])}, {Settle(a)}>>)
  /\ UNCHANGED <<provided, proving>>

TurnCompleted(r) ==
  /\ r \in announced
  /\ \/ Begin(<<{Transition(r, "review")}, {IF checks THEN Prove(r) ELSE Drop(r)}>>)
     \/ Begin(<<{Transition(r, "blocked")}, {Drop(r)}>>)
     \/ Begin(<<{Transition(r, "failed")}>> \o Then(Unknowns(r), <<{Drop(r)}>>))
  /\ UNCHANGED <<provided, proving>>

\* Also Stopped.
TransportFailed(r) ==
  /\ r \in managed
  /\ Begin(<<{Transition(r, IF r \in recovered THEN "blocked" ELSE "failed")}>>
             \o Then(Unknowns(r), <<{Drop(r)}>>))
  /\ UNCHANGED <<provided, proving>>

\* Mutant of ProofFinished: a worker without a pack keeps the lease.
ProofFinishedLeaks(r) ==
  /\ r \in proving
  /\ proving' = proving \ {r}
  /\ Begin(<<>>)
  /\ UNCHANGED provided

\* The worker ends without a pack, or with the result of every check, the
\* subject of the proof and whether the tree still is the one checked.
ProofFinished(r) ==
  /\ r \in proving
  /\ proving' = proving \ {r}
  /\ \/ Begin(<<{Free(r)}>>)
     \/ \E passed \in SUBSET Check, u \in Subject, fresh \in BOOLEAN :
          Begin(IF status \in {"review", "ready"} /\ r = run /\ lease = r
                  THEN <<{Packed(r)}>>
                       \o Then({Checked(r, c, IF c \in passed THEN "passed" ELSE "failed") : c \in Check},
                               <<{Conclude(r, u, fresh /\ passed = Check)}, {Free(r)}>>)
                  ELSE <<{Free(r)}>>)
  /\ UNCHANGED provided

\* Drop for HeadlessServer
Shutdown ==
  /\ Begin(Then(UNION {Unknowns(r) : r \in managed}, <<{Exit}>>))
  /\ UNCHANGED <<provided, proving>>

Crash ==
  /\ up /\ faults < MaxFaults
  /\ Gone
  /\ faults' = faults + 1

\* The journal is replayed, with the frame of a failed commit if it is there.
Boot ==
  /\ ~up
  /\ IF tail = {} THEN UNCHANGED projection ELSE \E e \in tail : Apply(e)
  /\ up' = TRUE /\ poisoned' = FALSE /\ tail' = {}
  /\ todo' = <<{Recover}>>
  /\ UNCHANGED <<faults, provided, proving, outside>>

OtherMission ==
  /\ \/ lease = NoRun /\ lease' = Other
     \/ lease = Other /\ lease' = NoRun
  /\ UNCHANGED <<projection, process, provided, proving, checks, sent>>

ProviderEvent ==
  \/ \E r \in Run : TurnCompleted(r) \/ TransportFailed(r)
  \/ \E r \in Run, s \in Session : Ready(r, s)
  \/ \E a \in Attention : AttentionRequested(a) \/ ResponseResolved(a)

UserRequest ==
  \/ Create \/ Configure \/ Close
  \/ \E r \in Run, v \in Provider : Start(r, v) \/ Continue(r, v)
  \/ \E a \in Attention, n \in Attempt : Respond(a, n)

ProofEnds == \E r \in Run : ProofFinished(r)

ManagedNext ==
  \/ Step
  \/ ProviderEvent \/ UserRequest \/ ProofEnds
  \/ Shutdown \/ Crash \/ Boot
  \/ OtherMission

ManagedSpec == ManagedInit /\ [][ManagedNext]_managedVars

\* A handler runs to its end and a server that stopped is started again.  A
\* check ends or is killed by its timeout, and the main loop's select picks
\* among the waiting events at random, so requests do not starve a proof.
FairSpec ==
  /\ ManagedSpec
  /\ WF_managedVars(Step) /\ SF_managedVars(ProofEnds) /\ WF_managedVars(Boot)

\* Moreover somebody answers what can be answered and goes on with what can be
\* continued or closed.
DiligentSpec ==
  /\ FairSpec
  /\ WF_managedVars(\E a \in Attention, n \in Attempt : Respond(a, n))
  /\ WF_managedVars(\E r \in Run, v \in Provider : Continue(r, v))
  /\ WF_managedVars(Close)

(***************************************************************************)
(* Properties.                                                             *)
(***************************************************************************)
Effect ==
  [do : {"created", "configured", "recover", "exit"}]
  \cup [do : {"started", "continued"}, run : Run, provider : Provider]
  \cup [do : {"bound"}, run : Run, session : Session]
  \cup [do : {"status"}, run : Run, to : Status]
  \cup [do : {"opened", "offer", "settle"}, attention : Attention]
  \cup [do : {"requested", "acknowledged", "notApplied", "unknown", "send"},
        attention : Attention, attempt : Attempt]
  \cup [do : {"pack", "claim", "launch", "prove", "drop", "free"}, run : Run]
  \cup [do : {"evidence"}, run : Run, check : Check, result : {"passed", "failed"}]
  \cup [do : {"ready", "archived"}, run : Run, subject : Subject]
  \cup [do : {"conclude"}, run : Run, subject : Subject, passed : BOOLEAN]

\* The server's maps have their types: what is known of a run (recovered,
\* announced) is known of a managed run only.
ManagedTypeOK ==
  /\ TypeOK
  /\ up \in BOOLEAN /\ poisoned \in BOOLEAN /\ checks \in BOOLEAN
  /\ todo \in Seq(SUBSET Effect) /\ tail \in SUBSET Effect
  /\ faults \in 0..MaxFaults
  /\ managed \subseteq Run /\ recovered \subseteq managed /\ announced \subseteq managed
  /\ channel \subseteq Attention
  /\ inflight \in [Attention -> 0..MaxAttempt]
  /\ proving \subseteq Run
  /\ lease \in Run \cup {NoRun, Other}
  /\ sent \in [Attention -> Nat]

\* An answer that was handed to a provider was handed over once and the
\* journal says so: after any crash it is never again shown as open or as not
\* applied (handle_mission_respond_authorized commits before it sends).
SentIsRecorded ==
  \A a \in Attention :
    /\ sent[a] <= 1
    /\ sent[a] = 1 => attention[a] \in {"pending", "reconcile", "resolved"}

\* Between handlers, a mission the journal calls preparing or active has its
\* provider: no error path, crash or restart leaves one running for nobody.
NoOrphanRun ==
  Idle /\ ~poisoned /\ sequence < MaxSequence /\ status \in {"preparing", "active"}
    => run \in managed

\* Providers and proof workers only ever work for the mission's current run,
\* never both at once, and between handlers the worktree is claimed exactly for
\* the run that works in it: claims do not leak and are not given up early.
LeaseMatchesWork ==
  /\ managed \cup proving \subseteq {run}
  /\ managed \cap proving = {}
  /\ Idle => {r \in Run : lease = r} = managed \cup proving

\* A mission is verified only with every question settled, and closed only on
\* a pack of its current run in which every check passed; no passed check on
\* record was run for an earlier run.
ClosedOnEvidence ==
  /\ status \in {"ready", "archived"} =>
       pack = run /\ \A a \in Attention : ~Unresolved(a)
  /\ status = "archived" => \A c \in Check : evidence[c] = "passed"
  /\ (\E c \in Check : evidence[c] = "passed") => pack = run

\* A claim that no live provider needs is returned.
LeaseReturned == lease \in Run ~> lease \in managed \cup {NoRun, Other}

\* A run whose provider was lost, to a crash or to a failing handler, is
\* resumed or no longer shown as running, unless the journal takes no events.
OrphanSettled ==
  status \in {"preparing", "active"} /\ run \notin managed
    ~> \/ status \notin {"preparing", "active"} \/ run \in managed
       \/ poisoned \/ sequence = MaxSequence

\* An answer whose delivery is unknown is reconciled one day.
Reconciles ==
  \A a \in Attention : attention[a] = "reconcile" ~> attention[a] # "reconcile"
=============================================================================
