------------------------- MODULE MissionProjection -------------------------
(***************************************************************************)
(* The durable projection of one mission: what MissionProjection::apply    *)
(* (src/mission/store.rs) makes of the events the store commits, one       *)
(* action per event.  An action is enabled exactly when apply accepts the  *)
(* event; a refused event changes nothing and is not recorded.  Fields of  *)
(* an event that apply requires to equal the projection's (the source run, *)
(* its worktree and base revision, the ready seal, the attention's risk)   *)
(* are therefore not parameters.                                           *)
(*                                                                         *)
(* A subject is what a proof binds: mission, run, criteria, checks and the *)
(* state of the workspace.  A receipt adds the journal sequence the proof  *)
(* was evaluated at and the time it was verified.                          *)
(***************************************************************************)
EXTENDS Naturals

CONSTANTS
  Run,          \* run identifiers
  NoRun,
  Provider,     \* kinds of provider
  NoProvider,
  Session,      \* provider sessions
  NoSession,
  Attention,    \* questions and permission requests
  Check,        \* declared checks
  Subject,      \* what a proof may be about
  NoReceipt,
  MaxAttempt,   \* bound on the attempts to answer one request
  MaxTime,      \* bound on at_millis
  MaxSequence   \* MAX_JOURNAL_FRAMES

ASSUME NoneAssumption ==
  NoRun \notin Run /\ NoSession \notin Session /\ NoProvider \notin Provider
ASSUME BoundAssumption ==
  MaxAttempt \in Nat /\ MaxTime \in Nat /\ MaxSequence \in Nat

Attempt == 1..MaxAttempt
Time == 0..MaxTime
Receipt == [subject : Subject, sequence : Nat, at : Time]

ASSUME NoReceiptAssumption == NoReceipt \notin Receipt

VARIABLES
  sequence,     \* the journal head
  updated,      \* updated_at_millis, the mission's logical time
  status,       \* "absent" before MissionCreated
  configured,   \* check_declarations is not empty
  run, provider, session,   \* the current PersistedRun
  earlier,      \* run_history
  attention,    \* state of every request, "none" when unknown
  response,     \* state of every attempt to answer, "none" when not made
  route,        \* the run an attempt was sent to
  evidence,     \* latest result of every check
  pack,         \* the run of the latest evidence pack
  ready, archive   \* the two proof receipts

work == <<run, provider, session, earlier>>
answers == <<attention, response, route>>
proof == <<evidence, pack, ready, archive>>
mission == <<status, configured, work, answers, proof>>
projection == <<sequence, updated, mission>>

Status == {"draft", "preparing", "active", "blocked", "review", "ready",
           "archived", "failed"}
AttentionState == {"none", "open", "pending", "reconcile", "resolved",
                   "expired"}
ResponseState == {"none", "requested", "acknowledged", "failed", "reconcile"}
EvidenceStatus == {"none", "passed", "failed", "stale"}

Unresolved(a) == attention[a] \in {"open", "pending", "reconcile"}

\* Mutant of CanPersistFrom: an archived mission may be reopened.
CanReopen(to, from) ==
  \/ from = "preparing" /\ to \in {"active", "blocked", "failed"}
  \/ from = "active" /\ to \in {"review", "blocked", "failed"}
  \/ from = "blocked" /\ to \in {"preparing", "active", "failed"}
  \/ from = "review" /\ to \in {"active", "blocked", "failed"}
  \/ from \in {"ready", "archived"} /\ to \in {"active", "blocked"}

\* MissionStatus::can_persist_from
CanPersistFrom(to, from) ==
  \/ from = "draft" /\ to = "preparing"
  \/ from = "preparing" /\ to \in {"active", "blocked", "failed"}
  \/ from = "active" /\ to \in {"review", "blocked", "failed"}
  \/ from = "blocked" /\ to \in {"preparing", "active", "failed"}
  \/ from = "review" /\ to \in {"active", "blocked", "failed"}
  \/ from = "ready" /\ to \in {"active", "blocked"}

Init ==
  /\ sequence = 0 /\ updated = 0
  /\ status = "absent" /\ configured = FALSE
  /\ run = NoRun /\ provider = NoProvider /\ session = NoSession
  /\ earlier = {}
  /\ attention = [a \in Attention |-> "none"]
  /\ response = [a \in Attention |-> [n \in Attempt |-> "none"]]
  /\ route = [a \in Attention |-> [n \in Attempt |-> NoRun]]
  /\ evidence = [c \in Check |-> "none"]
  /\ pack = NoRun
  /\ ready = NoReceipt /\ archive = NoReceipt

Logical(at) == IF at > updated THEN at ELSE updated

\* An accepted event takes the next sequence and moves the logical time.
Commit(at) ==
  /\ sequence < MaxSequence
  /\ sequence' = sequence + 1
  /\ updated' = Logical(at)

(***************************************************************************)
(* Creation and runs.                                                      *)
(***************************************************************************)
MissionCreated(at) ==
  /\ status = "absent"
  /\ Commit(at)
  /\ status' = "draft"
  /\ UNCHANGED <<configured, work, answers, proof>>

ClosureConfigured(at) ==
  /\ status = "draft" /\ run = NoRun
  /\ ~configured
  /\ Commit(at)
  /\ configured' = TRUE
  /\ UNCHANGED <<status, work, answers, proof>>

RunStarted(r, v, at) ==
  /\ status = "draft" /\ run = NoRun
  /\ configured
  /\ Commit(at)
  /\ run' = r /\ provider' = v /\ session' = NoSession
  /\ status' = "preparing"
  /\ UNCHANGED <<configured, earlier, answers, proof>>

\* Mutant of RunContinued: the requests of the source run are not looked at.
RunContinuedUnresolved(r, v, at) ==
  /\ status \in {"blocked", "failed", "review", "ready"}
  /\ run # NoRun
  /\ v # provider
  /\ r # run /\ r \notin earlier
  /\ Commit(at)
  /\ earlier' = earlier \cup {run}
  /\ run' = r /\ provider' = v /\ session' = NoSession
  /\ evidence' = [c \in Check |-> IF evidence[c] = "none" THEN "none" ELSE "stale"]
  /\ pack' = NoRun /\ ready' = NoReceipt /\ archive' = NoReceipt
  /\ status' = "preparing"
  /\ UNCHANGED <<configured, answers>>

\* A handoff to another provider: the proof of the source run is void.
RunContinued(r, v, at) ==
  /\ status \in {"blocked", "failed", "review", "ready"}
  /\ \A a \in Attention : ~Unresolved(a)
  /\ run # NoRun
  /\ v # provider
  /\ r # run /\ r \notin earlier
  /\ Commit(at)
  /\ earlier' = earlier \cup {run}
  /\ run' = r /\ provider' = v /\ session' = NoSession
  /\ evidence' = [c \in Check |-> IF evidence[c] = "none" THEN "none" ELSE "stale"]
  /\ pack' = NoRun /\ ready' = NoReceipt /\ archive' = NoReceipt
  /\ status' = "preparing"
  /\ UNCHANGED <<configured, answers>>

ProviderSessionBound(s, at) ==
  /\ status = "preparing" /\ run # NoRun
  /\ Commit(at)
  /\ session' = s
  /\ status' = "active"
  /\ UNCHANGED <<configured, run, provider, earlier, answers, proof>>

StatusChanged(to, at) ==
  /\ to \notin {"ready", "archived"}
  /\ CanPersistFrom(to, status)
  /\ Commit(at)
  /\ status' = to
  /\ UNCHANGED <<configured, work, answers, proof>>

\* Only the time of the mission moves; the relative path is not modelled.
WorktreeClaimed(at) ==
  /\ status # "absent"
  /\ Commit(at)
  /\ UNCHANGED mission

(***************************************************************************)
(* Requests for attention and the attempts to answer them.  A request of a *)
(* managed run has one generation, so an attempt is named by its number.   *)
(***************************************************************************)
AttentionOpened(a, at) ==
  /\ status # "absent"
  /\ attention[a] = "none"
  /\ Commit(at)
  /\ attention' = [attention EXCEPT ![a] = "open"]
  /\ UNCHANGED <<status, configured, work, response, route, proof>>

AttentionExpired(a, at) ==
  /\ attention[a] = "open"
  /\ Commit(at)
  /\ attention' = [attention EXCEPT ![a] = "expired"]
  /\ UNCHANGED <<status, configured, work, response, route, proof>>

\* n is one more than the largest attempt made for the request so far.
NextAttempt(a, n) ==
  /\ \A k \in Attempt : k >= n => response[a][k] = "none"
  /\ n > 1 => response[a][n - 1] # "none"

\* Mutant of ResponseRequested: a request is answered again while the fate
\* of an earlier answer is not known.
ResponseRequestedAgain(a, n, at) ==
  /\ run # NoRun /\ session # NoSession
  /\ attention[a] \in {"open", "reconcile"}
  /\ NextAttempt(a, n)
  /\ Commit(at)
  /\ attention' = [attention EXCEPT ![a] = "pending"]
  /\ response' = [response EXCEPT ![a][n] = "requested"]
  /\ route' = [route EXCEPT ![a][n] = run]
  /\ UNCHANGED <<status, configured, work, proof>>

\* validate_for_run: the route names the current run and its session.
ResponseRequested(a, n, at) ==
  /\ run # NoRun /\ session # NoSession
  /\ attention[a] = "open"
  /\ NextAttempt(a, n)
  /\ Commit(at)
  /\ attention' = [attention EXCEPT ![a] = "pending"]
  /\ response' = [response EXCEPT ![a][n] = "requested"]
  /\ route' = [route EXCEPT ![a][n] = run]
  /\ UNCHANGED <<status, configured, work, proof>>

ResponseAcknowledged(a, n, at) ==
  /\ response[a][n] \in {"requested", "reconcile"}
  /\ Commit(at)
  /\ response' = [response EXCEPT ![a][n] = "acknowledged"]
  /\ attention' = [attention EXCEPT ![a] = "resolved"]
  /\ UNCHANGED <<status, configured, work, route, proof>>

\* DefinitelyNotApplied
ResponseNotApplied(a, n, at) ==
  /\ response[a][n] = "requested"
  /\ Commit(at)
  /\ response' = [response EXCEPT ![a][n] = "failed"]
  /\ attention' = [attention EXCEPT ![a] = "open"]
  /\ UNCHANGED <<status, configured, work, route, proof>>

\* DeliveryUnknown
ResponseUnknown(a, n, at) ==
  /\ response[a][n] = "requested"
  /\ Commit(at)
  /\ response' = [response EXCEPT ![a][n] = "reconcile"]
  /\ attention' = [attention EXCEPT ![a] = "reconcile"]
  /\ UNCHANGED <<status, configured, work, route, proof>>

(***************************************************************************)
(* Evidence and the two proofs of closure.                                 *)
(***************************************************************************)
EvidenceChanged(c, e, at) ==
  /\ status # "absent"
  /\ Commit(at)
  /\ evidence' = [evidence EXCEPT ![c] = e]
  /\ UNCHANGED <<status, configured, work, answers, pack, ready, archive>>

EvidencePackRecorded(at) ==
  /\ run # NoRun
  /\ status \in {"review", "ready"}
  /\ Commit(at)
  /\ pack' = run
  /\ UNCHANGED <<status, configured, work, answers, evidence, ready, archive>>

\* validate_current_proof_authority: the proof was evaluated at the present
\* journal head, so no event separates the evaluation from the receipt.
CurrentReceipt(u, t) == [subject |-> u, sequence |-> sequence, at |-> t]

MissionReady(u, t, at) ==
  /\ status = "review"
  /\ t <= Logical(at)
  /\ Commit(at)
  /\ status' = "ready"
  /\ ready' = CurrentReceipt(u, t) /\ archive' = NoReceipt
  /\ UNCHANGED <<configured, work, answers, evidence, pack>>

\* Mutant of MissionArchived: the second proof is not compared with the first.
MissionArchivedUnbound(u, t, at) ==
  /\ status = "ready"
  /\ ready # NoReceipt
  /\ t <= Logical(at)
  /\ Commit(at)
  /\ status' = "archived"
  /\ archive' = CurrentReceipt(u, t)
  /\ UNCHANGED <<configured, work, answers, evidence, pack, ready>>

MissionArchived(u, t, at) ==
  /\ status = "ready"
  /\ ready # NoReceipt
  /\ u = ready.subject
  /\ sequence > ready.sequence
  /\ t >= ready.at /\ t <= Logical(at)
  /\ Commit(at)
  /\ status' = "archived"
  /\ archive' = CurrentReceipt(u, t)
  /\ UNCHANGED <<configured, work, answers, evidence, pack, ready>>

MissionEvent(at) ==
  \/ MissionCreated(at)
  \/ ClosureConfigured(at)
  \/ \E r \in Run, v \in Provider : RunStarted(r, v, at) \/ RunContinued(r, v, at)
  \/ \E s \in Session : ProviderSessionBound(s, at)
  \/ \E to \in Status : StatusChanged(to, at)
  \/ WorktreeClaimed(at)

AnswerEvent(at) ==
  \E a \in Attention :
    \/ AttentionOpened(a, at)
    \/ AttentionExpired(a, at)
    \/ \E n \in Attempt :
         \/ ResponseRequested(a, n, at)
         \/ ResponseAcknowledged(a, n, at)
         \/ ResponseNotApplied(a, n, at)
         \/ ResponseUnknown(a, n, at)

ProofEvent(at) ==
  \/ \E c \in Check, e \in EvidenceStatus \ {"none"} : EvidenceChanged(c, e, at)
  \/ EvidencePackRecorded(at)
  \/ \E u \in Subject, t \in Time : MissionReady(u, t, at) \/ MissionArchived(u, t, at)

Next == \E at \in Time : MissionEvent(at) \/ AnswerEvent(at) \/ ProofEvent(at)

Spec == Init /\ [][Next]_projection

(***************************************************************************)
(* Properties.                                                             *)
(***************************************************************************)
\* PersistedMission has its types and the journal never exceeds its frame limit.
TypeOK ==
  /\ sequence \in 0..MaxSequence /\ updated \in Time
  /\ status \in Status \cup {"absent"} /\ configured \in BOOLEAN
  /\ run \in Run \cup {NoRun} /\ provider \in Provider \cup {NoProvider}
  /\ session \in Session \cup {NoSession} /\ earlier \subseteq Run
  /\ attention \in [Attention -> AttentionState]
  /\ response \in [Attention -> [Attempt -> ResponseState]]
  /\ route \in [Attention -> [Attempt -> Run \cup {NoRun}]]
  /\ evidence \in [Check -> EvidenceStatus]
  /\ pack \in Run \cup {NoRun}
  /\ ready \in Receipt \cup {NoReceipt} /\ archive \in Receipt \cup {NoReceipt}

\* An answer a provider may have applied, or may still apply.
MayApply(a, n) == response[a][n] \in {"requested", "acknowledged", "reconcile"}

\* However often a request is answered, at most one of the answers may take
\* effect: a new attempt is accepted only when every earlier one is known not
\* to have been applied, and the request's own state says what became of it.
AnsweredAtMostOnce ==
  \A a \in Attention :
    /\ \A n, k \in Attempt : MayApply(a, n) /\ MayApply(a, k) => n = k
    /\ attention[a] \in {"none", "open", "expired"} => \A n \in Attempt : ~MayApply(a, n)
    /\ \A n \in Attempt :
         /\ response[a][n] = "requested" => attention[a] = "pending"
         /\ response[a][n] = "reconcile" => attention[a] = "reconcile"
         /\ response[a][n] = "acknowledged" => attention[a] = "resolved"

\* An answer whose fate is open was routed to the run that is current: a
\* mission is not handed to another provider while one is outstanding.
OpenAnswerOfCurrentRun ==
  \A a \in Attention, n \in Attempt :
    response[a][n] \in {"requested", "reconcile"} => route[a][n] = run

\* A closed mission carries two proofs of the same subject, the second one
\* evaluated after the first was recorded, and no clock step puts either in
\* the mission's future.
ClosureIsProvenTwice ==
  /\ status = "ready" => ready # NoReceipt /\ archive = NoReceipt
  /\ ready # NoReceipt => ready.sequence < sequence /\ ready.at <= updated
  /\ status = "archived" =>
       /\ ready # NoReceipt /\ archive # NoReceipt
       /\ archive.subject = ready.subject
       /\ ready.sequence < archive.sequence
       /\ ready.at <= archive.at /\ archive.at <= updated

\* The evidence pack and the run history never point at the wrong run.
PackOfCurrentRun ==
  /\ pack \in {NoRun, run}
  /\ run \notin earlier

\* After RunContinued nothing of an earlier run counts for the new one:
\* neither an answer whose fate is open nor an evidence pack.
NothingOfEarlierRun == OpenAnswerOfCurrentRun /\ PackOfCurrentRun

\* Once archived, a mission keeps its run, its proofs and its status.
ArchivedIsFinal ==
  [][status = "archived" => UNCHANGED <<status, work, ready, archive>>]_projection
=============================================================================
