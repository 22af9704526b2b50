------------------------------ MODULE RunState ------------------------------
(***************************************************************************)
(* The state of one agent session as the cockpit knows it                   *)
(* (src/src/mission/run_state.rs).  Observations of the session come from   *)
(* structured hooks and the provider's API (exact), from the process        *)
(* (strong) and from the terminal's screen (inferred).  Each is stamped     *)
(* with a sequence number on receipt; between the provider, the receiver    *)
(* and SessionSnapshot::apply an observation can be lost, delivered twice   *)
(* and overtaken.  Provider and receiver are external: they are modelled    *)
(* by what SessionObservation lets them say.                                *)
(***************************************************************************)
EXTENDS Option, Naturals, FiniteSets

CONSTANTS
    MaxTurn,       \* turns the provider runs
    MaxEvents,     \* bound: events the provider emits
    MaxReceived    \* bound: observations received

ASSUME RunStateAssumption ==
    /\ MaxTurn \in Nat \ {0}
    /\ MaxEvents \in Nat
    /\ MaxReceived \in Nat
    /\ None \notin Nat

VARIABLES
    \* SessionSnapshot
    runStatus,     \* status
    source,        \* source (confidence is a function of it)
    provSeq,       \* provider_sequence
    recvSeq,       \* received_sequence
    turn,          \* current_turn_id
    completed,     \* current_turn_completed
    applied,       \* applied_event_ids
    \* the provider and the way from it
    sent,          \* structured events the provider has emitted
    provTurn,      \* its turn
    received,      \* observations received and stamped
    \* history
    accepted       \* the normalised observations apply has accepted

snapshot == <<runStatus, source, provSeq, recvSeq, turn, completed, applied>>
runStateVars == <<snapshot, sent, provTurn, received, accepted>>

requires_attention == {"NeedsApproval", "NeedsAnswer", "Blocked"}
is_safety_worsening == requires_attention \cup {"Failed", "Disconnected"}
RunStatus == is_safety_worsening \cup {"Starting", "Ready", "Working", "Unknown"}

Exact == {"StructuredHook", "ProviderApi"}
Source == Exact \cup {"Process", "TerminalHeuristic"}
priority(s) == IF s \in Exact THEN 3 ELSE IF s = "Process" THEN 2 ELSE 1

Turn == 1..MaxTurn
Observation ==
    [id: Nat \X {"provider", "local"}, status: RunStatus, source: Source,
     seq: Nat \cup {None}, recv: Nat, turn: Turn \cup {None}, completed: BOOLEAN]

(***************************************************************************)
(* SessionObservation::normalize_heuristic: only an exact source can speak  *)
(* of sequence, turn and completion; the screen can at most say "ready".    *)
(***************************************************************************)
Kept(o, st) == [id |-> o.id, status |-> st, source |-> o.source, seq |-> None,
                recv |-> o.recv, turn |-> None, completed |-> FALSE]

normalize_heuristic(o) ==
    IF o.source \in Exact THEN o
    ELSE IF o.source = "TerminalHeuristic"
              /\ (o.completed \/ o.status \notin {"Ready", "Unknown"})
         THEN Kept(o, "Unknown")
         ELSE Kept(o, o.status)

(***************************************************************************)
(* SessionSnapshot::should_accept, one conjunct per early return.           *)
(***************************************************************************)
Newer(o) == o.recv > recvSeq

InProviderOrder(o) ==
    ~ (o.turn = turn /\ o.seq # None /\ provSeq # None /\ o.seq <= provSeq)

(* Mutant of AfterCompletion: an observation without a turn passes. *)
AfterCompletionScoped(o) ==
    o.turn = turn /\ completed => o.status \in is_safety_worsening

AfterCompletion(o) ==
    (o.turn = turn \/ o.turn = None) /\ completed
        => o.status \in is_safety_worsening

Outranked(o) ==
    /\ priority(o.source) < priority(source)
    /\ o.status \notin {"Failed", "Disconnected"}
    /\ ~ (runStatus = "Starting" /\ applied = {})

should_accept(o) == Newer(o) /\ InProviderOrder(o) /\ AfterCompletion(o) /\ ~Outranked(o)

(* Mutant of Accept: a new turn inherits the completion. *)
AcceptStillCompleted(o) ==
    /\ runStatus' = o.status /\ source' = o.source
    /\ provSeq' = IF o.seq # None THEN o.seq ELSE provSeq
    /\ recvSeq' = o.recv
    /\ turn' = IF o.turn # None THEN o.turn ELSE turn
    /\ completed' = (completed \/ o.completed)
    /\ applied' = applied \cup {o.id}
    /\ accepted' = accepted \cup {o}

(***************************************************************************)
(* SessionSnapshot::apply.                                                  *)
(***************************************************************************)
Accept(o) ==
    /\ runStatus' = o.status
    /\ source' = o.source
    /\ provSeq' = IF o.seq # None THEN o.seq ELSE provSeq
    /\ recvSeq' = o.recv
    /\ turn' = IF o.turn # None THEN o.turn ELSE turn
    /\ completed' = IF o.turn = None THEN completed
                    ELSE (o.turn = turn /\ completed) \/ o.completed
    /\ applied' = applied \cup {o.id}
    /\ accepted' = accepted \cup {o}

apply(raw) ==
    LET o == normalize_heuristic(raw) IN
    IF o.id \in applied \/ ~should_accept(o)
    THEN UNCHANGED <<snapshot, accepted>>
    ELSE Accept(o)

(***************************************************************************)
(* The provider (external): numbers its events, ends a turn with a          *)
(* completion and then starts the next.                                     *)
(***************************************************************************)
Emit(st, seq, done) ==
    /\ Cardinality(sent) < MaxEvents
    /\ LET n == Cardinality(sent) + 1 IN
       sent' = sent \cup {[id |-> <<n, "provider">>, status |-> st, source |-> "StructuredHook",
                           seq |-> IF seq THEN n ELSE None, turn |-> provTurn,
                           completed |-> done]}
    /\ provTurn' = IF done /\ provTurn < MaxTurn THEN provTurn + 1 ELSE provTurn
    /\ UNCHANGED <<snapshot, received, accepted>>

(***************************************************************************)
(* The receiver (external): stamps an emitted event, as often as it is      *)
(* delivered, or what the process or the screen shows.  A local source may  *)
(* claim a turn and its completion; normalize_heuristic drops the claim.    *)
(***************************************************************************)
Stamp(o) ==
    /\ Cardinality(received) < MaxReceived
    /\ received' = received \cup {o}
    /\ UNCHANGED <<snapshot, sent, provTurn, accepted>>

Receive(e) ==
    Stamp([id |-> e.id, status |-> e.status, source |-> e.source, seq |-> e.seq,
           recv |-> Cardinality(received) + 1, turn |-> e.turn, completed |-> e.completed])

Notice(src, st, claim) ==
    LET n == Cardinality(received) + 1 IN
    Stamp([id |-> <<n, "local">>, status |-> st, source |-> src, seq |-> None,
           recv |-> n, turn |-> IF claim THEN provTurn ELSE None, completed |-> claim])

ApplyOne ==
    \E o \in received : apply(o) /\ UNCHANGED <<sent, provTurn, received>>

(***************************************************************************)
(* SessionSnapshot::starting.                                               *)
(***************************************************************************)
RunStateInit ==
    /\ runStatus = "Starting" /\ source = "Process"
    /\ provSeq = None /\ recvSeq = 0
    /\ turn = None /\ completed = FALSE
    /\ applied = {} /\ accepted = {}
    /\ sent = {} /\ received = {} /\ provTurn = 1

RunStateNext ==
    \/ \E st \in {"Working", "Failed"}, seq \in BOOLEAN : Emit(st, seq, FALSE)
    \/ \E seq \in BOOLEAN : Emit("Ready", seq, TRUE)
    \/ \E e \in sent : Receive(e)
    \/ \E st \in {"Working", "Disconnected"} : Notice("Process", st, FALSE)
    \/ \E st \in {"Ready", "Failed"}, claim \in BOOLEAN : Notice("TerminalHeuristic", st, claim)
    \/ ApplyOne

RunStateSpec == RunStateInit /\ [][RunStateNext]_runStateVars

-----------------------------------------------------------------------------
(***************************************************************************)
(* Types of the snapshot's fields; the event ids are the accepted ones'.    *)
(***************************************************************************)
RunStateTypeOK ==
    /\ runStatus \in RunStatus /\ source \in Source
    /\ provSeq \in Nat \cup {None} /\ recvSeq \in Nat
    /\ turn \in Turn \cup {None} /\ completed \in BOOLEAN
    /\ accepted \subseteq Observation
    /\ applied = {o.id : o \in accepted}

(***************************************************************************)
(* The snapshot is justified by what was accepted, whatever the order and   *)
(* the number of deliveries: it stands for the accepted observation with    *)
(* the latest stamp, each event counted once; an inferred state is shown    *)
(* only while nothing better was ever accepted, although a failure of any   *)
(* source passes the priority test and lowers the bar; and a turn is shown  *)
(* completed only if an exact source said so of that turn.                  *)
(***************************************************************************)
SnapshotIsJustified ==
    /\ \A o, p \in accepted : (o.id = p.id \/ o.recv = p.recv) => o = p
    /\ accepted # {} =>
         \E o \in accepted : /\ o.recv = recvSeq /\ o.status = runStatus /\ o.source = source
                             /\ \A p \in accepted : p.recv <= o.recv
    /\ source = "TerminalHeuristic" => \A o \in accepted : o.source = "TerminalHeuristic"
    /\ completed => \E o \in accepted : o.source \in Exact /\ o.turn = turn /\ o.completed

(***************************************************************************)
(* While the session stays in a completed turn, its status only gets worse: *)
(* a step that keeps the turn keeps the completion, and may replace the     *)
(* status only with one that asks for attention, failure or disconnection.  *)
(***************************************************************************)
CompletedTurnHolds ==
    [][completed /\ turn' = turn =>
         /\ completed'
         /\ runStatus' = runStatus \/ runStatus' \in is_safety_worsening]_runStateVars
=============================================================================
