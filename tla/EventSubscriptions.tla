------------------------- MODULE EventSubscriptions -------------------------
(***************************************************************************)
(* The event hub of the socket API and its subscribers (api/event_hub.rs,  *)
(* subscriptions.rs, wait.rs).  The application changes the status of a    *)
(* pane and pushes an event for most changes, but not for all: a pane that *)
(* is looked at turns from done to idle without one.  The hub keeps the    *)
(* last events only.  A subscriber to the status of a pane, a thread of    *)
(* its own, therefore merges the events with snapshots it asks the         *)
(* application for, each step of its poll at another moment.  A subscriber *)
(* to another kind of event reads the hub alone, one event for each poll.  *)
(* Subscribers only read, so one of either kind stands for all.            *)
(*                                                                         *)
(* What a client sees of a pane is its look; moments number the looks.     *)
(* One pane: the events of other panes are of another kind.                *)
(***************************************************************************)
EXTENDS Naturals, Sequences, Option

CONSTANTS
    AgentState,     \* states of an agent
    Title,          \* what else is shown of a pane
    RingSize,       \* EventHub::MAX_EVENTS
    MaxPushed,      \* bound on the events
    MaxMoments      \* bound on the looks

ASSUME AgentStateAssumption ==
    /\ AgentState \subseteq {"Idle", "Working", "Blocked", "Unknown"}
    /\ "Unknown" \in AgentState
ASSUME RingAssumption ==
    RingSize \in Nat \ {0} /\ MaxPushed \in Nat /\ MaxMoments \in Nat /\ Title # {}

Status == AgentState \cup {"Done"}
Look == [status : Status, title : Title]

VARIABLES
    agent,          \* TerminalState::state
    viewed,         \* PaneState::seen
    title,          \* the presentation
    moment,         \* number of looks so far
    pushed,         \* EventHubState::next_sequence
    ring,           \* EventHubState::events
    kinds,          \* the kinds of all events ever pushed
    stage,          \* where the subscriber is in its poll
    wait,           \* events.wait, which ends with its first event
    wanted,         \* status_filter
    lastLook,       \* last_status and last_presentation
    lastSequence,   \* last_sequence
    initialEvent,   \* initial_event
    saw,            \* saw_status_event
    snapshot,       \* the answer of pane_get
    base,           \* the look when the subscription began
    told,           \* the last thing the client was told
    tells           \* history: how often it was told something

paneVars == <<agent, viewed, title, moment>>
hubVars == <<pushed, ring, kinds>>
client == <<told, tells>>
pollVars == <<lastLook, lastSequence, initialEvent, saw, snapshot, client>>
fixed == <<wait, wanted, base>>
eventVars == <<paneVars, hubVars, stage, pollVars, fixed>>

pane_agent_status(a, v) == IF a = "Idle" /\ ~v THEN "Done" ELSE a
LookOf(a, v, t) == [status |-> pane_agent_status(a, v), title |-> t]
PaneLook == LookOf(agent, viewed, title)
Seen == [look |-> PaneLook, moment |-> moment]

EventsInit ==
    /\ agent = "Unknown" /\ viewed = TRUE /\ title \in Title /\ moment = 0
    /\ pushed = 0 /\ ring = << >> /\ kinds = << >>
    /\ stage = "idle" /\ wait = FALSE /\ wanted = None /\ base = None
    /\ lastLook = None /\ lastSequence = 0 /\ initialEvent = None
    /\ saw = FALSE /\ snapshot = None /\ told = None /\ tells = 0

(***************************************************************************)
(* The hub.                                                                *)
(***************************************************************************)
push(kind, what) ==
    LET all == Append(ring, [seq |-> pushed + 1, kind |-> kind, what |-> what])
    IN  /\ pushed < MaxPushed
        /\ pushed' = pushed + 1
        /\ kinds' = Append(kinds, kind)
        /\ ring' = IF Len(all) > RingSize THEN Tail(all) ELSE all

events_after(n) == {e \in {ring[k] : k \in DOMAIN ring} : e.seq > n}

\* The loops over them go by the sequence numbers.
First(events) == CHOOSE e \in events : \A d \in events : e.seq <= d.seq
Latest(events) == CHOOSE e \in events : \A d \in events : d.seq <= e.seq

(***************************************************************************)
(* The application.                                                        *)
(***************************************************************************)
\* is_completion_transition_parts: the agent finished, or an agent that keeps
\* its label was found idle.
Completion(previous, state, labelKept) ==
    /\ state = "Idle"
    /\ \/ previous \in {"Working", "Blocked"}
       \/ previous = "Unknown" /\ labelKept

\* An event goes with every new look that comes from the agent.
emit_pane_state_update(look) ==
    IF look # PaneLook
      THEN /\ moment < MaxMoments /\ moment' = moment + 1
           /\ push("status", [look |-> look, moment |-> moment + 1])
      ELSE UNCHANGED <<moment, hubVars>>

\* An agent changes its state or its presentation; active says that its tab is
\* in front of the user.
UpdatePane(state, shown, active, labelKept) ==
    LET v == IF state # "Idle" THEN TRUE
             ELSE IF Completion(agent, state, labelKept) THEN active ELSE viewed
    IN  /\ <<state, shown>> # <<agent, title>>
        /\ agent' = state /\ title' = shown /\ viewed' = v
        /\ emit_pane_state_update(LookOf(state, v, shown))
        /\ UNCHANGED <<stage, pollVars, fixed>>

\* The user looks at the pane: no event.
MarkSeen ==
    /\ ~viewed /\ moment < MaxMoments
    /\ viewed' = TRUE /\ moment' = moment + 1
    /\ UNCHANGED <<agent, title, hubVars, stage, pollVars, fixed>>

\* Any other event.
EmitOther ==
    /\ push("other", None)
    /\ UNCHANGED <<paneVars, stage, pollVars, fixed>>

(***************************************************************************)
(* The subscriber to the pane's status.                                    *)
(***************************************************************************)
Wants(look) == wanted \in {None, look.status}

Advance(p) == stage' = p /\ UNCHANGED <<paneVars, hubVars, fixed>>

\* What poll returns goes to the client; a wait ends with it.
Tell(what) == told' = what /\ tells' = tells + 1 /\ Advance(IF wait THEN "done" ELSE "top")

\* ActiveSubscription::new reads the hub's sequence before it probes the pane.
Subscribe(w, f) ==
    /\ stage = "idle" /\ (w => f # None)
    /\ wait' = w /\ wanted' = f
    /\ lastSequence' = pushed
    /\ stage' = "probe"
    /\ UNCHANGED <<paneVars, hubVars, lastLook, initialEvent, saw, snapshot, base, client>>

Probe ==
    /\ stage = "probe"
    /\ base' = PaneLook /\ lastLook' = PaneLook
    /\ initialEvent' = IF wanted = PaneLook.status THEN Seen ELSE None
    /\ stage' = "top"
    /\ UNCHANGED <<paneVars, hubVars, lastSequence, saw, snapshot, client, wait, wanted>>

\* The events since the last poll, up to the first one the client wants.
DrainEvents ==
    /\ stage = "top"
    /\ LET batch == events_after(lastSequence)
           ours == {e \in batch : e.kind = "status"}
           hits == {e \in ours : Wants(e.what.look)}
       IN  IF hits # {}
             THEN /\ lastSequence' = First(hits).seq
                  /\ lastLook' = First(hits).what.look
                  /\ initialEvent' = None /\ saw' = FALSE
                  /\ UNCHANGED snapshot
                  /\ Tell(First(hits).what)
             ELSE /\ lastSequence' = IF batch = {} THEN lastSequence ELSE Latest(batch).seq
                  /\ lastLook' = IF ours = {} THEN lastLook ELSE Latest(ours).what.look
                  /\ saw' = (ours # {})
                  /\ UNCHANGED <<initialEvent, snapshot, client>>
                  /\ Advance("check")

\* Nothing to tell: is the hub where the events ended, and is the first
\* snapshot still owed?
CheckHub ==
    /\ stage = "check"
    /\ saw' = FALSE
    /\ UNCHANGED <<lastLook, lastSequence, snapshot>>
    /\ \/ saw /\ initialEvent' = None /\ UNCHANGED client /\ Advance("get")
       \/ ~saw /\ pushed # lastSequence /\ UNCHANGED <<initialEvent, client>> /\ Advance("top")
       \/ /\ ~saw /\ pushed = lastSequence /\ initialEvent # None
          /\ initialEvent' = None
          /\ Tell(initialEvent)
       \/ /\ ~saw /\ pushed = lastSequence /\ initialEvent = None
          /\ UNCHANGED <<initialEvent, client>>
          /\ Advance("get")

\* pane_get: the application answers between two of its own steps.
PaneGet ==
    /\ stage = "get"
    /\ snapshot' = Seen
    /\ UNCHANGED <<lastLook, lastSequence, initialEvent, saw, client>>
    /\ Advance("compare")

\* Mutant of Compare: a snapshot is reported whether or not it is new.
CompareRepeats ==
    /\ stage = "compare"
    /\ snapshot' = None
    /\ UNCHANGED <<lastSequence, initialEvent, saw>>
    /\ IF pushed # lastSequence
         THEN UNCHANGED <<lastLook, client>> /\ Advance("top")
         ELSE /\ lastLook' = snapshot.look
              /\ IF Wants(snapshot.look)
                   THEN Tell(snapshot)
                   ELSE UNCHANGED client /\ Advance("top")

\* Mutant of Compare: a snapshot that is not used is kept as the last look.
CompareAbsorbs ==
    /\ stage = "compare"
    /\ snapshot' = None
    /\ UNCHANGED <<lastSequence, initialEvent, saw>>
    /\ lastLook' = snapshot.look
    /\ IF pushed = lastSequence /\ snapshot.look # lastLook /\ Wants(snapshot.look)
         THEN Tell(snapshot)
         ELSE UNCHANGED client /\ Advance("top")

\* The snapshot counts only if no event was pushed since the events ended.
Compare ==
    /\ stage = "compare"
    /\ snapshot' = None
    /\ UNCHANGED <<lastSequence, initialEvent, saw>>
    /\ IF pushed # lastSequence
         THEN UNCHANGED <<lastLook, client>> /\ Advance("top")
         ELSE /\ lastLook' = snapshot.look
              /\ IF snapshot.look # lastLook /\ Wants(snapshot.look)
                   THEN Tell(snapshot)
                   ELSE UNCHANGED client /\ Advance("top")

\* pane_get fails or is not answered in time: the poll returns nothing, a
\* subscription that has not begun is refused.
PaneGetFails ==
    /\ stage \in {"probe", "get"}
    /\ UNCHANGED pollVars
    /\ Advance(IF stage = "probe" THEN "done" ELSE "top")

\* Before a poll: the client has gone, or the wait has reached its deadline.
Leave == stage = "top" /\ UNCHANGED pollVars /\ Advance("done")

(***************************************************************************)
(* A subscriber to other events, ActiveEventSubscription: it begins with   *)
(* all the hub still holds and takes one event for each poll.              *)
(***************************************************************************)
SubscribeEvents ==
    /\ stage = "idle"
    /\ stage' = "events"
    /\ UNCHANGED <<paneVars, hubVars, pollVars, fixed>>

PollEvents ==
    LET batch == events_after(lastSequence)
        hits == {e \in batch : e.kind = "other"}
    IN  /\ stage = "events" /\ batch # {}
        /\ lastSequence' = IF hits = {} THEN Latest(batch).seq ELSE First(hits).seq
        /\ UNCHANGED <<paneVars, hubVars, stage, fixed>>
        /\ UNCHANGED <<lastLook, initialEvent, saw, snapshot, client>>

SubscriberWorks == DrainEvents \/ CheckHub \/ PaneGet \/ Compare \/ PaneGetFails

EventsNext ==
    \/ \E a \in AgentState, t \in Title, active, kept \in BOOLEAN :
         UpdatePane(a, t, active, kept)
    \/ MarkSeen
    \/ EmitOther
    \/ \E w \in BOOLEAN, f \in Status \cup {None} : Subscribe(w, f)
    \/ Probe
    \/ SubscriberWorks
    \/ Leave
    \/ SubscribeEvents \/ PollEvents

(***************************************************************************)
(* The thread polls every 100 ms and the application answers a pane_get    *)
(* again and again, if not every time.                                     *)
(***************************************************************************)
EventsFairness == WF_eventVars(SubscriberWorks) /\ SF_eventVars(PaneGet)

EventsSpec == EventsInit /\ [][EventsNext]_eventVars /\ EventsFairness

-----------------------------------------------------------------------------
Sight == [look : Look, moment : 0..MaxMoments]
SeenType == Sight \cup {None}

HubEvent ==
    [seq : 1..MaxPushed, kind : {"status"}, what : Sight]
      \cup [seq : 1..MaxPushed, kind : {"other"}, what : {None}]

EventsTypeOK ==
    /\ agent \in AgentState /\ viewed \in BOOLEAN /\ title \in Title
    /\ moment \in 0..MaxMoments
    /\ pushed \in 0..MaxPushed
    /\ ring \in Seq(HubEvent) /\ Len(ring) <= RingSize
    /\ kinds \in Seq({"status", "other"}) /\ Len(kinds) = pushed
    /\ stage \in {"idle", "probe", "top", "check", "get", "compare", "events", "done"}
    /\ wait \in BOOLEAN /\ wanted \in Status \cup {None}
    /\ lastLook \in Look \cup {None} /\ base \in Look \cup {None}
    /\ lastSequence \in 0..pushed
    /\ saw \in BOOLEAN
    /\ initialEvent \in SeenType /\ snapshot \in SeenType /\ told \in SeenType
    /\ tells \in Nat

\* What a client is told goes forward.  Whenever a status subscriber reports a
\* look, from an event, a snapshot or the first probe, it is a later one than it
\* reported before: none from the past, and none a second time.  A subscriber to
\* another kind of event skips only what the hub had already dropped.
ToldInOrder ==
    [][ /\ told # None /\ tells' # tells => told'.moment > told.moment
        /\ stage = "events" =>
             \A n \in (lastSequence + 1)..(lastSequence' - 1) :
               kinds[n] = "other" => n + RingSize <= pushed ]_eventVars

\* Once a pane stays as it is, a client that wants its status knows it, even if
\* the hub dropped the events of it or the change had none: what it was told
\* last is what is shown, or nothing has changed since it subscribed.
ClientLearns ==
    <>[](stage \notin {"idle", "probe", "events", "done"} /\ Wants(PaneLook) =>
           \/ told # None /\ told.look = PaneLook
           \/ told = None /\ wanted = None /\ base = PaneLook)
=============================================================================
