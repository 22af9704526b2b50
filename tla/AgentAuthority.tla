--------------------------- MODULE AgentAuthority ---------------------------
(***************************************************************************)
(* Who says what the agent of a terminal is doing                           *)
(* (src/src/terminal/state.rs).  Two kinds of observers speak: the detector *)
(* of the pane, which looks at the foreground process and the screen, and   *)
(* the hooks an agent's integration calls through the socket API.  Both     *)
(* arrive as events on the server's queue (src/src/app/actions.rs), so an   *)
(* observation can be old when it is applied, and a hook's report can come  *)
(* after the agent was released, replaced or has exited.                    *)
(*                                                                          *)
(* An owner stands for a hook source and the agent label it reports for.    *)
(* Instants are values of a clock; a hook report is stamped when applied,   *)
(* a detection when it was observed.                                        *)
(***************************************************************************)
EXTENDS Naturals, FiniteSets, Option

CONSTANTS
    Owner,        \* hook sources, each with its agent label
    Agent,        \* agents the detector knows
    AgentOf,      \* parse_agent_label of an owner's label, None for a custom one
    Full,         \* owners with full_lifecycle_hook_authority
    Reserved,     \* owners that may only report sessions
    Official,     \* owners agent_resume::plan can resume
    Replaces,     \* session start sources by which an owner may replace its session
    Rethreading,  \* owners whose lifecycle report replaces a restored session
    Session,      \* session references
    Reported,     \* states hooks report
    Screen,       \* what the detector reads off the screen: a state, and whether it
                  \* is a visible blocker
    PathSession,  \* those that are paths and not ids
    MaxSeq,       \* bound of the reports' sequence numbers
    MaxClock      \* bound of the clock

Start == {None, "startup", "resume"}

ASSUME AuthorityAssumption ==
    /\ AgentOf \in [Owner -> Agent \cup {None}]
    /\ Full \subseteq Owner /\ Reserved \subseteq Owner /\ Official \subseteq Owner
    /\ Rethreading \subseteq Owner /\ PathSession \subseteq Session
    /\ Replaces \in [Owner -> SUBSET (Start \ {None})]
    /\ None \notin Owner \cup Agent \cup Session \cup Nat
    /\ Reported \subseteq {"Unknown", "Idle", "Working", "Blocked"}
    /\ Screen \subseteq {"Unknown", "Idle", "Working", "Blocked"} \X BOOLEAN
    /\ MaxSeq \in Nat /\ MaxClock \in Nat

VARIABLES
    clock,        \* Instant::now()
    detected,     \* detected_agent
    fallback,     \* fallback_state
    blocker,      \* fallback_visible_blocker
    fallbackAt,   \* fallback_observed_at
    hook,         \* hook_authority
    persisted,    \* persisted_agent_session
    seqs,         \* hook_report_sequences
    suppressed,   \* suppressed_full_lifecycle_hook_reports
    stale,        \* stale_full_lifecycle_hook_sessions
    state,        \* state, the effective one
    gone,         \* history: owner -> sessions whose authority was ended
    forgotten     \* history: owner -> suppressed sessions a release wrote over

observed == <<detected, fallback, blocker, fallbackAt>>
authorityVars == <<clock, observed, hook, persisted, seqs, suppressed, stale, state, gone, forgotten>>

AgentState == {"Unknown", "Idle", "Working", "Blocked"}
HookAuthority == [owner: Owner, session: Session \cup {None}, state: AgentState, at: Nat]
AgentSession == [owner: Owner, session: Session]
Suppression == [session: Session \cup {None}, at: Nat, reason: {"HookClear", "ProcessExit"}]

ASSUME AbsentAssumption ==    \* None and Some(x) differ
    None \notin HookAuthority /\ None \notin AgentSession /\ None \notin Suppression

KnownAs(h) == AgentOf[h.owner]
FullAuthority(h) == h # None /\ h.owner \in Full

-----------------------------------------------------------------------------
(* recompute_effective_state and visible_blocker_overrides_hook, over the   *)
(* values an operation leaves.                                              *)
Effective(h, agent, fb, vb, at) ==
    IF h = None THEN fb
    ELSE IF /\ h.owner \notin Full /\ vb /\ at # None /\ h.at <= at
            /\ h.state # "Blocked" /\ KnownAs(h) = agent
         THEN "Blocked" ELSE h.state

Recompute == state' = Effective(hook', detected', fallback', blocker', fallbackAt')

(* current_session_identity_for_persistence                                 *)
Identity ==
    IF hook # None /\ hook.session # None
    THEN [owner |-> hook.owner, session |-> hook.session] ELSE persisted

(* accept_hook_report, in two parts: the test and what it records.          *)
Accepts(q, o, seq) == q[o] # None => seq # None /\ seq > q[o]
Record(q, o, seq) == IF seq = None THEN q ELSE [q EXCEPT ![o] = seq]

(* suppress_current_full_lifecycle_hook_authority of an authority that is   *)
(* about to go.                                                             *)
Suppress(sup, h, reason) ==
    IF FullAuthority(h)
    THEN [sup EXCEPT ![h.owner] = [session |-> h.session, at |-> clock, reason |-> reason]]
    ELSE sup

(* history: the authority h has ended.                                      *)
End(g, h) == IF FullAuthority(h) /\ h.session # None THEN [g EXCEPT ![h.owner] = @ \cup {h.session}] ELSE g

-----------------------------------------------------------------------------
(* Mutant of Conflicts: a live full lifecycle authority never conflicts. *)
ConflictsLive(h, agent) ==
    h # None /\ agent # None /\ KnownAs(h) # None /\ KnownAs(h) # agent /\ h.owner \notin Full

(* set_detected_state_with_screen_signals_at                                *)
Conflicts(h, agent) ==
    h # None /\ agent # None /\ KnownAs(h) # None /\ KnownAs(h) # agent

BeforeRelease(agent, at) ==
    /\ agent # None
    /\ \E o \in Owner : suppressed[o] # None /\ AgentOf[o] = agent /\ at <= suppressed[o].at

(* clear_full_lifecycle_hook_suppression_for_detected_agent                 *)
Lifted(agent) ==
    IF agent = None \/ detected = agent THEN {}
    ELSE {o \in Owner : suppressed[o] # None /\ AgentOf[o] = agent}

Lift(agent) ==
    [o \in Owner |-> IF o \in Lifted(agent) THEN None ELSE suppressed[o]]

(* Mutant of Remember: lifted sessions are forgotten. *)
RememberNothing(agent) == stale

Remember(agent) ==
    [o \in Owner |-> IF o \in Lifted(agent) /\ suppressed[o].session # None
                     THEN stale[o] \cup {suppressed[o].session} ELSE stale[o]]

Reanchored(agent) ==
    [o \in Owner |-> IF agent # None /\ detected # agent /\ o \in Full /\ AgentOf[o] = agent
                     THEN None ELSE seqs[o]]

Ignored(agent) ==
    /\ detected' = IF KnownAs(hook) = agent THEN agent ELSE detected
    /\ UNCHANGED <<fallback, blocker, fallbackAt, hook, persisted, seqs, suppressed, stale, gone>>

Observe(agent, st, vb, exited, at) ==
    LET exits == exited /\ hook # None /\ hook.at <= at /\ KnownAs(hook) = agent
        left == IF exits THEN None ELSE hook
        replaced == /\ left # None /\ left.at <= at
                    /\ \/ Conflicts(left, agent)
                       \/ detected # None /\ agent # detected /\ KnownAs(left) = detected
        lifted == IF exited THEN suppressed ELSE Lift(agent)
        kept == IF exited /\ persisted # None /\ AgentOf[persisted.owner] = agent
                THEN None ELSE persisted
    IN
    /\ detected' = agent
    /\ fallback' = st /\ blocker' = (vb /\ st = "Blocked") /\ fallbackAt' = at
    /\ stale' = IF exited THEN stale ELSE Remember(agent)
    /\ seqs' = LET q == IF exited THEN seqs ELSE Reanchored(agent) IN
               IF exits THEN [q EXCEPT ![hook.owner] = None] ELSE q
    /\ suppressed' = IF exits THEN Suppress(lifted, hook, "ProcessExit")
                     ELSE IF replaced THEN Suppress(lifted, left, "HookClear") ELSE lifted
    /\ hook' = IF replaced THEN None ELSE left
    /\ persisted' = IF ~replaced THEN kept
                    ELSE IF left.session = None THEN None
                    ELSE [owner |-> left.owner, session |-> left.session]
    /\ gone' = IF exits \/ replaced THEN End(gone, hook) ELSE gone

set_detected_state(agent, st, vb, exited, at) ==
    /\ IF FullAuthority(hook) /\ ~exited /\ ~Conflicts(hook, agent) THEN Ignored(agent)
       ELSE IF ~exited /\ BeforeRelease(agent, at)
       THEN UNCHANGED <<observed, hook, persisted, seqs, suppressed, stale, gone>>
       ELSE Observe(agent, st, vb, exited, at)
    /\ Recompute
    /\ UNCHANGED <<clock, forgotten>>

-----------------------------------------------------------------------------
(* set_hook_authority_at                                                    *)
IsSuppressed(o, s) ==
    /\ o \in Full /\ suppressed[o] # None
    /\ suppressed[o].reason = "ProcessExit" \/ s = None \/ s = suppressed[o].session

IsStale(o, s) == o \in Full /\ s \in stale[o]

FreshSession(o, s) ==
    /\ o \in Full /\ s # None
    /\ \/ /\ suppressed[o] # None /\ suppressed[o].reason # "ProcessExit"
          /\ suppressed[o].session \notin {None, s}
       \/ stale[o] # {} /\ s \notin stale[o]

LabelConflicts(o) == detected # None /\ AgentOf[o] \notin {None, detected}
(* Mutant of OwnerConflicts: a live authority is not asked. *)
OwnerConflictsPersisted(o) == hook = None /\ persisted # None /\ persisted.owner # o

OwnerConflicts(o) == Identity # None /\ Identity.owner # o
ForegroundConfirms(o) == detected # None /\ AgentOf[o] = detected /\ o \in Official

(* conflicting_same_owner_session_ref, without a session start source       *)
OtherSession(o, s) ==
    /\ Identity # None /\ Identity.owner = o /\ Identity.session # s
    /\ {Identity.session, s} \cap PathSession = {}

lifecycle_hook_report_replaces_persisted_session(o, s) ==
    /\ hook = None /\ o \in Rethreading
    /\ persisted # None /\ persisted.owner = o /\ persisted.session # s
    /\ {persisted.session, s} \cap PathSession = {}

Adopted(o, s) ==
    IF /\ s # None /\ OtherSession(o, s)
       /\ ~lifecycle_hook_report_replaces_persisted_session(o, s)
    THEN Identity.session ELSE s

LiveSessionConflicts(o, s) ==
    FullAuthority(hook) /\ hook.owner = o /\ hook.session # None /\ s # None /\ hook.session # s

set_hook_authority(o, st, s, seq) ==
    LET adopted == Adopted(o, s)
        anchored == IF FreshSession(o, s) THEN [seqs EXCEPT ![o] = None] ELSE seqs
        takeover == OwnerConflicts(o)
        sup == IF takeover THEN Suppress(suppressed, hook, "HookClear") ELSE suppressed
        cleared == adopted # None /\ sup[o] # None
    IN
    /\ ~IsSuppressed(o, s) /\ ~IsStale(o, s)
    /\ ~LabelConflicts(o)
    /\ takeover => s # None /\ ForegroundConfirms(o)
    /\ ~LiveSessionConflicts(o, adopted)
    /\ Accepts(anchored, o, seq)
    /\ seqs' = Record(anchored, o, seq)
    /\ suppressed' = IF cleared THEN [sup EXCEPT ![o] = None] ELSE sup
    /\ stale' = IF cleared /\ sup[o].session # None
                THEN [stale EXCEPT ![o] = @ \cup {sup[o].session}] ELSE stale
    /\ persisted' = None
    /\ hook' = [owner |-> o, session |-> adopted, state |-> st, at |-> clock]
    /\ gone' = IF takeover THEN End(gone, hook) ELSE gone
    /\ UNCHANGED <<clock, observed, forgotten>>
    /\ Recompute

-----------------------------------------------------------------------------
(* set_agent_session_ref_for_session_start: the sequence number counts even *)
(* when the report is then refused.                                         *)
SessionAllowed(o, s, start) ==
    /\ ~LabelConflicts(o)
    /\ OwnerConflicts(o) => start # None /\ ForegroundConfirms(o)
    /\ OtherSession(o, s) => start \in Replaces[o]
    /\ LiveSessionConflicts(o, s) => start \in Replaces[o]

AdoptSession(o, s, start) ==
    LET takeover == OwnerConflicts(o)
        replaced == LiveSessionConflicts(o, s)
        revived == IF start \in Replaces[o] \/ takeover
                     THEN [stale EXCEPT ![o] = @ \ {s}] ELSE stale
    IN
    /\ stale' = IF replaced THEN [revived EXCEPT ![o] = @ \cup {hook.session}] ELSE revived
    /\ suppressed' = IF takeover /\ ~replaced
                     THEN Suppress(suppressed, hook, "HookClear") ELSE suppressed
    /\ hook' = IF replaced \/ takeover THEN None ELSE hook
    /\ persisted' = [owner |-> o, session |-> s]
    /\ gone' = LET g == IF replaced \/ takeover THEN End(gone, hook) ELSE gone IN
               IF start \in Replaces[o] \/ takeover THEN [g EXCEPT ![o] = @ \ {s}] ELSE g

set_agent_session_ref(o, s, seq, start) ==
    /\ Accepts(seqs, o, seq)
    /\ seqs' = Record(seqs, o, seq)
    /\ IF SessionAllowed(o, s, start) THEN AdoptSession(o, s, start)
       ELSE UNCHANGED <<hook, persisted, suppressed, stale, gone>>
    /\ UNCHANGED <<clock, observed, forgotten>>
    /\ Recompute

-----------------------------------------------------------------------------
(* clear_hook_authority_with_mutation, with the source or for any           *)
clear_hook_authority(o, seq) ==
    LET counted == IF o # None THEN o ELSE IF hook # None THEN hook.owner ELSE None
        clears == hook # None /\ (o = None \/ hook.owner = o)
    IN
    /\ counted # None => Accepts(seqs, counted, seq)
    /\ seqs' = IF counted = None THEN seqs ELSE Record(seqs, counted, seq)
    /\ IF clears
       THEN /\ suppressed' = Suppress(suppressed, hook, "HookClear")
            /\ hook' = None /\ persisted' = None
            /\ gone' = End(gone, hook)
       ELSE UNCHANGED <<suppressed, hook, persisted, gone>>
    /\ UNCHANGED <<clock, observed, stale, forgotten>>
    /\ Recompute

(* release_agent_with_mutation                                              *)
Releases(o) ==
    /\ hook # None => hook.owner = o
    /\ \/ hook # None
       \/ detected # None /\ AgentOf[o] = detected
       \/ persisted # None /\ persisted.owner = o

release_agent(o, seq) ==
    /\ Accepts(seqs, o, seq)
    /\ seqs' = Record(seqs, o, seq)
    /\ IF Releases(o)
       THEN /\ suppressed' = IF o \in Full
                             THEN [suppressed EXCEPT ![o] =
                                    [session |-> IF hook = None THEN None ELSE hook.session,
                                     at |-> clock, reason |-> "HookClear"]]
                             ELSE suppressed
            /\ detected' = None /\ fallback' = "Unknown"
            /\ blocker' = FALSE /\ fallbackAt' = None
            /\ hook' = None
            /\ persisted' = IF persisted # None /\ persisted.owner # o THEN persisted ELSE None
            /\ gone' = End(gone, hook)
            /\ forgotten' = IF hook = None /\ suppressed[o] # None
                            THEN [forgotten EXCEPT ![o] = @ \cup {suppressed[o].session}]
                            ELSE forgotten
       ELSE UNCHANGED <<observed, suppressed, hook, persisted, gone, forgotten>>
    /\ UNCHANGED <<clock, stale>>
    /\ Recompute

(* clear_agent_runtime_identity_after_respawn: a new shell in the terminal  *)
Respawn ==
    /\ detected' = None /\ fallback' = "Unknown" /\ blocker' = FALSE /\ fallbackAt' = None
    /\ hook' = None /\ persisted' = None
    /\ suppressed' = [o \in Owner |-> None]
    /\ stale' = [o \in Owner |-> {}]
    /\ state' = "Unknown"
    /\ gone' = [o \in Owner |-> {}] /\ forgotten' = [o \in Owner |-> {}]
    /\ UNCHANGED <<clock, seqs>>

-----------------------------------------------------------------------------
(* The events of the server's queue (AppState::handle_app_event).           *)
StateChanged(agent, exited) ==
    \E screen \in Screen, at \in 0..clock :
        /\ exited => agent # None
        /\ set_detected_state(agent, screen[1], screen[2], exited, at)

HookStateReported(o, s, seq) ==
    \/ o \in Reserved /\ s # None /\ set_agent_session_ref(o, s, seq, None)
    \/ o \notin Reserved /\ \E st \in Reported : set_hook_authority(o, st, s, seq)

AgentSessionReported(o, s, seq, start) == set_agent_session_ref(o, s, seq, start)

HookAgentReleased(o, seq) == o \notin Reserved /\ release_agent(o, seq)

(* publish_pane_process_exit_if_agent: the pane's process is gone.          *)
PaneProcessExit ==
    LET agent == IF hook # None /\ KnownAs(hook) # None THEN KnownAs(hook) ELSE detected IN
    /\ agent # None
    /\ set_detected_state(agent, "Idle", FALSE, TRUE, clock)

TerminalTick ==
    /\ clock < MaxClock /\ clock' = clock + 1
    /\ UNCHANGED <<observed, hook, persisted, seqs, suppressed, stale, state, gone, forgotten>>

AuthorityInit ==
    /\ clock = 0
    /\ detected = None /\ fallback = "Unknown" /\ blocker = FALSE /\ fallbackAt = None
    /\ hook = None
    /\ persisted \in AgentSession \cup {None}      \* set_persisted_agent_session on restore
    /\ seqs = [o \in Owner |-> None]
    /\ suppressed = [o \in Owner |-> None]
    /\ stale = [o \in Owner |-> {}]
    /\ state = "Unknown"
    /\ gone = [o \in Owner |-> {}]
    /\ forgotten = [o \in Owner |-> {}]

Seq0 == (1..MaxSeq) \cup {None}

AuthorityNext ==
    \/ TerminalTick
    \/ \E agent \in Agent \cup {None}, exited \in BOOLEAN : StateChanged(agent, exited)
    \/ \E o \in Owner, seq \in Seq0 :
         \/ \E s \in Session \cup {None} : HookStateReported(o, s, seq)
         \/ \E s \in Session, start \in Start : AgentSessionReported(o, s, seq, start)
         \/ HookAgentReleased(o, seq)
    \/ \E o \in Owner \cup {None}, seq \in Seq0 : clear_hook_authority(o, seq)
    \/ PaneProcessExit
    \/ Respawn

AuthoritySpec == AuthorityInit /\ [][AuthorityNext]_authorityVars

-----------------------------------------------------------------------------
(***************************************************************************)
(* Types of the terminal's fields.                                          *)
(***************************************************************************)
AuthorityTypeOK ==
    /\ clock \in Nat
    /\ detected \in Agent \cup {None}
    /\ fallback \in AgentState /\ blocker \in BOOLEAN /\ fallbackAt \in Nat \cup {None}
    /\ hook \in HookAuthority \cup {None}
    /\ persisted \in AgentSession \cup {None}
    /\ seqs \in [Owner -> Nat \cup {None}]
    /\ suppressed \in [Owner -> Suppression \cup {None}]
    /\ stale \in [Owner -> SUBSET Session]
    /\ state \in AgentState

(***************************************************************************)
(* A hook never speaks for an agent that the foreground process, seen       *)
(* after the hook's last report, contradicts.                               *)
(***************************************************************************)
ForegroundAgrees ==
    hook # None /\ detected # None /\ KnownAs(hook) # None /\ fallbackAt # None
      /\ hook.at <= fallbackAt => KnownAs(hook) = detected

(***************************************************************************)
(* The session kept for resuming never belongs to another owner than the    *)
(* live authority's session: two agents cannot both own the terminal.       *)
(***************************************************************************)
OneIdentity ==
    hook # None /\ hook.session # None /\ persisted # None => persisted.owner = hook.owner

(***************************************************************************)
(* A session whose full lifecycle authority ended, by release, exit, clear  *)
(* or takeover, stays barred until it is resumed: it is suppressed or       *)
(* remembered as stale, whatever is released, detected or reported          *)
(* afterwards.  The one path that forgets it is a release that finds no     *)
(* live authority and writes over the suppression.                          *)
(***************************************************************************)
EndedIsBarred ==
    \A o \in Full : gone[o] \subseteq
        stale[o] \cup forgotten[o]
          \cup (IF suppressed[o] = None THEN {} ELSE {suppressed[o].session})
=============================================================================
