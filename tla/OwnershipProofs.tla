--------------------------- MODULE OwnershipProofs ---------------------------
(***************************************************************************)
(* Proofs about who owns what: AgentAuthority, for every set of owners,    *)
(* agents and sessions, and PortRegistry, for every set of runtimes,       *)
(* requests and ports.                                                     *)
(***************************************************************************)
EXTENDS AgentAuthority, PortRegistry, WellFoundedInduction, TLAPS

(***************************************************************************)
(* AgentAuthority: who says what the agent of a terminal is doing.          *)
(***************************************************************************)

\* Types of the history.
HistoryTypeOK ==
  /\ gone \in [Owner -> SUBSET Session]
  /\ forgotten \in [Owner -> SUBSET (Session \cup {None})]

\* The owner of a live full lifecycle authority is not suppressed: so ending
\* the authority never writes over the suppression of an earlier session.
LiveIsNotSuppressed == FullAuthority(hook) => suppressed[hook.owner] = None

AuthorityInv ==
  /\ AuthorityTypeOK /\ HistoryTypeOK
  /\ ForegroundAgrees /\ OneIdentity /\ LiveIsNotSuppressed /\ EndedIsBarred

\* EndedIsBarred, over the values an operation leaves.
Barred(g, sta, f, sup) ==
  \A o \in Full : g[o] \subseteq
     sta[o] \cup f[o] \cup (IF sup[o] = None THEN {} ELSE {sup[o].session})

-----------------------------------------------------------------------------
\* The fields of an authority have their types.
LEMMA HookFields ==
  ASSUME NEW h \in HookAuthority
  PROVE  /\ h.owner \in Owner /\ h.session \in Session \cup {None}
         /\ h.state \in AgentState /\ h.at \in Nat
BY DEF HookAuthority

LEMMA EffectiveType ==
  ASSUME NEW h \in HookAuthority \cup {None}, NEW agent, NEW fb \in AgentState, NEW vb, NEW at
  PROVE  Effective(h, agent, fb, vb, at) \in AgentState
<1>1. CASE h = None
  BY <1>1 DEF Effective
<1>2. CASE h # None
  BY <1>2, HookFields DEF Effective, AgentState
<1>3. QED  BY <1>1, <1>2

\* Recompute gives the terminal a state of its type.
LEMMA RecomputeType ==
  ASSUME Recompute, hook' \in HookAuthority \cup {None}, fallback' \in AgentState
  PROVE  state' \in AgentState
BY EffectiveType DEF Recompute

\* suppress_current_full_lifecycle_hook_authority touches only the owner of
\* the authority that goes.
LEMMA SuppressFacts ==
  ASSUME NEW sup \in [Owner -> Suppression \cup {None}], NEW h \in HookAuthority \cup {None},
         NEW reason \in {"HookClear", "ProcessExit"}, clock \in Nat
  PROVE  /\ Suppress(sup, h, reason) \in [Owner -> Suppression \cup {None}]
         /\ FullAuthority(h) => /\ Suppress(sup, h, reason)[h.owner] # None
                                /\ Suppress(sup, h, reason)[h.owner].session = h.session
         /\ \A o \in Owner : ~(FullAuthority(h) /\ o = h.owner) => Suppress(sup, h, reason)[o] = sup[o]
<1>1. CASE ~FullAuthority(h)
  BY <1>1 DEF Suppress
<1>2. CASE FullAuthority(h)
  <2> DEFINE x == [session |-> h.session, at |-> clock, reason |-> reason]
  <2>1. h \in HookAuthority /\ h.owner \in Owner /\ h.session \in Session \cup {None}
    BY <1>2, HookFields DEF FullAuthority
  <2>2. x \in Suppression /\ x.session = h.session
    BY <2>1 DEF Suppression
  <2>3. x # None
    BY <2>2, AbsentAssumption
  <2>4. Suppress(sup, h, reason) = [sup EXCEPT ![h.owner] = x]
    BY <1>2 DEF Suppress
  <2> HIDE DEF x
  <2>5. QED  BY <1>2, <2>1, <2>2, <2>3, <2>4
<1>3. QED  BY <1>1, <1>2

\* End touches only the owner of an authority that goes.
LEMMA EndFacts ==
  ASSUME NEW g \in [Owner -> SUBSET Session], NEW h \in HookAuthority \cup {None}
  PROVE  /\ End(g, h) \in [Owner -> SUBSET Session]
         /\ FullAuthority(h) => End(g, h)[h.owner] \subseteq g[h.owner] \cup {h.session}
         /\ \A o \in Owner : ~(FullAuthority(h) /\ o = h.owner) => End(g, h)[o] = g[o]
<1>1. CASE ~(FullAuthority(h) /\ h.session # None)
  BY <1>1, HookFields DEF End, FullAuthority
<1>2. CASE FullAuthority(h) /\ h.session # None
  <2>1. h \in HookAuthority /\ h.owner \in Owner /\ h.session \in Session
    BY <1>2, HookFields DEF FullAuthority
  <2>2. End(g, h) = [g EXCEPT ![h.owner] = @ \cup {h.session}]
    BY <1>2 DEF End
  <2>3. QED  BY <1>2, <2>1, <2>2
<1>3. QED  BY <1>1, <1>2

\* An authority that ends is barred, and nothing that was barred is lost.
LEMMA SuppressBars ==
  ASSUME NEW sup \in [Owner -> Suppression \cup {None}], NEW h \in HookAuthority \cup {None},
         NEW reason \in {"HookClear", "ProcessExit"}, clock \in Nat,
         NEW g \in [Owner -> SUBSET Session], NEW sta, NEW f,
         FullAuthority(h) => sup[h.owner] = None,
         Barred(g, sta, f, sup)
  PROVE  Barred(End(g, h), sta, f, Suppress(sup, h, reason))
<1> DEFINE p == Suppress(sup, h, reason)
           e == End(g, h)
<1>1. /\ FullAuthority(h) => p[h.owner] # None /\ p[h.owner].session = h.session
      /\ \A o \in Owner : ~(FullAuthority(h) /\ o = h.owner) => p[o] = sup[o]
  BY SuppressFacts
<1>2. /\ FullAuthority(h) => e[h.owner] \subseteq g[h.owner] \cup {h.session}
      /\ \A o \in Owner : ~(FullAuthority(h) /\ o = h.owner) => e[o] = g[o]
  BY EndFacts
<1> HIDE DEF p, e
<1>3. ASSUME NEW o \in Full
      PROVE  e[o] \subseteq sta[o] \cup f[o] \cup (IF p[o] = None THEN {} ELSE {p[o].session})
  <2>1. o \in Owner
    BY AuthorityAssumption
  <2>2. CASE FullAuthority(h) /\ o = h.owner
    <3>1. g[o] \subseteq sta[o] \cup f[o]
      BY <2>2 DEF Barred
    <3>2. QED  BY <1>1, <1>2, <2>2, <3>1
  <2>3. CASE ~(FullAuthority(h) /\ o = h.owner)
    BY <1>1, <1>2, <2>1, <2>3 DEF Barred
  <2>4. QED  BY <2>2, <2>3
<1>4. QED  BY <1>3 DEF Barred, p, e

\* clear_full_lifecycle_hook_suppression_for_detected_agent keeps what it
\* lifts as stale.
LEMMA LiftBars ==
  ASSUME AuthorityTypeOK, HistoryTypeOK, EndedIsBarred, NEW agent
  PROVE  /\ Lift(agent) \in [Owner -> Suppression \cup {None}]
         /\ Remember(agent) \in [Owner -> SUBSET Session]
         /\ Barred(gone, Remember(agent), forgotten, Lift(agent))
         /\ \A o \in Owner : suppressed[o] = None => Lift(agent)[o] = None
<1>1. \A o \in Owner : suppressed[o] # None => suppressed[o].session \in Session \cup {None}
  BY DEF AuthorityTypeOK, Suppression
<1>2. Lift(agent) \in [Owner -> Suppression \cup {None}]
  BY DEF AuthorityTypeOK, Lift
<1>3. Remember(agent) \in [Owner -> SUBSET Session]
  <2>1. \A o \in Lifted(agent) : suppressed[o] # None
    BY DEF Lifted
  <2>2. QED  BY <1>1, <2>1 DEF AuthorityTypeOK, Remember
<1>4. \A o \in Owner : suppressed[o] = None => Lift(agent)[o] = None
  BY DEF Lift
<1>5. ASSUME NEW o \in Full
      PROVE  gone[o] \subseteq Remember(agent)[o] \cup forgotten[o]
               \cup (IF Lift(agent)[o] = None THEN {} ELSE {Lift(agent)[o].session})
  <2>1. o \in Owner /\ gone[o] \subseteq Session /\ None \notin Session
    BY AuthorityAssumption DEF HistoryTypeOK
  <2>2. CASE o \in Lifted(agent)
    <3>1. Remember(agent)[o] = IF suppressed[o].session # None
                               THEN stale[o] \cup {suppressed[o].session} ELSE stale[o]
      BY <2>1, <2>2 DEF Remember
    <3>2. gone[o] \subseteq stale[o] \cup forgotten[o] \cup {suppressed[o].session}
      BY <2>2 DEF EndedIsBarred, Lifted
    <3>3. QED  BY <2>1, <3>1, <3>2
  <2>3. CASE o \notin Lifted(agent)
    <3>1. Lift(agent)[o] = suppressed[o] /\ Remember(agent)[o] = stale[o]
      BY <2>1, <2>3 DEF Lift, Remember
    <3>2. QED  BY <3>1 DEF EndedIsBarred
  <2>4. QED  BY <2>2, <2>3
<1>6. QED  BY <1>2, <1>3, <1>4, <1>5 DEF Barred

LEMMA RecordType ==
  ASSUME NEW q \in [Owner -> Nat \cup {None}], NEW o \in Owner, NEW seq \in Seq0
  PROVE  Record(q, o, seq) \in [Owner -> Nat \cup {None}]
BY AuthorityAssumption DEF Record, Seq0

-----------------------------------------------------------------------------
LEMMA AuthorityInitHolds == AuthorityInit => AuthorityInv
<1> SUFFICES ASSUME AuthorityInit PROVE AuthorityInv
  OBVIOUS
<1> USE DEF AuthorityInit
<1>1. AuthorityTypeOK
  BY DEF AuthorityTypeOK, AgentState
<1>2. HistoryTypeOK
  BY DEF HistoryTypeOK
<1>3. ForegroundAgrees /\ OneIdentity /\ LiveIsNotSuppressed
  BY DEF ForegroundAgrees, OneIdentity, LiveIsNotSuppressed, FullAuthority
<1>4. EndedIsBarred
  BY AuthorityAssumption DEF EndedIsBarred
<1>5. QED  BY <1>1, <1>2, <1>3, <1>4 DEF AuthorityInv

\* A detection that is ignored, because a full lifecycle authority speaks.
LEMMA IgnoredKeeps ==
  ASSUME AuthorityInv, NEW agent \in Agent \cup {None}, FullAuthority(hook),
         Ignored(agent), Recompute, UNCHANGED <<clock, forgotten>>
  PROVE  AuthorityInv'
<1> USE DEF AuthorityInv
<1>1. AuthorityTypeOK'
  <2>1. state' \in AgentState
    BY RecomputeType DEF Ignored, AuthorityTypeOK
  <2>2. QED  BY <2>1 DEF Ignored, AuthorityTypeOK
<1>2. HistoryTypeOK' /\ OneIdentity' /\ LiveIsNotSuppressed' /\ EndedIsBarred'
  BY DEF Ignored, HistoryTypeOK, OneIdentity, LiveIsNotSuppressed, EndedIsBarred, FullAuthority
<1>3. ForegroundAgrees'
  BY DEF Ignored, ForegroundAgrees, KnownAs
<1>4. QED  BY <1>1, <1>2, <1>3

\* set_detected_state_with_screen_signals_at past its early returns.
LEMMA ObserveKeeps ==
  ASSUME AuthorityInv, NEW agent \in Agent \cup {None}, NEW st \in AgentState,
         NEW vb \in BOOLEAN, NEW exited \in BOOLEAN, NEW at \in Nat,
         Observe(agent, st, vb, exited, at), Recompute, UNCHANGED <<clock, forgotten>>
  PROVE  AuthorityInv'
<1> DEFINE exits == exited /\ hook # None /\ hook.at <= at /\ KnownAs(hook) = agent
           left == IF exits THEN None ELSE hook
           replaced == /\ left # None /\ left.at <= at
                       /\ \/ Conflicts(left, agent)
                          \/ detected # None /\ agent # detected /\ KnownAs(left) = detected
           lifted == IF exited THEN suppressed ELSE Lift(agent)
           remembered == IF exited THEN stale ELSE Remember(agent)
           kept == IF exited /\ persisted # None /\ AgentOf[persisted.owner] = agent
                   THEN None ELSE persisted
<1> USE DEF AuthorityInv
<1>1. /\ detected' = agent /\ fallback' = st /\ blocker' = (vb /\ st = "Blocked")
      /\ fallbackAt' = at /\ stale' = remembered
  BY DEF Observe
<1>2. hook' = IF replaced THEN None ELSE left
  BY DEF Observe
<1>3. suppressed' = IF exits THEN Suppress(lifted, hook, "ProcessExit")
                    ELSE IF replaced THEN Suppress(lifted, left, "HookClear") ELSE lifted
  BY DEF Observe
<1>4. persisted' = IF ~replaced THEN kept
                   ELSE IF left.session = None THEN None
                   ELSE [owner |-> left.owner, session |-> left.session]
  BY DEF Observe
<1>5. gone' = IF exits \/ replaced THEN End(gone, hook) ELSE gone
  BY DEF Observe
<1>6. seqs' \in [Owner -> Nat \cup {None}]
  <2>1. Reanchored(agent) \in [Owner -> Nat \cup {None}]
    BY DEF Reanchored, AuthorityTypeOK
  <2>2. hook # None => hook.owner \in Owner
    BY HookFields DEF AuthorityTypeOK
  <2>3. QED  BY <2>1, <2>2 DEF Observe, AuthorityTypeOK
<1>7. /\ lifted \in [Owner -> Suppression \cup {None}]
      /\ remembered \in [Owner -> SUBSET Session]
      /\ Barred(gone, remembered, forgotten, lifted)
      /\ \A o \in Owner : suppressed[o] = None => lifted[o] = None
  BY LiftBars DEF AuthorityTypeOK, EndedIsBarred, Barred
<1>8. /\ kept \in AgentSession \cup {None} /\ hook \in HookAuthority \cup {None} /\ clock \in Nat
      /\ gone \in [Owner -> SUBSET Session]
  BY DEF AuthorityTypeOK, HistoryTypeOK
<1>9. FullAuthority(hook) => hook.owner \in Owner /\ lifted[hook.owner] = None
  BY <1>7, <1>8, HookFields DEF LiveIsNotSuppressed, FullAuthority
<1>10. kept = None \/ kept = persisted
  OBVIOUS
<1>11. replaced => left = hook /\ hook # None /\ ~exits
  OBVIOUS
<1>12. (left = hook \/ left = None) /\ (exits => left = None)
  OBVIOUS
<1>13. /\ exits => hook # None
       /\ left # None /\ ~replaced /\ left.at <= at => ~Conflicts(left, agent)
  OBVIOUS
<1> HIDE DEF exits, left, replaced, lifted, remembered, kept
<1>14. suppressed' \in [Owner -> Suppression \cup {None}]
  BY <1>3, <1>7, <1>8, <1>11, SuppressFacts
<1>15. HistoryTypeOK'
  BY <1>5, <1>8, EndFacts DEF HistoryTypeOK
<1>16. AuthorityTypeOK'
  <2>1. hook' \in HookAuthority \cup {None}
    BY <1>2, <1>8, <1>12
  <2>2. state' \in AgentState
    BY <1>1, <2>1, RecomputeType
  <2>3. persisted' \in AgentSession \cup {None}
    <3>1. CASE replaced /\ left.session # None
      <4>1. left \in HookAuthority
        BY <1>8, <1>11, <3>1
      <4>2. left.owner \in Owner /\ left.session \in Session
        BY <3>1, <4>1, HookFields
      <4>3. QED  BY <1>4, <3>1, <4>2 DEF AgentSession
    <3>2. CASE ~(replaced /\ left.session # None)
      BY <1>4, <1>8, <3>2
    <3>3. QED  BY <3>1, <3>2
  <2>4. blocker' \in BOOLEAN
    BY <1>1
  <2>5. QED  BY <1>1, <1>6, <1>7, <1>14, <2>1, <2>2, <2>3, <2>4 DEF AuthorityTypeOK
<1>17. ForegroundAgrees'
  <2> SUFFICES ASSUME hook' # None, detected' # None, KnownAs(hook') # None, hook'.at <= fallbackAt'
               PROVE  KnownAs(hook') = detected'
    BY DEF ForegroundAgrees, KnownAs
  <2>1. left # None /\ ~replaced /\ hook' = left /\ left.at <= at
    BY <1>1, <1>2
  <2>2. ~Conflicts(left, agent)
    BY <1>13, <2>1
  <2>3. QED  BY <1>1, <2>1, <2>2 DEF Conflicts
<1>18. OneIdentity'
  BY <1>2, <1>4, <1>10, <1>12 DEF OneIdentity
<1>19. LiveIsNotSuppressed'
  <2> SUFFICES ASSUME FullAuthority(hook') PROVE suppressed'[hook'.owner] = None
    BY DEF LiveIsNotSuppressed, FullAuthority
  <2>1. hook' # None
    BY DEF FullAuthority
  <2>2. ~replaced /\ hook' = hook /\ ~exits
    BY <1>2, <1>12, <2>1
  <2>3. QED  BY <1>3, <1>9, <2>2
<1>20. EndedIsBarred'
  <2>1. Barred(gone', stale', forgotten', suppressed')
    <3>1. CASE exits
      <4>1. Barred(End(gone, hook), remembered, forgotten, Suppress(lifted, hook, "ProcessExit"))
        BY <1>7, <1>8, <1>9, SuppressBars
      <4>2. QED  BY <1>1, <1>3, <1>5, <3>1, <4>1
    <3>2. CASE ~exits /\ replaced
      <4>1. Barred(End(gone, hook), remembered, forgotten, Suppress(lifted, hook, "HookClear"))
        BY <1>7, <1>8, <1>9, SuppressBars
      <4>2. QED  BY <1>1, <1>3, <1>5, <1>11, <3>2, <4>1
    <3>3. CASE ~exits /\ ~replaced
      BY <1>1, <1>3, <1>5, <1>7, <3>3
    <3>4. QED  BY <3>1, <3>2, <3>3
  <2>2. QED  BY <2>1 DEF Barred, EndedIsBarred
<1>21. QED  BY <1>15, <1>16, <1>17, <1>18, <1>19, <1>20

\* The values one operation leaves alone.
LEMMA NothingDone ==
  ASSUME AuthorityInv, UNCHANGED <<clock, observed, hook, persisted, suppressed, stale, gone, forgotten>>,
         seqs' \in [Owner -> Nat \cup {None}], state' \in AgentState
  PROVE  AuthorityInv'
<1> USE DEF AuthorityInv, observed
<1>1. AuthorityTypeOK' /\ HistoryTypeOK'
  BY DEF AuthorityTypeOK, HistoryTypeOK
<1>2. ForegroundAgrees' /\ OneIdentity' /\ LiveIsNotSuppressed' /\ EndedIsBarred'
  BY DEF ForegroundAgrees, OneIdentity, LiveIsNotSuppressed, EndedIsBarred, FullAuthority, KnownAs
<1>3. QED  BY <1>1, <1>2

LEMMA DetectedKeeps ==
  ASSUME AuthorityInv, NEW agent \in Agent \cup {None}, NEW st \in AgentState,
         NEW vb \in BOOLEAN, NEW exited \in BOOLEAN, NEW at \in Nat,
         set_detected_state(agent, st, vb, exited, at)
  PROVE  AuthorityInv'
<1>1. Recompute /\ UNCHANGED <<clock, forgotten>>
  BY DEF set_detected_state
<1>2. CASE FullAuthority(hook) /\ ~exited /\ ~Conflicts(hook, agent)
  BY <1>1, <1>2, IgnoredKeeps DEF set_detected_state
<1>3. CASE UNCHANGED <<observed, hook, persisted, seqs, suppressed, stale, gone>>
  <2>1. state' \in AgentState
    BY <1>1, <1>3, RecomputeType DEF observed, AuthorityInv, AuthorityTypeOK
  <2>2. QED  BY <1>1, <1>3, <2>1, NothingDone DEF AuthorityInv, AuthorityTypeOK
<1>4. CASE Observe(agent, st, vb, exited, at)
  BY <1>1, <1>4, ObserveKeeps
<1>5. QED  BY <1>2, <1>3, <1>4 DEF set_detected_state

\* Who owns the identity: the live authority's session before the kept one.
LEMMA IdentityFacts ==
  ASSUME AuthorityInv
  PROVE  /\ Identity \in AgentSession \cup {None}
         /\ Identity # None => Identity.owner \in Owner /\ Identity.session \in Session
         /\ hook # None /\ hook.session # None
              => /\ Identity # None /\ Identity.owner = hook.owner
                 /\ Identity.session = hook.session
<1>1. CASE hook # None /\ hook.session # None
  <2>1. hook.owner \in Owner /\ hook.session \in Session
    BY <1>1, HookFields DEF AuthorityInv, AuthorityTypeOK
  <2>2. Identity = [owner |-> hook.owner, session |-> hook.session]
    BY <1>1 DEF Identity
  <2>3. Identity \in AgentSession
    BY <2>1, <2>2 DEF AgentSession
  <2>4. Identity # None
    BY <2>3, AbsentAssumption
  <2>5. QED  BY <2>1, <2>2, <2>3, <2>4
<1>2. CASE ~(hook # None /\ hook.session # None)
  <2>1. Identity = persisted
    BY <1>2 DEF Identity
  <2>2. QED  BY <1>2, <2>1 DEF AuthorityInv, AuthorityTypeOK, AgentSession
<1>3. QED  BY <1>1, <1>2

\* set_hook_authority_at: whatever session the report adopts, a suppression
\* of the owner turns into a stale session, and the owner that is taken over
\* is suppressed.
LEMMA HookReportKeeps ==
  ASSUME AuthorityInv, NEW o \in Owner, NEW st \in AgentState, NEW s \in Session \cup {None},
         NEW seq \in Seq0, set_hook_authority(o, st, s, seq)
  PROVE  AuthorityInv'
<1> DEFINE adopted == Adopted(o, s)
           anchored == IF FreshSession(o, s) THEN [seqs EXCEPT ![o] = None] ELSE seqs
           takeover == OwnerConflicts(o)
           sup == IF takeover THEN Suppress(suppressed, hook, "HookClear") ELSE suppressed
           ended == IF takeover THEN End(gone, hook) ELSE gone
           cleared == adopted # None /\ sup[o] # None
           new == [owner |-> o, session |-> adopted, state |-> st, at |-> clock]
<1> USE DEF AuthorityInv
<1>1. /\ ~IsSuppressed(o, s) /\ ~LabelConflicts(o)
      /\ takeover => s # None
      /\ seqs' = Record(anchored, o, seq)
      /\ suppressed' = IF cleared THEN [sup EXCEPT ![o] = None] ELSE sup
      /\ stale' = IF cleared /\ sup[o].session # None
                  THEN [stale EXCEPT ![o] = @ \cup {sup[o].session}] ELSE stale
      /\ persisted' = None /\ hook' = new /\ gone' = ended
      /\ UNCHANGED <<clock, observed, forgotten>> /\ Recompute
  BY DEF set_hook_authority
<1>2. adopted \in Session \cup {None} /\ (s # None => adopted # None)
  BY IdentityFacts, AuthorityAssumption DEF Adopted, OtherSession
<1>3. /\ hook \in HookAuthority \cup {None} /\ clock \in Nat
      /\ suppressed \in [Owner -> Suppression \cup {None}]
      /\ gone \in [Owner -> SUBSET Session] /\ stale \in [Owner -> SUBSET Session]
  BY DEF AuthorityTypeOK, HistoryTypeOK
<1>4. sup \in [Owner -> Suppression \cup {None}] /\ ended \in [Owner -> SUBSET Session]
  BY <1>3, SuppressFacts, EndFacts
<1>5. Barred(ended, stale, forgotten, sup)
  <2>1. Barred(gone, stale, forgotten, suppressed)
    BY DEF Barred, EndedIsBarred
  <2>2. FullAuthority(hook) => suppressed[hook.owner] = None
    BY DEF LiveIsNotSuppressed
  <2>3. CASE takeover
    BY <1>3, <2>1, <2>2, <2>3, SuppressBars
  <2>4. CASE ~takeover
    BY <2>1, <2>4
  <2>5. QED  BY <2>3, <2>4
<1>6. seqs' \in [Owner -> Nat \cup {None}]
  <2>1. anchored \in [Owner -> Nat \cup {None}]
    BY DEF AuthorityTypeOK
  <2>2. QED  BY <1>1, <2>1, RecordType
<1>7. new \in HookAuthority
  BY <1>2, <1>3 DEF HookAuthority
<1>8. new # None /\ new.owner = o
  BY <1>7, AbsentAssumption
\* The owner's suppression does not outlive the report.
<1>9. o \in Full => suppressed'[o] = None
  <2> SUFFICES ASSUME o \in Full PROVE suppressed'[o] = None
    OBVIOUS
  <2>1. CASE cleared
    BY <1>1, <1>4, <2>1
  <2>2. CASE ~cleared /\ adopted # None
    BY <1>1, <2>2
  <2>3. CASE adopted = None
    <3>1. s = None /\ ~takeover
      BY <1>1, <1>2, <2>3
    <3>2. suppressed[o] = None
      BY <1>1, <3>1 DEF IsSuppressed
    <3>3. QED  BY <1>1, <2>3, <3>1, <3>2
  <2>4. QED  BY <2>1, <2>2, <2>3
<1>10. cleared => sup[o].session \in Session \cup {None}
  BY <1>4 DEF Suppression
<1> HIDE DEF adopted, anchored, takeover, sup, ended, cleared, new
<1>11. suppressed' \in [Owner -> Suppression \cup {None}] /\ stale' \in [Owner -> SUBSET Session]
  BY <1>1, <1>3, <1>4, <1>10
<1>12. AuthorityTypeOK' /\ HistoryTypeOK'
  <2>1. state' \in AgentState
    BY <1>1, <1>7, RecomputeType DEF AuthorityTypeOK, observed
  <2>2. QED  BY <1>1, <1>4, <1>6, <1>7, <1>11, <2>1 DEF AuthorityTypeOK, HistoryTypeOK, observed
<1>13. ForegroundAgrees'
  BY <1>1, <1>8 DEF ForegroundAgrees, LabelConflicts, KnownAs, observed
<1>14. OneIdentity'
  BY <1>1 DEF OneIdentity
<1>15. LiveIsNotSuppressed'
  BY <1>1, <1>8, <1>9 DEF LiveIsNotSuppressed, FullAuthority
<1>16. EndedIsBarred'
  <2> SUFFICES ASSUME NEW p \in Full
               PROVE  gone'[p] \subseteq stale'[p] \cup forgotten'[p]
                        \cup (IF suppressed'[p] = None THEN {} ELSE {suppressed'[p].session})
    BY DEF EndedIsBarred
  <2>1. /\ p \in Owner /\ ended[p] \subseteq Session /\ None \notin Session
        /\ gone'[p] = ended[p] /\ forgotten'[p] = forgotten[p]
    BY <1>1, <1>4, AuthorityAssumption
  <2>2. ended[p] \subseteq stale[p] \cup forgotten[p]
                             \cup (IF sup[p] = None THEN {} ELSE {sup[p].session})
    BY <1>5 DEF Barred
  <2>3. CASE cleared /\ p = o
    <3>1. stale'[o] = IF sup[o].session # None THEN stale[o] \cup {sup[o].session} ELSE stale[o]
      BY <1>1, <1>3, <2>3
    <3>2. QED  BY <2>1, <2>2, <2>3, <3>1
  <2>4. CASE ~(cleared /\ p = o)
    <3>1. stale'[p] = stale[p] /\ suppressed'[p] = sup[p]
      BY <1>1, <1>3, <1>4, <2>1, <2>4
    <3>2. QED  BY <2>1, <2>2, <3>1
  <2>5. QED  BY <2>3, <2>4
<1>17. QED  BY <1>12, <1>13, <1>14, <1>15, <1>16

\* set_agent_session_ref_for_session_start of a session that is allowed.
LEMMA AdoptSessionKeeps ==
  ASSUME AuthorityInv, NEW o \in Owner, NEW s \in Session, NEW start \in Start,
         AdoptSession(o, s, start), UNCHANGED <<clock, observed, forgotten>>,
         seqs' \in [Owner -> Nat \cup {None}], Recompute
  PROVE  AuthorityInv'
<1> DEFINE takeover == OwnerConflicts(o)
           replaced == LiveSessionConflicts(o, s)
           resumed == start \in Replaces[o] \/ takeover
           revived == IF resumed THEN [stale EXCEPT ![o] = @ \ {s}] ELSE stale
           ended == IF replaced \/ takeover THEN End(gone, hook) ELSE gone
<1> USE DEF AuthorityInv
<1>1. /\ stale' = IF replaced THEN [revived EXCEPT ![o] = @ \cup {hook.session}] ELSE revived
      /\ suppressed' = IF takeover /\ ~replaced
                       THEN Suppress(suppressed, hook, "HookClear") ELSE suppressed
      /\ hook' = IF replaced \/ takeover THEN None ELSE hook
      /\ persisted' = [owner |-> o, session |-> s]
      /\ gone' = IF resumed THEN [ended EXCEPT ![o] = @ \ {s}] ELSE ended
  BY DEF AdoptSession
<1>2. /\ hook \in HookAuthority \cup {None} /\ clock \in Nat
      /\ suppressed \in [Owner -> Suppression \cup {None}]
      /\ gone \in [Owner -> SUBSET Session] /\ stale \in [Owner -> SUBSET Session]
  BY DEF AuthorityTypeOK, HistoryTypeOK
<1>3. ended \in [Owner -> SUBSET Session] /\ revived \in [Owner -> SUBSET Session]
  BY <1>2, EndFacts
<1>4. replaced => /\ FullAuthority(hook) /\ hook.owner = o /\ hook.session \in Session
                  /\ hook.session # s
  BY <1>2, HookFields DEF LiveSessionConflicts, FullAuthority
<1>5. ~takeover /\ hook # None /\ hook.session # None => hook.owner = o
  BY IdentityFacts DEF OwnerConflicts
<1>6. /\ Barred(gone, stale, forgotten, suppressed)
      /\ FullAuthority(hook) => suppressed[hook.owner] = None
  BY DEF Barred, EndedIsBarred, LiveIsNotSuppressed
<1>7. takeover => Barred(End(gone, hook), stale, forgotten, Suppress(suppressed, hook, "HookClear"))
  BY <1>2, <1>6, SuppressBars
<1>8. replaced => /\ End(gone, hook)[o] \subseteq gone[o] \cup {hook.session}
                  /\ \A p \in Owner : p # o => End(gone, hook)[p] = gone[p]
  BY <1>2, <1>4, EndFacts
<1>9. takeover /\ ~replaced =>
        Suppress(suppressed, hook, "HookClear") \in [Owner -> Suppression \cup {None}]
  BY <1>2, SuppressFacts
<1>10. ended = IF replaced \/ takeover THEN End(gone, hook) ELSE gone
  OBVIOUS
<1>11. /\ \A p \in Owner : p # o => revived[p] = stale[p]
       /\ resumed => revived[o] = stale[o] \ {s}
       /\ ~resumed => revived[o] = stale[o]
  BY <1>2
<1>12. takeover => resumed
  OBVIOUS
<1>13. ~(takeover /\ replaced)
  BY <1>4, IdentityFacts, AuthorityAssumption DEF OwnerConflicts, FullAuthority
<1> HIDE DEF takeover, replaced, resumed, revived, ended
<1>14. AuthorityTypeOK' /\ HistoryTypeOK'
  <2>1. hook' \in HookAuthority \cup {None} /\ fallback' \in AgentState
    BY <1>1, <1>2 DEF AuthorityTypeOK, observed
  <2>2. state' \in AgentState
    BY <2>1, RecomputeType
  <2>3. stale' \in [Owner -> SUBSET Session] /\ gone' \in [Owner -> SUBSET Session]
    BY <1>1, <1>3, <1>4
  <2>4. suppressed' \in [Owner -> Suppression \cup {None}]
    BY <1>1, <1>2, <1>9
  <2>5. persisted' \in AgentSession
    BY <1>1 DEF AgentSession
  <2>6. QED  BY <2>1, <2>2, <2>3, <2>4, <2>5 DEF AuthorityTypeOK, HistoryTypeOK, observed
<1>15. ForegroundAgrees'
  BY <1>1 DEF ForegroundAgrees, KnownAs, observed
<1>16. OneIdentity'
  BY <1>1, <1>5 DEF OneIdentity
<1>17. LiveIsNotSuppressed'
  BY <1>1, <1>6 DEF LiveIsNotSuppressed, FullAuthority
<1>18. EndedIsBarred'
  <2> SUFFICES ASSUME NEW p \in Full
               PROVE  gone'[p] \subseteq stale'[p] \cup forgotten[p]
                        \cup (IF suppressed'[p] = None THEN {} ELSE {suppressed'[p].session})
    BY DEF EndedIsBarred
  <2>1. p \in Owner
    BY AuthorityAssumption
  <2>2. ended[p] \subseteq stale[p] \cup forgotten[p]
          \cup (IF suppressed'[p] = None THEN {} ELSE {suppressed'[p].session})
          \cup (IF replaced /\ p = o THEN {hook.session} ELSE {})
    <3>1. CASE takeover /\ ~replaced
      BY <1>1, <1>7, <1>10, <3>1 DEF Barred
    <3>2. CASE replaced
      <4>1. ended[p] \subseteq gone[p] \cup (IF p = o THEN {hook.session} ELSE {})
        BY <1>8, <1>10, <2>1, <3>2
      <4>2. QED  BY <1>1, <1>6, <3>2, <4>1 DEF Barred
    <3>3. CASE ~takeover /\ ~replaced
      BY <1>1, <1>6, <1>10, <3>3 DEF Barred
    <3>4. QED  BY <3>1, <3>2, <3>3
  <2>3. stale'[p] = revived[p] \cup (IF replaced /\ p = o THEN {hook.session} ELSE {})
    BY <1>1, <1>3, <2>1
  <2>4. gone'[p] = IF resumed /\ p = o THEN ended[p] \ {s} ELSE ended[p]
    BY <1>1, <1>3, <2>1
  <2>5. revived[p] = IF resumed /\ p = o THEN stale[p] \ {s} ELSE stale[p]
    BY <1>11, <2>1
  <2>6. QED  BY <2>2, <2>3, <2>4, <2>5
<1>19. QED  BY <1>14, <1>15, <1>16, <1>17, <1>18

LEMMA SessionReportKeeps ==
  ASSUME AuthorityInv, NEW o \in Owner, NEW s \in Session, NEW seq \in Seq0,
         NEW start \in Start, set_agent_session_ref(o, s, seq, start)
  PROVE  AuthorityInv'
<1>1. seqs' \in [Owner -> Nat \cup {None}]
  BY RecordType DEF set_agent_session_ref, AuthorityInv, AuthorityTypeOK
<1>2. CASE SessionAllowed(o, s, start)
  BY <1>1, <1>2, AdoptSessionKeeps DEF set_agent_session_ref
<1>3. CASE ~SessionAllowed(o, s, start)
  <2>1. /\ UNCHANGED <<clock, observed, hook, persisted, suppressed, stale, gone, forgotten>>
        /\ Recompute
    BY <1>3 DEF set_agent_session_ref
  <2>2. state' \in AgentState
    BY <2>1, RecomputeType DEF observed, AuthorityInv, AuthorityTypeOK
  <2>3. QED  BY <1>1, <2>1, <2>2, NothingDone
<1>4. QED  BY <1>2, <1>3

\* clear_hook_authority_with_mutation.
LEMMA ClearKeeps ==
  ASSUME AuthorityInv, NEW o \in Owner \cup {None}, NEW seq \in Seq0, clear_hook_authority(o, seq)
  PROVE  AuthorityInv'
<1> DEFINE clears == hook # None /\ (o = None \/ hook.owner = o)
<1>1. seqs' \in [Owner -> Nat \cup {None}]
  <2>1. hook # None => hook.owner \in Owner
    BY HookFields DEF AuthorityInv, AuthorityTypeOK
  <2>2. QED  BY <2>1, RecordType DEF clear_hook_authority, AuthorityInv, AuthorityTypeOK
<1>2. CASE ~clears
  <2>1. /\ UNCHANGED <<clock, observed, hook, persisted, suppressed, stale, gone, forgotten>>
        /\ Recompute
    BY <1>2 DEF clear_hook_authority
  <2>2. state' \in AgentState
    BY <2>1, RecomputeType DEF observed, AuthorityInv, AuthorityTypeOK
  <2>3. QED  BY <1>1, <2>1, <2>2, NothingDone
<1>3. CASE clears
  <2>1. /\ suppressed' = Suppress(suppressed, hook, "HookClear")
        /\ hook' = None /\ persisted' = None /\ gone' = End(gone, hook)
        /\ UNCHANGED <<clock, observed, stale, forgotten>> /\ Recompute
    BY <1>3 DEF clear_hook_authority
  <2>2. /\ hook \in HookAuthority \cup {None} /\ clock \in Nat
        /\ suppressed \in [Owner -> Suppression \cup {None}] /\ gone \in [Owner -> SUBSET Session]
    BY DEF AuthorityInv, AuthorityTypeOK, HistoryTypeOK
  <2>3. /\ Barred(gone, stale, forgotten, suppressed)
        /\ FullAuthority(hook) => suppressed[hook.owner] = None
    BY DEF AuthorityInv, Barred, EndedIsBarred, LiveIsNotSuppressed
  <2>4. Barred(gone', stale', forgotten', suppressed')
    BY <2>1, <2>2, <2>3, SuppressBars
  <2>5. /\ suppressed' \in [Owner -> Suppression \cup {None}] /\ gone' \in [Owner -> SUBSET Session]
    BY <2>1, <2>2, SuppressFacts, EndFacts
  <2>6. state' \in AgentState
    BY <2>1, RecomputeType DEF observed, AuthorityInv, AuthorityTypeOK
  <2>7. AuthorityTypeOK' /\ HistoryTypeOK'
    BY <1>1, <2>1, <2>5, <2>6 DEF observed, AuthorityInv, AuthorityTypeOK, HistoryTypeOK
  <2>8. ForegroundAgrees' /\ OneIdentity' /\ LiveIsNotSuppressed'
    BY <2>1 DEF ForegroundAgrees, OneIdentity, LiveIsNotSuppressed, FullAuthority
  <2>9. EndedIsBarred'
    BY <2>4 DEF Barred, EndedIsBarred
  <2>10. QED  BY <2>7, <2>8, <2>9 DEF AuthorityInv
<1>4. QED  BY <1>2, <1>3

\* release_agent_with_mutation: with a live authority its session is
\* suppressed; without one the suppression is written over and the session
\* that was in it is forgotten.
LEMMA ReleaseKeeps ==
  ASSUME AuthorityInv, NEW o \in Owner, NEW seq \in Seq0, release_agent(o, seq)
  PROVE  AuthorityInv'
<1>1. seqs' \in [Owner -> Nat \cup {None}]
  BY RecordType DEF release_agent, AuthorityInv, AuthorityTypeOK
<1>2. CASE ~Releases(o)
  <2>1. /\ UNCHANGED <<clock, observed, hook, persisted, suppressed, stale, gone, forgotten>>
        /\ Recompute
    BY <1>2 DEF release_agent
  <2>2. state' \in AgentState
    BY <2>1, RecomputeType DEF observed, AuthorityInv, AuthorityTypeOK
  <2>3. QED  BY <1>1, <2>1, <2>2, NothingDone
<1>3. CASE Releases(o)
  <2> DEFINE ses == IF hook = None THEN None ELSE hook.session
             new == [session |-> ses, at |-> clock, reason |-> "HookClear"]
  <2>1. /\ suppressed' = IF o \in Full THEN [suppressed EXCEPT ![o] = new] ELSE suppressed
        /\ detected' = None /\ fallback' = "Unknown" /\ blocker' = FALSE /\ fallbackAt' = None
        /\ hook' = None
        /\ persisted' = IF persisted # None /\ persisted.owner # o THEN persisted ELSE None
        /\ gone' = End(gone, hook)
        /\ forgotten' = IF hook = None /\ suppressed[o] # None
                        THEN [forgotten EXCEPT ![o] = @ \cup {suppressed[o].session}]
                        ELSE forgotten
        /\ UNCHANGED <<clock, stale>> /\ Recompute
    BY <1>3 DEF release_agent
  <2>2. /\ hook \in HookAuthority \cup {None} /\ clock \in Nat
        /\ suppressed \in [Owner -> Suppression \cup {None}] /\ gone \in [Owner -> SUBSET Session]
        /\ forgotten \in [Owner -> SUBSET (Session \cup {None})]
    BY DEF AuthorityInv, AuthorityTypeOK, HistoryTypeOK
  <2>3. ses \in Session \cup {None}
    BY <2>2, HookFields
  <2>4. new \in Suppression /\ new.session = ses
    BY <2>2, <2>3 DEF Suppression
  <2>5. new # None
    BY <2>4, AbsentAssumption
  <2>6. hook # None => hook.owner = o
    BY <1>3 DEF Releases
  <2>7. hook = None => ses = None
    OBVIOUS
  <2>8. hook # None => ses = hook.session
    OBVIOUS
  <2> HIDE DEF ses, new
  <2>9. suppressed[o] # None => suppressed[o].session \in Session \cup {None}
    BY <2>2 DEF Suppression
  <2>10. /\ suppressed' \in [Owner -> Suppression \cup {None}] /\ gone' \in [Owner -> SUBSET Session]
         /\ forgotten' \in [Owner -> SUBSET (Session \cup {None})]
    BY <2>1, <2>2, <2>4, <2>9, EndFacts
  <2>11. "Unknown" \in AgentState
    BY DEF AgentState
  <2>12. state' \in AgentState
    BY <2>1, <2>11, RecomputeType
  <2>13. AuthorityTypeOK' /\ HistoryTypeOK'
    BY <1>1, <2>1, <2>10, <2>11, <2>12 DEF AuthorityInv, AuthorityTypeOK, HistoryTypeOK
  <2>14. ForegroundAgrees' /\ OneIdentity' /\ LiveIsNotSuppressed'
    BY <2>1 DEF ForegroundAgrees, OneIdentity, LiveIsNotSuppressed, FullAuthority
  <2>15. EndedIsBarred'
    <3> SUFFICES ASSUME NEW p \in Full
                 PROVE  gone'[p] \subseteq stale[p] \cup forgotten'[p]
                          \cup (IF suppressed'[p] = None THEN {} ELSE {suppressed'[p].session})
      BY <2>1 DEF EndedIsBarred
    <3>1. p \in Owner
      BY AuthorityAssumption
    <3>2. gone[p] \subseteq stale[p] \cup forgotten[p]
            \cup (IF suppressed[p] = None THEN {} ELSE {suppressed[p].session})
      BY DEF AuthorityInv, EndedIsBarred
    <3>3. CASE p # o
      <4>1. gone'[p] = gone[p]
        BY <2>1, <2>2, <2>6, <3>1, <3>3, EndFacts DEF FullAuthority
      <4>2. suppressed'[p] = suppressed[p] /\ forgotten'[p] = forgotten[p]
        BY <2>1, <2>2, <3>1, <3>3
      <4>3. QED  BY <3>2, <4>1, <4>2
    <3>4. CASE p = o /\ hook = None
      <4>1. gone'[p] = gone[p]
        BY <2>1, <2>2, <3>1, <3>4, EndFacts DEF FullAuthority
      <4>2. forgotten'[p] = IF suppressed[o] # None
                            THEN forgotten[p] \cup {suppressed[o].session} ELSE forgotten[p]
        BY <2>1, <2>2, <3>1, <3>4
      <4>3. QED  BY <3>2, <3>4, <4>1, <4>2
    <3>5. CASE p = o /\ hook # None
      <4>1. FullAuthority(hook)
        BY <2>6, <3>5 DEF FullAuthority
      <4>2. gone'[p] \subseteq gone[p] \cup {hook.session}
        BY <2>1, <2>2, <2>6, <3>5, <4>1, EndFacts
      <4>3. suppressed[p] = None /\ forgotten'[p] = forgotten[p]
        BY <2>1, <2>6, <3>5, <4>1 DEF AuthorityInv, LiveIsNotSuppressed
      <4>4. suppressed'[p] = new
        BY <2>1, <2>2, <3>1, <3>5
      <4>5. QED  BY <2>4, <2>5, <2>8, <3>2, <3>5, <4>2, <4>3, <4>4
    <3>6. QED  BY <3>3, <3>4, <3>5
  <2>16. QED  BY <2>13, <2>14, <2>15 DEF AuthorityInv
<1>4. QED  BY <1>2, <1>3

\* clear_agent_runtime_identity_after_respawn.
LEMMA RespawnKeeps ==
  ASSUME AuthorityInv, Respawn
  PROVE  AuthorityInv'
<1>1. AuthorityTypeOK' /\ HistoryTypeOK'
  BY DEF Respawn, AuthorityInv, AuthorityTypeOK, HistoryTypeOK, AgentState
<1>2. ForegroundAgrees' /\ OneIdentity' /\ LiveIsNotSuppressed'
  BY DEF Respawn, ForegroundAgrees, OneIdentity, LiveIsNotSuppressed, FullAuthority
<1>3. EndedIsBarred'
  BY AuthorityAssumption DEF Respawn, EndedIsBarred
<1>4. QED  BY <1>1, <1>2, <1>3 DEF AuthorityInv

LEMMA AuthorityNextKeeps == AuthorityInv /\ [AuthorityNext]_authorityVars => AuthorityInv'
<1> SUFFICES ASSUME AuthorityInv, [AuthorityNext]_authorityVars PROVE AuthorityInv'
  OBVIOUS
<1>1. clock \in Nat /\ \A at \in 0..clock : at \in Nat
  BY DEF AuthorityInv, AuthorityTypeOK
<1>2. CASE TerminalTick
  <2>1. clock' \in Nat
    BY <1>1, <1>2 DEF TerminalTick
  <2>2. AuthorityTypeOK' /\ HistoryTypeOK'
    BY <1>2, <2>1 DEF TerminalTick, observed, AuthorityInv, AuthorityTypeOK, HistoryTypeOK
  <2>3. ForegroundAgrees' /\ OneIdentity' /\ LiveIsNotSuppressed' /\ EndedIsBarred'
    BY <1>2 DEF TerminalTick, observed, AuthorityInv, ForegroundAgrees, OneIdentity,
                LiveIsNotSuppressed, EndedIsBarred, FullAuthority, KnownAs
  <2>4. QED  BY <2>2, <2>3 DEF AuthorityInv
<1>3. ASSUME NEW agent \in Agent \cup {None}, NEW exited \in BOOLEAN, StateChanged(agent, exited)
      PROVE  AuthorityInv'
  <2>1. PICK screen \in Screen, at \in 0..clock :
          set_detected_state(agent, screen[1], screen[2], exited, at)
    BY <1>3 DEF StateChanged
  <2>2. screen[1] \in AgentState /\ screen[2] \in BOOLEAN /\ at \in Nat
    BY <1>1, AuthorityAssumption DEF AgentState
  <2>3. QED  BY <2>1, <2>2, DetectedKeeps
<1>4. ASSUME NEW o \in Owner, NEW seq \in Seq0, NEW s \in Session \cup {None},
             HookStateReported(o, s, seq)
      PROVE  AuthorityInv'
  <2>1. CASE o \in Reserved /\ s # None /\ set_agent_session_ref(o, s, seq, None)
    <3>1. s \in Session /\ None \in Start
      BY <2>1 DEF Start
    <3>2. QED  BY <2>1, <3>1, SessionReportKeeps
  <2>2. CASE \E st \in Reported : set_hook_authority(o, st, s, seq)
    <3>1. Reported \subseteq AgentState
      BY AuthorityAssumption DEF AgentState
    <3>2. QED  BY <2>2, <3>1, HookReportKeeps
  <2>3. QED  BY <1>4, <2>1, <2>2 DEF HookStateReported
<1>5. ASSUME NEW o \in Owner, NEW seq \in Seq0, NEW s \in Session, NEW start \in Start,
             AgentSessionReported(o, s, seq, start)
      PROVE  AuthorityInv'
  BY <1>5, SessionReportKeeps DEF AgentSessionReported
<1>6. ASSUME NEW o \in Owner, NEW seq \in Seq0, HookAgentReleased(o, seq)
      PROVE  AuthorityInv'
  BY <1>6, ReleaseKeeps DEF HookAgentReleased
<1>7. ASSUME NEW o \in Owner \cup {None}, NEW seq \in Seq0, clear_hook_authority(o, seq)
      PROVE  AuthorityInv'
  BY <1>7, ClearKeeps
<1>8. CASE PaneProcessExit
  <2> DEFINE agent == IF hook # None /\ KnownAs(hook) # None THEN KnownAs(hook) ELSE detected
  <2>1. agent \in Agent \cup {None}
    BY HookFields, AuthorityAssumption DEF KnownAs, AuthorityInv, AuthorityTypeOK
  <2>2. set_detected_state(agent, "Idle", FALSE, TRUE, clock)
    BY <1>8 DEF PaneProcessExit
  <2>3. "Idle" \in AgentState
    BY DEF AgentState
  <2> HIDE DEF agent
  <2>4. QED  BY <1>1, <2>1, <2>2, <2>3, DetectedKeeps
<1>9. CASE Respawn
  BY <1>9, RespawnKeeps
<1>10. CASE UNCHANGED authorityVars
  BY <1>10, NothingDone DEF authorityVars, AuthorityInv, AuthorityTypeOK
<1>11. QED  BY <1>2, <1>3, <1>4, <1>5, <1>6, <1>7, <1>8, <1>9, <1>10 DEF AuthorityNext

LEMMA AuthorityInvHolds == AuthoritySpec => []AuthorityInv
<1>1. QED  BY AuthorityInitHolds, AuthorityNextKeeps, PTL DEF AuthoritySpec

(***************************************************************************)
(* terminal/state.rs: the terminal only ever holds values of their types.   *)
(***************************************************************************)
THEOREM AuthorityTypeHolds == AuthoritySpec => []AuthorityTypeOK
<1>1. AuthorityInv => AuthorityTypeOK
  BY DEF AuthorityInv
<1>2. QED  BY <1>1, AuthorityInvHolds, PTL

(***************************************************************************)
(* terminal/state.rs, set_detected_state: no hook speaks for an agent the   *)
(* foreground process, seen after its last report, contradicts.             *)
(***************************************************************************)
THEOREM ForegroundAgreesHolds == AuthoritySpec => []ForegroundAgrees
<1>1. AuthorityInv => ForegroundAgrees
  BY DEF AuthorityInv
<1>2. QED  BY <1>1, AuthorityInvHolds, PTL

(***************************************************************************)
(* terminal/state.rs, current_session_identity_for_persistence: the session *)
(* kept for resuming and the live authority's have one owner.               *)
(***************************************************************************)
THEOREM OneIdentityHolds == AuthoritySpec => []OneIdentity
<1>1. AuthorityInv => OneIdentity
  BY DEF AuthorityInv
<1>2. QED  BY <1>1, AuthorityInvHolds, PTL

(***************************************************************************)
(* terminal/state.rs, suppress_current_full_lifecycle_hook_authority: a     *)
(* session whose authority ended stays barred until it is resumed, unless   *)
(* a release without an authority writes over its suppression.              *)
(***************************************************************************)
THEOREM EndedIsBarredHolds == AuthoritySpec => []EndedIsBarred
<1>1. AuthorityInv => EndedIsBarred
  BY DEF AuthorityInv
<1>2. QED  BY <1>1, AuthorityInvHolds, PTL

-----------------------------------------------------------------------------
(***************************************************************************)
(* PortRegistry: the leases on loopback ports.  RegistryLoads holds even    *)
(* when two runtimes are inside the lock at once (see PortsNotShared):      *)
(* every section writes a change of a registry that was read as a whole.    *)
(***************************************************************************)
Lease == [id: Nat, request: Request \cup {None}, port: Port, owner: Runtime, service: Nat \cup {None}]

TaskStage == {"idle", "try", "created", "stale", "held", "loaded", "unlock", "prepared", "spawn",
              "health", "terminate", "inspected"}
Section == {None, "reserve", "bind", "list", "preview", "clean", "release"}

Task == [do: {None, "start", "stop", "cleanup"}, request: Request \cup {None}, at: Nat,
         stage: TaskStage, section: Section, ok: BOOLEAN, loaded: SUBSET Lease,
         lease: Lease \cup {None}, target: Nat \cup {None}, inspected: SUBSET Nat]

PortsTypeOK ==
  /\ starts \in Nat /\ registry \subseteq Lease /\ task \in [Runtime -> Task]
  /\ \E S : service \in Seq(S)

\* A registry load_registry accepts.
Loads(leases) ==
  \A l, m \in leases : l # m => l.id # m.id /\ l.port # m.port /\ l.request # m.request

\* A start that may still acquire a lease under its number.
IsFresh(x) == x.section = "reserve" /\ x.stage \in {"try", "created", "stale", "held", "loaded"}

\* All leases that are in the file or that some runtime has read.
AllLeases == registry \cup UNION {task[t].loaded : t \in Runtime}

\* Lease ids are numbers of starts, and those of the starts that may still
\* acquire one are not used and differ.
IdsInv ==
  /\ \A l \in AllLeases : l.id <= starts
  /\ \A t \in Runtime : IsFresh(task[t]) =>
       /\ task[t].at <= starts
       /\ \A l \in AllLeases : l.id # task[t].at
       /\ \A u \in Runtime \ {t} : IsFresh(task[u]) => task[u].at # task[t].at

RegistryInv ==
  /\ PortsTypeOK /\ IdsInv /\ RegistryLoads
  /\ \A t \in Runtime : Loads(task[t].loaded)

-----------------------------------------------------------------------------
\* Every nonempty set of naturals has a least element.
LEMMA LeastExists ==
  ASSUME NEW S, S \subseteq Nat, S # {}
  PROVE  \E x \in S : \A y \in S : x <= y
<1> DEFINE R == OpToRel(<, Nat)
<1>1. IsWellFoundedOn(R, Nat)
  BY NatLessThanWellFounded
<1>2. \A x, y \in Nat : y < x => <<y, x>> \in R
  BY DEF OpToRel
<1> HIDE DEF R
<1>3. PICK x \in S : \A y \in S : ~(<<y, x>> \in R)
  BY <1>1, WFMin
<1>4. ASSUME NEW y \in S PROVE x <= y
  <2>1. x \in Nat /\ y \in Nat /\ ~(y < x)
    BY <1>2, <1>3
  <2>2. QED  BY <2>1
<1>5. QED  BY <1>4

LEMMA MinIn ==
  ASSUME NEW S, S \subseteq Nat, S # {}
  PROVE  Min(S) \in S
BY LeastExists DEF Min

LEMMA IdleFacts == Idle \in Task /\ ~IsFresh(Idle) /\ Idle.loaded = {}
BY DEF Idle, Task, TaskStage, Section, IsFresh

\* Going on to another section or stage changes nothing else.
LEMMA EnterFacts ==
  ASSUME NEW x \in Task, NEW s \in Section
  PROVE  /\ Enter(x, s) \in Task /\ Enter(x, s).loaded = x.loaded
         /\ Enter(x, s).section = s /\ Enter(x, s).at = x.at
BY DEF Enter, Task, TaskStage

LEMMA StageFacts ==
  ASSUME NEW x \in Task, NEW s \in TaskStage
  PROVE  /\ Stage(x, s) \in Task /\ Stage(x, s).loaded = x.loaded
         /\ Stage(x, s).section = x.section /\ Stage(x, s).at = x.at /\ Stage(x, s).stage = s
BY DEF Stage, Task

\* After a section an operation does not acquire a lease any more.
LEMMA ThenFacts ==
  ASSUME NEW x \in Task
  PROVE  Then(x) \in Task /\ ~IsFresh(Then(x)) /\ Then(x).loaded \subseteq x.loaded
<1>1. \A s \in {"health", "prepared", "terminate", "inspected"} :
        /\ s \in TaskStage
        /\ Stage(x, s) \in Task /\ ~IsFresh(Stage(x, s)) /\ Stage(x, s).loaded = x.loaded
  <2> SUFFICES ASSUME NEW s \in {"health", "prepared", "terminate", "inspected"}
               PROVE  /\ s \in TaskStage
                      /\ Stage(x, s) \in Task /\ ~IsFresh(Stage(x, s)) /\ Stage(x, s).loaded = x.loaded
    OBVIOUS
  <2>1. s \in TaskStage
    BY DEF TaskStage
  <2>2. QED  BY <2>1, StageFacts DEF IsFresh
<1>2. \/ Then(x) = Idle
      \/ \E s \in {"health", "prepared", "terminate", "inspected"} : Then(x) = Stage(x, s)
  BY DEF Then
<1>3. QED  BY <1>1, <1>2, IdleFacts

(***************************************************************************)
(* A step of runtime t that leaves the file and the number of starts alone  *)
(* and reads at most the file.                                              *)
(***************************************************************************)
LEMMA TaskKeeps ==
  ASSUME RegistryInv, NEW t \in Runtime, NEW x \in Task,
         task' = [task EXCEPT ![t] = x], UNCHANGED <<registry, starts>>,
         x.loaded \subseteq task[t].loaded \/ x.loaded = registry,
         IsFresh(x) => IsFresh(task[t]) /\ x.at = task[t].at,
         \E S : service' \in Seq(S)
  PROVE  RegistryInv'
<1> USE DEF RegistryInv
<1>1. /\ task'[t] = x /\ \A u \in Runtime : u # t => task'[u] = task[u]
      /\ task' \in [Runtime -> Task]
  BY DEF PortsTypeOK
<1>2. PortsTypeOK'
  BY <1>1 DEF PortsTypeOK
<1>3. AllLeases' \subseteq AllLeases
  BY <1>1 DEF AllLeases
<1>4. IdsInv'
  <2>1. \A u \in Runtime : IsFresh(task'[u]) => IsFresh(task[u]) /\ task'[u].at = task[u].at
    BY <1>1
  <2>2. QED  BY <1>3, <2>1 DEF IdsInv
<1>5. RegistryLoads'
  BY DEF RegistryLoads
<1>6. \A u \in Runtime : Loads(task'[u].loaded)
  <2>1. Loads(x.loaded)
    BY DEF Loads, RegistryLoads
  <2>2. QED  BY <1>1, <2>1
<1>7. QED  BY <1>2, <1>4, <1>5, <1>6

(***************************************************************************)
(* A section of runtime t that replaces the file.  The new leases are       *)
(* leases t had read, under the same id, or one with the number of its      *)
(* start.                                                                   *)
(***************************************************************************)
LEMMA WriteKeeps ==
  ASSUME RegistryInv, NEW t \in Runtime, NEW x \in Task,
         task' = [task EXCEPT ![t] = x], UNCHANGED starts,
         x.loaded = task[t].loaded, ~IsFresh(x),
         registry' \subseteq Lease, Loads(registry'),
         \A l \in registry' : \/ \E m \in AllLeases : m.id = l.id
                              \/ IsFresh(task[t]) /\ l.id = task[t].at,
         \E S : service' \in Seq(S)
  PROVE  RegistryInv'
<1> USE DEF RegistryInv
<1>1. /\ task'[t] = x /\ \A u \in Runtime : u # t => task'[u] = task[u]
      /\ task' \in [Runtime -> Task]
  BY DEF PortsTypeOK
<1>2. PortsTypeOK'
  BY <1>1 DEF PortsTypeOK
<1>3. \A l \in AllLeases' : \/ \E m \in AllLeases : m.id = l.id
                            \/ IsFresh(task[t]) /\ l.id = task[t].at
  BY <1>1 DEF AllLeases
<1>4. IdsInv'
  <2>1. \A u \in Runtime : IsFresh(task'[u]) => u # t /\ IsFresh(task[u]) /\ task'[u] = task[u]
    BY <1>1
  <2>2. \A l \in AllLeases' : l.id <= starts
    BY <1>3 DEF IdsInv
  <2>3. ASSUME NEW u \in Runtime, IsFresh(task'[u]), NEW l \in AllLeases'
        PROVE  l.id # task'[u].at
    BY <1>3, <2>1, <2>3 DEF IdsInv
  <2>4. QED  BY <2>1, <2>2, <2>3 DEF IdsInv
<1>5. RegistryLoads'
  BY DEF RegistryLoads, Loads
<1>6. \A u \in Runtime : Loads(task'[u].loaded)
  BY <1>1
<1>7. QED  BY <1>2, <1>4, <1>5, <1>6

\* Leases of a loaded registry may be exchanged for others of the same id,
\* port and request.
LEMMA Exchanged ==
  ASSUME NEW R, Loads(R), NEW Q,
         \A l \in Q : \E m \in R : l.id = m.id /\ l.port = m.port /\ l.request = m.request,
         \A l, k \in Q : l.id = k.id => l = k
  PROVE  Loads(Q)
BY DEF Loads

LEMMA LeaseFields ==
  ASSUME NEW l \in Lease
  PROVE  /\ l.id \in Nat /\ l.request \in Request \cup {None} /\ l.port \in Port
         /\ l.owner \in Runtime /\ l.service \in Nat \cup {None}
BY DEF Lease

LEMMA TaskFields ==
  ASSUME RegistryInv, NEW t \in Runtime
  PROVE  /\ task[t] \in Task /\ task[t].loaded \subseteq Lease /\ task[t].at \in Nat
         /\ task[t].request \in Request \cup {None}
         /\ task[t].lease \in Lease \cup {None} /\ task[t].target \in Nat \cup {None}
         /\ task[t].loaded \subseteq AllLeases /\ Loads(task[t].loaded)
<1>1. task[t] \in Task
  BY DEF RegistryInv, PortsTypeOK
<1>2. QED  BY <1>1 DEF RegistryInv, AllLeases, Task

\* Ending or changing a service process keeps the list of them a list.
LEMMA ServiceChanged ==
  ASSUME RegistryInv, NEW k \in DOMAIN service, NEW s
  PROVE  \E S : [service EXCEPT ![k].state = s] \in Seq(S)
<1>1. PICK S : service \in Seq(S)
  BY DEF RegistryInv, PortsTypeOK
<1> DEFINE y == [service[k] EXCEPT !.state = s]
<1>2. [service EXCEPT ![k].state = s] = [service EXCEPT ![k] = y]
  OBVIOUS
<1> HIDE DEF y
<1>3. [service EXCEPT ![k] = y] \in Seq(S \cup {y})
  BY <1>1
<1>4. QED  BY <1>2, <1>3

LEMMA ServiceMapped ==
  ASSUME RegistryInv, NEW f, DOMAIN f = DOMAIN service, f = [k \in DOMAIN f |-> f[k]]
  PROVE  \E S : f \in Seq(S)
<1>1. PICK S : service \in Seq(S)
  BY DEF RegistryInv, PortsTypeOK
<1>2. Len(service) \in Nat /\ DOMAIN f = 1..Len(service)
  BY <1>1
<1> DEFINE T == {f[k] : k \in DOMAIN f}
<1>3. f \in [1..Len(service) -> T]
  BY <1>2
<1> HIDE DEF T
<1>4. f \in Seq(T)
  BY <1>2, <1>3
<1>5. QED  BY <1>4

-----------------------------------------------------------------------------
LEMMA PortsInitHolds == PortsInit => RegistryInv
<1> SUFFICES ASSUME PortsInit PROVE RegistryInv
  OBVIOUS
<1> USE DEF PortsInit
<1>1. \A t \in Runtime : task[t] = Idle
  OBVIOUS
<1>2. PortsTypeOK
  <2>1. service \in Seq({})
    OBVIOUS
  <2>2. QED  BY <1>1, <2>1, IdleFacts DEF PortsTypeOK
<1>3. AllLeases = {}
  BY <1>1, IdleFacts DEF AllLeases
<1>4. IdsInv
  BY <1>1, <1>3, IdleFacts DEF IdsInv
<1>5. RegistryLoads /\ \A t \in Runtime : Loads(task[t].loaded)
  BY <1>1, IdleFacts DEF RegistryLoads, Loads
<1>6. QED  BY <1>2, <1>4, <1>5 DEF RegistryInv

\* A start takes the next number: no lease has it, no other start has it.
LEMMA StartKeeps ==
  ASSUME RegistryInv, NEW t \in Runtime, NEW r \in Request, StartService(t, r)
  PROVE  RegistryInv'
<1> USE DEF RegistryInv
<1> DEFINE y == [Idle EXCEPT !.do = "start", !.request = r, !.at = starts + 1]
           x == Enter(y, "reserve")
<1>1. starts \in Nat /\ starts' = starts + 1 /\ UNCHANGED <<registry, service>>
  BY DEF StartService, PortsTypeOK
<1>2. y \in Task /\ y.at = starts + 1 /\ y.loaded = {}
  <2>1. starts + 1 \in Nat
    BY <1>1
  <2>2. QED  BY <2>1, IdleFacts DEF Task
<1>3. "reserve" \in Section
  BY DEF Section
<1>4. task' = [task EXCEPT ![t] = x]
  BY DEF StartService
<1> HIDE DEF y
<1>5. x \in Task /\ x.at = starts + 1 /\ x.loaded = {}
  BY <1>2, <1>3, EnterFacts
<1> HIDE DEF x
<1>6. /\ task'[t] = x /\ \A u \in Runtime : u # t => task'[u] = task[u]
      /\ task' \in [Runtime -> Task]
  BY <1>4, <1>5 DEF PortsTypeOK
<1>7. AllLeases' \subseteq AllLeases
  BY <1>1, <1>5, <1>6 DEF AllLeases
<1>8. \A l \in AllLeases : l.id \in Nat
  BY TaskFields, LeaseFields DEF AllLeases, PortsTypeOK
<1>9. \A l \in AllLeases' : l.id <= starts /\ l.id <= starts' /\ l.id # starts'
  BY <1>1, <1>7, <1>8 DEF IdsInv
<1>10. \A u \in Runtime : u # t /\ IsFresh(task[u])
         => /\ task[u].at <= starts /\ task[u].at <= starts' /\ task[u].at # starts'
            /\ \A l \in AllLeases : l.id # task[u].at
  BY <1>1, TaskFields DEF IdsInv
<1>11. IdsInv'
  <2>1. ASSUME NEW u \in Runtime, IsFresh(task'[u])
        PROVE  /\ task'[u].at <= starts'
               /\ \A l \in AllLeases' : l.id # task'[u].at
               /\ \A v \in Runtime \ {u} : IsFresh(task'[v]) => task'[v].at # task'[u].at
    <3>1. CASE u = t
      BY <1>1, <1>5, <1>6, <1>9, <1>10, <3>1
    <3>2. CASE u # t
      BY <1>1, <1>5, <1>6, <1>7, <1>10, <2>1, <3>2 DEF IdsInv
    <3>3. QED  BY <3>1, <3>2
  <2>2. QED  BY <1>9, <2>1 DEF IdsInv
<1>12. PortsTypeOK'
  BY <1>1, <1>6 DEF PortsTypeOK
<1>13. RegistryLoads' /\ \A u \in Runtime : Loads(task'[u].loaded)
  BY <1>1, <1>5, <1>6 DEF RegistryLoads, Loads
<1>14. QED  BY <1>11, <1>12, <1>13

\* The other operations begin in a section of their own.
LEMMA BeginKeeps ==
  ASSUME RegistryInv, NEW t \in Runtime, task[t] = Idle,
         NEW y \in Task, y.loaded = {}, NEW s \in {"list", "preview"},
         task' = [task EXCEPT ![t] = Enter(y, s)], UNCHANGED <<registry, starts, service>>
  PROVE  RegistryInv'
<1>1. s \in Section /\ s # "reserve"
  BY DEF Section
<1>2. Enter(y, s) \in Task /\ ~IsFresh(Enter(y, s)) /\ Enter(y, s).loaded = {}
  BY <1>1, EnterFacts DEF IsFresh
<1>3. QED  BY <1>2, TaskKeeps DEF RegistryInv, PortsTypeOK

LEMMA StopKeeps ==
  ASSUME RegistryInv, NEW t \in Runtime, NEW r \in Request, StopOwner(t, r)
  PROVE  RegistryInv'
<1> DEFINE y == [Idle EXCEPT !.do = "stop", !.request = r]
<1>1. y \in Task /\ y.loaded = {}
  BY DEF Idle, Task, TaskStage, Section
<1>2. task' = [task EXCEPT ![t] = Enter(y, "list")]
  BY DEF StopOwner
<1> HIDE DEF y
<1>3. QED  BY <1>1, <1>2, BeginKeeps DEF StopOwner

LEMMA PreviewKeeps ==
  ASSUME RegistryInv, NEW t \in Runtime, Preview(t)
  PROVE  RegistryInv'
<1> DEFINE y == [Idle EXCEPT !.do = "cleanup"]
<1>1. y \in Task /\ y.loaded = {}
  BY DEF Idle, Task, TaskStage, Section
<1>2. task' = [task EXCEPT ![t] = Enter(y, "preview")]
  BY DEF Preview
<1> HIDE DEF y
<1>3. QED  BY <1>1, <1>2, BeginKeeps DEF Preview

\* A step from stage to stage inside an operation.
LEMMA StageKeeps ==
  ASSUME RegistryInv, NEW t \in Runtime, NEW s \in TaskStage,
         task' = [task EXCEPT ![t] = Stage(@, s)], UNCHANGED <<registry, starts>>,
         \E S : service' \in Seq(S),
         IsFresh(Stage(task[t], s)) => IsFresh(task[t])
  PROVE  RegistryInv'
<1>1. task' = [task EXCEPT ![t] = Stage(task[t], s)]
  BY DEF RegistryInv, PortsTypeOK
<1>2. Stage(task[t], s) \in Task /\ Stage(task[t], s).loaded = task[t].loaded
      /\ Stage(task[t], s).at = task[t].at
  BY TaskFields, StageFacts
<1>3. QED  BY <1>1, <1>2, TaskKeeps

\* The lock file: what becomes of it is not what RegistryLoads rests on.
LEMMA LockKeeps ==
  ASSUME RegistryInv, NEW t \in Runtime,
         CreateLock(t) \/ WriteLock(t) \/ FindStale(t) \/ RemoveStale(t)
  PROVE  RegistryInv'
<1>1. {"created", "held", "stale", "try"} \subseteq TaskStage
  BY DEF TaskStage
<1>2. task[t].stage \in {"try", "created", "stale"}
  BY DEF CreateLock, WriteLock, FindStale, RemoveStale
<1>3. PICK s \in {"created", "held", "stale", "try"} : task' = [task EXCEPT ![t] = Stage(@, s)]
  BY DEF CreateLock, WriteLock, FindStale, RemoveStale
<1>4. UNCHANGED <<registry, starts, service>>
  BY DEF CreateLock, WriteLock, FindStale, RemoveStale
<1>5. s \in TaskStage
  BY <1>1
<1>6. IsFresh(Stage(task[t], s)) => IsFresh(task[t])
  BY <1>2, <1>5, TaskFields, StageFacts DEF IsFresh
<1>7. QED  BY <1>3, <1>4, <1>5, <1>6, StageKeeps DEF RegistryInv, PortsTypeOK

LEMMA LockFailsKeeps ==
  ASSUME RegistryInv, NEW t \in Runtime, WriteLockFails(t) \/ LockFails(t)
  PROVE  RegistryInv'
<1> DEFINE y == [task[t] EXCEPT !.ok = FALSE]
<1>1. task' = [task EXCEPT ![t] = Then(y)] /\ UNCHANGED <<registry, starts, service>>
  BY DEF WriteLockFails, LockFails, RegistryInv, PortsTypeOK
<1>2. y \in Task /\ y.loaded = task[t].loaded
  BY TaskFields DEF Task
<1> HIDE DEF y
<1>3. QED  BY <1>1, <1>2, ThenFacts, TaskKeeps DEF RegistryInv, PortsTypeOK

LEMMA LoadKeeps ==
  ASSUME RegistryInv, NEW t \in Runtime, load_registry(t)
  PROVE  RegistryInv'
<1> DEFINE y == [task[t] EXCEPT !.loaded = registry, !.stage = "loaded"]
<1>1. task' = [task EXCEPT ![t] = y] /\ UNCHANGED <<registry, starts, service>>
  BY DEF load_registry, RegistryInv, PortsTypeOK
<1>2. /\ y \in Task /\ y.loaded = registry /\ y.section = task[t].section /\ y.at = task[t].at
      /\ y.stage = "loaded"
  BY ZenonT(40), TaskFields DEF Task, TaskStage, RegistryInv, PortsTypeOK
<1>3. IsFresh(y) => IsFresh(task[t])
  BY <1>2 DEF IsFresh, load_registry
<1> HIDE DEF y
<1>4. QED  BY <1>1, <1>2, <1>3, TaskKeeps DEF RegistryInv, PortsTypeOK

LEMMA UnlockKeeps ==
  ASSUME RegistryInv, NEW t \in Runtime, Unlock(t)
  PROVE  RegistryInv'
<1> DEFINE y == [task[t] EXCEPT !.loaded = {}]
<1>1. task' = [task EXCEPT ![t] = Then(y)] /\ UNCHANGED <<registry, starts, service>>
  BY DEF Unlock, RegistryInv, PortsTypeOK
<1>2. y \in Task /\ y.loaded = {}
  BY TaskFields DEF Task
<1> HIDE DEF y
<1>3. QED  BY <1>1, <1>2, ThenFacts, TaskKeeps DEF RegistryInv, PortsTypeOK

-----------------------------------------------------------------------------
\* The end of a section: what it records in the task, and the lock is next.
SectionEnd(t, x) == x \in Task /\ x.loaded = task[t].loaded /\ x.stage = "unlock"

LEMMA EndIsNotFresh ==
  ASSUME NEW t, NEW x, SectionEnd(t, x)
  PROVE  ~IsFresh(x)
BY DEF SectionEnd, IsFresh

\* Adopting a lease, or binding its port again, gives it another owner.
LEMMA ReownKeeps ==
  ASSUME RegistryInv, NEW t \in Runtime, NEW l \in Mine(t), NEW n \in Lease, NEW x,
         SectionEnd(t, x), task' = [task EXCEPT ![t] = x],
         n.id = l.id, n.port = l.port, n.request = l.request,
         registry' = (task[t].loaded \ {l}) \cup {n}, UNCHANGED <<starts, service>>
  PROVE  RegistryInv'
<1> DEFINE R == task[t].loaded
<1>1. l \in R /\ R \subseteq Lease /\ R \subseteq AllLeases /\ Loads(R)
  BY TaskFields DEF Mine
<1>2. registry' = (R \ {l}) \cup {n}
  OBVIOUS
<1> HIDE DEF R
<1>3. \A k \in registry' : \E m \in R : k.id = m.id /\ k.port = m.port /\ k.request = m.request
  BY <1>1, <1>2
<1>4. \A k, m \in registry' : k.id = m.id => k = m
  BY <1>1, <1>2 DEF Loads
<1>5. Loads(registry')
  BY <1>1, <1>3, <1>4, Exchanged
<1>6. registry' \subseteq Lease /\ \A k \in registry' : \E m \in AllLeases : m.id = k.id
  BY <1>1, <1>2, <1>3
<1>7. x \in Task /\ x.loaded = task[t].loaded /\ ~IsFresh(x)
  BY EndIsNotFresh DEF SectionEnd
<1>8. QED  BY <1>5, <1>6, <1>7, WriteKeeps DEF RegistryInv, PortsTypeOK

LEMMA AdoptKeeps ==
  ASSUME RegistryInv, NEW t \in Runtime, NEW l \in Mine(t), Adopt(t, l), UNCHANGED <<starts, service>>
  PROVE  RegistryInv'
<1> DEFINE x == [task[t] EXCEPT !.lease = l, !.target = l.service, !.stage = "unlock"]
           n == [l EXCEPT !.owner = t]
<1>1. l \in Lease
  BY TaskFields DEF Mine
<1>2. task' = [task EXCEPT ![t] = x] /\ registry' = (task[t].loaded \ {l}) \cup {n}
  BY DEF Adopt, RegistryInv, PortsTypeOK
<1>3. l.service \in Nat \cup {None}
  BY <1>1, LeaseFields
<1>4. SectionEnd(t, x)
  BY ZenonT(40), <1>1, <1>3, TaskFields DEF SectionEnd, Task, TaskStage
<1>5. n \in Lease /\ n.id = l.id /\ n.port = l.port /\ n.request = l.request
  BY <1>1 DEF Lease
<1> HIDE DEF x, n
<1>6. QED  BY <1>2, <1>4, <1>5, ReownKeeps

LEMMA RebindKeeps ==
  ASSUME RegistryInv, NEW t \in Runtime, NEW l \in Mine(t), Rebind(t, l), UNCHANGED <<starts, service>>
  PROVE  RegistryInv'
<1> DEFINE x == [task[t] EXCEPT !.lease = l, !.stage = "unlock"]
           n == [l EXCEPT !.owner = t, !.service = None]
<1>1. l \in Lease
  BY TaskFields DEF Mine
<1>2. task' = [task EXCEPT ![t] = x] /\ registry' = (task[t].loaded \ {l}) \cup {n}
  BY DEF Rebind, RegistryInv, PortsTypeOK
<1>3. SectionEnd(t, x)
  BY <1>1, TaskFields DEF SectionEnd, Task, TaskStage
<1>4. n \in Lease /\ n.id = l.id /\ n.port = l.port /\ n.request = l.request
  BY <1>1 DEF Lease
<1> HIDE DEF x, n
<1>5. QED  BY <1>2, <1>3, <1>4, ReownKeeps

\* A new lease: its request has none, its port is selected among those no
\* lease names, and its id is the number of the start.
LEMMA AcquireKeeps ==
  ASSUME RegistryInv, NEW t \in Runtime, In(t, "reserve"), Acquire(t), UNCHANGED <<starts, service>>
  PROVE  RegistryInv'
<1> DEFINE p == Min(Selectable(t))
           l == [id |-> task[t].at, request |-> task[t].request, port |-> p, owner |-> t,
                 service |-> None]
           x == [task[t] EXCEPT !.lease = l, !.stage = "unlock"]
           R == task[t].loaded
<1>1. /\ Mine(t) = {} /\ Selectable(t) # {}
      /\ registry' = R \cup {l} /\ task' = [task EXCEPT ![t] = x]
  BY DEF Acquire, RegistryInv, PortsTypeOK
<1>2. p \in Port \ Occupied(R)
  <2>1. Selectable(t) \subseteq Nat
    BY DEF Selectable, Port
  <2>2. QED  BY <1>1, <2>1, MinIn DEF Selectable
<1> HIDE DEF p
<1>3. l \in Lease /\ l.id = task[t].at /\ l.port = p /\ l.request = task[t].request
  BY <1>2, TaskFields DEF Lease
<1> HIDE DEF l
<1>4. SectionEnd(t, x)
  BY ZenonT(40), <1>3, TaskFields DEF SectionEnd, Task, TaskStage
<1> HIDE DEF x
<1>5. IsFresh(task[t])
  BY DEF IsFresh, In
<1>6. R \subseteq Lease /\ R \subseteq AllLeases /\ Loads(R)
  BY TaskFields
<1>7. \A m \in R : m.id # l.id /\ m.port # l.port /\ m.request # l.request
  <2> SUFFICES ASSUME NEW m \in R PROVE m.id # l.id /\ m.port # l.port /\ m.request # l.request
    OBVIOUS
  <2>1. m.id # l.id
    BY <1>3, <1>5, <1>6 DEF RegistryInv, IdsInv
  <2>2. m.port # l.port
    BY <1>2, <1>3 DEF Occupied
  <2>3. m.request # l.request
    BY <1>1, <1>3 DEF Mine
  <2>4. QED  BY <2>1, <2>2, <2>3
<1> HIDE DEF R
<1>8. Loads(registry') /\ registry' \subseteq Lease
  BY <1>1, <1>3, <1>6, <1>7 DEF Loads
<1>9. \A k \in registry' : \/ \E m \in AllLeases : m.id = k.id
                           \/ IsFresh(task[t]) /\ k.id = task[t].at
  BY <1>1, <1>3, <1>5, <1>6
<1>10. x \in Task /\ x.loaded = task[t].loaded /\ ~IsFresh(x)
  BY <1>4, EndIsNotFresh DEF SectionEnd
<1>11. QED  BY <1>1, <1>8, <1>9, <1>10, WriteKeeps DEF RegistryInv, PortsTypeOK

\* A section that refuses, or fails to read or replace the file.
LEMMA RefuseKeeps ==
  ASSUME RegistryInv, NEW t \in Runtime, Refuse(t), UNCHANGED <<registry, starts, service>>
  PROVE  RegistryInv'
<1> DEFINE x == [task[t] EXCEPT !.ok = FALSE, !.stage = "unlock"]
<1>1. task' = [task EXCEPT ![t] = x]
  BY DEF Refuse, RegistryInv, PortsTypeOK
<1>2. SectionEnd(t, x)
  BY TaskFields DEF SectionEnd, Task, TaskStage
<1> HIDE DEF x
<1>3. x \in Task /\ x.loaded = task[t].loaded /\ ~IsFresh(x)
  BY <1>2, EndIsNotFresh DEF SectionEnd
<1>4. QED  BY <1>1, <1>3, TaskKeeps DEF RegistryInv, PortsTypeOK

LEMMA ReserveKeeps ==
  ASSUME RegistryInv, NEW t \in Runtime, reserve(t)
  PROVE  RegistryInv'
<1>1. In(t, "reserve") /\ UNCHANGED <<starts, service>>
  BY DEF reserve
<1>2. CASE \E l \in Mine(t) : Adopt(t, l)
  BY <1>1, <1>2, AdoptKeeps
<1>3. CASE \E l \in Mine(t) : Rebind(t, l)
  BY <1>1, <1>3, RebindKeeps
<1>4. CASE Acquire(t)
  BY <1>1, <1>4, AcquireKeeps
<1>5. CASE ReserveRefused(t)
  BY <1>1, <1>5, RefuseKeeps DEF ReserveRefused
<1>6. QED  BY <1>2, <1>3, <1>4, <1>5 DEF reserve

LEMMA BindKeeps ==
  ASSUME RegistryInv, NEW t \in Runtime, bind_service_process(t)
  PROVE  RegistryInv'
<1> DEFINE R == task[t].loaded
           k == task[t].target
           found == {l \in R : l.id = task[t].lease.id /\ l.owner = t}
           x == [task[t] EXCEPT !.ok = (found # {}), !.stage = "unlock"]
<1>1. /\ registry' = IF found = {} THEN registry
                     ELSE (R \ found) \cup {[l EXCEPT !.service = k] : l \in found}
      /\ task' = [task EXCEPT ![t] = x]
      /\ UNCHANGED <<starts, service>>
  BY DEF bind_service_process, RegistryInv, PortsTypeOK
<1>2. SectionEnd(t, x)
  BY ZenonT(40), TaskFields DEF SectionEnd, Task, TaskStage
<1>3. k \in Nat \cup {None} /\ R \subseteq Lease /\ R \subseteq AllLeases /\ Loads(R)
  BY TaskFields
<1>4. found \subseteq R
  OBVIOUS
<1> HIDE DEF x, found, R, k
<1>5. x \in Task /\ x.loaded = task[t].loaded /\ ~IsFresh(x)
  BY <1>2, EndIsNotFresh DEF SectionEnd
<1>6. CASE found = {}
  BY <1>1, <1>5, <1>6, TaskKeeps DEF RegistryInv, PortsTypeOK
<1>7. CASE found # {}
  <2>1. \A l \in Lease : /\ [l EXCEPT !.service = k] \in Lease
                         /\ [l EXCEPT !.service = k].id = l.id
                         /\ [l EXCEPT !.service = k].port = l.port
                         /\ [l EXCEPT !.service = k].request = l.request
    BY <1>3 DEF Lease
  <2>2. registry' = (R \ found) \cup {[l EXCEPT !.service = k] : l \in found}
    BY <1>1, <1>7
  <2>3. ASSUME NEW l \in registry'
        PROVE  \E m \in R : /\ l = IF m \in found THEN [m EXCEPT !.service = k] ELSE m
                            /\ l.id = m.id /\ l.port = m.port /\ l.request = m.request
    <3>1. CASE l \in R \ found
      BY <3>1
    <3>2. CASE l \in {[m EXCEPT !.service = k] : m \in found}
      <4>1. PICK m \in found : l = [m EXCEPT !.service = k]
        BY <3>2
      <4>2. m \in R /\ m \in Lease
        BY <1>3, <1>4
      <4>3. l.id = m.id /\ l.port = m.port /\ l.request = m.request
        BY <2>1, <4>1, <4>2
      <4>4. QED  BY <4>1, <4>2, <4>3
    <3>3. QED  BY <2>2, <3>1, <3>2
  <2>4. ASSUME NEW l \in registry', NEW m \in registry', l.id = m.id PROVE l = m
    <3>1. PICK l0 \in R : /\ l0.id = l.id
                          /\ l = IF l0 \in found THEN [l0 EXCEPT !.service = k] ELSE l0
      BY <2>3
    <3>2. PICK m0 \in R : /\ m0.id = m.id
                          /\ m = IF m0 \in found THEN [m0 EXCEPT !.service = k] ELSE m0
      BY <2>3
    <3>3. l0 = m0
      BY <1>3, <2>4, <3>1, <3>2 DEF Loads
    <3>4. QED  BY <3>1, <3>2, <3>3
  <2>5. Loads(registry')
    BY <1>3, <2>3, <2>4, Exchanged
  <2>6. registry' \subseteq Lease /\ \A l \in registry' : \E m \in AllLeases : m.id = l.id
    BY <1>3, <1>4, <2>1, <2>2, <2>3
  <2>7. QED  BY <1>1, <1>5, <2>5, <2>6, WriteKeeps DEF RegistryInv, PortsTypeOK
<1>8. QED  BY <1>6, <1>7

\* A section that only removes leases.
LEMMA RemoveKeeps ==
  ASSUME RegistryInv, NEW t \in Runtime, registry' \subseteq task[t].loaded,
         task' = [task EXCEPT ![t].stage = "unlock"], UNCHANGED <<starts, service>>
  PROVE  RegistryInv'
<1> DEFINE x == [task[t] EXCEPT !.stage = "unlock"]
<1>1. task' = [task EXCEPT ![t] = x]
  BY DEF RegistryInv, PortsTypeOK
<1>2. SectionEnd(t, x)
  BY TaskFields DEF SectionEnd, Task, TaskStage
<1> HIDE DEF x
<1>3. x \in Task /\ x.loaded = task[t].loaded /\ ~IsFresh(x)
  BY <1>2, EndIsNotFresh DEF SectionEnd
<1>4. Loads(registry') /\ registry' \subseteq Lease /\ registry' \subseteq AllLeases
  BY TaskFields DEF Loads
<1>5. QED  BY <1>1, <1>3, <1>4, WriteKeeps DEF RegistryInv, PortsTypeOK

LEMMA ListKeeps ==
  ASSUME RegistryInv, NEW t \in Runtime, leases_for_owner(t)
  PROVE  RegistryInv'
<1> DEFINE a == IF Mine(t) = {} THEN None ELSE CHOOSE l \in Mine(t) : TRUE
           b == IF Mine(t) = {} THEN None ELSE (CHOOSE l \in Mine(t) : TRUE).service
           x == [task[t] EXCEPT !.stage = "unlock", !.lease = a, !.target = b]
<1>1. task' = [task EXCEPT ![t] = x] /\ UNCHANGED <<registry, starts, service>>
  BY DEF leases_for_owner, RegistryInv, PortsTypeOK
<1>2. Mine(t) # {} => (CHOOSE l \in Mine(t) : TRUE) \in Mine(t)
  OBVIOUS
<1>3. Mine(t) \subseteq Lease
  BY TaskFields DEF Mine
<1>4. a \in Lease \cup {None} /\ b \in Nat \cup {None}
  BY <1>2, <1>3, LeaseFields
<1> HIDE DEF a, b
<1>5. SectionEnd(t, x)
  BY ZenonT(40), <1>4, TaskFields DEF SectionEnd, Task, TaskStage
<1> HIDE DEF x
<1>6. x \in Task /\ x.loaded = task[t].loaded /\ ~IsFresh(x)
  BY <1>5, EndIsNotFresh DEF SectionEnd
<1>7. QED  BY <1>1, <1>6, TaskKeeps DEF RegistryInv, PortsTypeOK

LEMMA OrphanedKeeps ==
  ASSUME RegistryInv, NEW t \in Runtime, orphaned(t)
  PROVE  RegistryInv'
<1> DEFINE a == {l.id : l \in {l \in task[t].loaded : Orphan(l)}}
           x == [task[t] EXCEPT !.stage = "unlock", !.inspected = a]
<1>1. task' = [task EXCEPT ![t] = x] /\ UNCHANGED <<registry, starts, service>>
  BY DEF orphaned, RegistryInv, PortsTypeOK
<1>2. a \subseteq Nat
  BY TaskFields, LeaseFields
<1> HIDE DEF a
<1>3. SectionEnd(t, x)
  BY <1>2, TaskFields DEF SectionEnd, Task, TaskStage
<1> HIDE DEF x
<1>4. x \in Task /\ x.loaded = task[t].loaded /\ ~IsFresh(x)
  BY <1>3, EndIsNotFresh DEF SectionEnd
<1>5. QED  BY <1>1, <1>4, TaskKeeps DEF RegistryInv, PortsTypeOK

-----------------------------------------------------------------------------
\* Outside the lock nothing touches the file or what was read of it.
LEMMA OutsideKeeps ==
  ASSUME RegistryInv, NEW t \in Runtime, prepare_service_spawn(t) \/ Unhealthy(t)
  PROVE  RegistryInv'
<1>1. PICK s \in {"spawn", "terminate"} : task' = [task EXCEPT ![t] = Stage(@, s)]
  BY DEF prepare_service_spawn, Unhealthy
<1>2. s \in TaskStage /\ s \notin {"try", "created", "stale", "held", "loaded"}
  BY DEF TaskStage
<1>3. ~IsFresh(Stage(task[t], s))
  BY <1>2, TaskFields, StageFacts DEF IsFresh
<1>4. UNCHANGED <<registry, starts, service>>
  BY DEF prepare_service_spawn, Unhealthy
<1>5. QED  BY <1>1, <1>2, <1>3, <1>4, StageKeeps DEF RegistryInv, PortsTypeOK

\* An operation goes on in another section; it is not the one that acquires.
LEMMA ReenterKeeps ==
  ASSUME RegistryInv, NEW t \in Runtime, NEW y \in Task, y.loaded = task[t].loaded,
         NEW s \in {"bind", "release", "clean"},
         task' = [task EXCEPT ![t] = Enter(y, s)], UNCHANGED <<registry, starts>>,
         \E S : service' \in Seq(S)
  PROVE  RegistryInv'
<1>1. s \in Section /\ s # "reserve"
  BY DEF Section
<1>2. Enter(y, s) \in Task /\ ~IsFresh(Enter(y, s)) /\ Enter(y, s).loaded = task[t].loaded
  BY <1>1, EnterFacts DEF IsFresh
<1>3. QED  BY <1>2, TaskKeeps

LEMMA SpawnKeeps ==
  ASSUME RegistryInv, NEW t \in Runtime, SpawnService(t)
  PROVE  RegistryInv'
<1>1. UNCHANGED <<registry, starts>>
  BY DEF SpawnService
<1>2. CASE task' = [task EXCEPT ![t] = Enter(@, "release")] /\ UNCHANGED service
  <2>1. task' = [task EXCEPT ![t] = Enter(task[t], "release")]
    BY <1>2 DEF RegistryInv, PortsTypeOK
  <2>2. QED  BY <1>1, <1>2, <2>1, TaskFields, ReenterKeeps DEF RegistryInv, PortsTypeOK
<1>3. CASE /\ \E z : service' = Append(service, z)
           /\ task' = [task EXCEPT ![t] = Enter([@ EXCEPT !.target = Len(service) + 1], "bind")]
  <2> DEFINE y == [task[t] EXCEPT !.target = Len(service) + 1]
  <2>1. PICK S : service \in Seq(S)
    BY DEF RegistryInv, PortsTypeOK
  <2>2. PICK z : service' = Append(service, z)
    BY <1>3
  <2>3. Append(service, z) \in Seq(S \cup {z}) /\ Len(service) + 1 \in Nat
    BY <2>1
  <2>4. \E T : service' \in Seq(T)
    BY <2>2, <2>3
  <2>5. task' = [task EXCEPT ![t] = Enter(y, "bind")]
    BY <1>3 DEF RegistryInv, PortsTypeOK
  <2>6. y \in Task /\ y.loaded = task[t].loaded
    BY <2>3, TaskFields DEF Task
  <2> HIDE DEF y
  <2>7. QED  BY <1>1, <2>4, <2>5, <2>6, ReenterKeeps
<1>4. QED  BY <1>2, <1>3 DEF SpawnService

LEMMA EndProcessKeeps ==
  ASSUME RegistryInv, NEW k, NEW waited, k \in DOMAIN service, EndProcess(k, waited)
  PROVE  \E S : service' \in Seq(S)
BY ServiceChanged DEF EndProcess

LEMMA TerminateKeeps ==
  ASSUME RegistryInv, NEW t \in Runtime, terminate(t)
  PROVE  RegistryInv'
<1> DEFINE y == [task[t] EXCEPT !.ok = TRUE]
           k == task[t].target
<1>1. task' = [task EXCEPT ![t] = Enter(y, "release")] /\ UNCHANGED <<registry, starts>>
  BY DEF terminate, RegistryInv, PortsTypeOK
<1>2. y \in Task /\ y.loaded = task[t].loaded
  BY TaskFields DEF Task
<1>3. \E S : service' \in Seq(S)
  <2>1. CASE service' = service
    BY <2>1 DEF RegistryInv, PortsTypeOK
  <2>2. CASE EndProcess(k, HasChild(t))
    <3>1. \/ service' = service
          \/ \E s : service' = [service EXCEPT ![k].state = s]
      BY <2>2 DEF EndProcess
    <3>2. ASSUME NEW s, service' = [service EXCEPT ![k].state = s]
          PROVE  \E S : service' \in Seq(S)
      <4>1. DOMAIN service' = DOMAIN service /\ service' = [j \in DOMAIN service' |-> service'[j]]
        BY <3>2
      <4>2. QED  BY <4>1, ServiceMapped
    <3>3. QED  BY <2>1, <3>1, <3>2
  <2>3. QED  BY <2>1, <2>2 DEF terminate
<1> HIDE DEF y, k
<1>4. QED  BY <1>1, <1>2, <1>3, ReenterKeeps

LEMMA ApplyPreviewKeeps ==
  ASSUME RegistryInv, NEW t \in Runtime, apply(t)
  PROVE  RegistryInv'
<1>1. task' = [task EXCEPT ![t] = Enter(task[t], "clean")] /\ UNCHANGED <<registry, starts, service>>
  BY DEF apply, RegistryInv, PortsTypeOK
<1>2. QED  BY <1>1, TaskFields, ReenterKeeps DEF RegistryInv, PortsTypeOK

LEMMA DieKeeps ==
  ASSUME RegistryInv, NEW t \in Runtime, Die(t) \/ Healthy(t)
  PROVE  RegistryInv'
<1>1. task' = [task EXCEPT ![t] = Idle] /\ UNCHANGED <<registry, starts>>
  BY DEF Die, Healthy
<1>2. \E S : service' \in Seq(S)
  <2>1. CASE Healthy(t)
    BY <2>1 DEF Healthy, RegistryInv, PortsTypeOK
  <2>2. CASE Die(t)
    <3>1. DOMAIN service' = DOMAIN service /\ service' = [j \in DOMAIN service' |-> service'[j]]
      BY <2>2 DEF Die
    <3>2. QED  BY <3>1, ServiceMapped
  <2>3. QED  BY <2>1, <2>2
<1>3. QED  BY <1>1, <1>2, IdleFacts, TaskKeeps

\* The services themselves.
LEMMA ServicesKeep ==
  ASSUME RegistryInv, UNCHANGED <<registry, starts, task>>, \E S : service' \in Seq(S)
  PROVE  RegistryInv'
BY DEF RegistryInv, PortsTypeOK, IdsInv, AllLeases, RegistryLoads, Loads, IsFresh

LEMMA PortsNextKeeps == RegistryInv /\ [PortsNext]_portVars => RegistryInv'
<1> SUFFICES ASSUME RegistryInv, [PortsNext]_portVars PROVE RegistryInv'
  OBVIOUS
<1>1. ASSUME NEW t \in Runtime, RuntimeNext(t) PROVE RegistryInv'
  <2>1. CASE \E r \in Request : StartService(t, r) \/ StopOwner(t, r)
    BY <2>1, StartKeeps, StopKeeps
  <2>2. CASE Preview(t)
    BY <2>2, PreviewKeeps
  <2>3. CASE CreateLock(t) \/ WriteLock(t) \/ FindStale(t) \/ RemoveStale(t)
    BY <2>3, LockKeeps
  <2>4. CASE WriteLockFails(t) \/ LockFails(t)
    BY <2>4, LockFailsKeeps
  <2>5. CASE load_registry(t)
    BY <2>5, LoadKeeps
  <2>6. CASE Unlock(t)
    BY <2>6, UnlockKeeps
  <2>7. CASE reserve(t)
    BY <2>7, ReserveKeeps
  <2>8. CASE bind_service_process(t)
    BY <2>8, BindKeeps
  <2>9. CASE release(t) \/ cleanup_orphaned(t)
    <3>1. /\ registry' \subseteq task[t].loaded
          /\ task' = [task EXCEPT ![t].stage = "unlock"] /\ UNCHANGED <<starts, service>>
      BY <2>9 DEF release, cleanup_orphaned
    <3>2. QED  BY <3>1, RemoveKeeps
  <2>10. CASE leases_for_owner(t)
    BY <2>10, ListKeeps
  <2>11. CASE orphaned(t)
    BY <2>11, OrphanedKeeps
  <2>12. CASE SectionFails(t)
    BY <2>12, RefuseKeeps DEF SectionFails
  <2>13. CASE prepare_service_spawn(t) \/ Unhealthy(t)
    BY <2>13, OutsideKeeps
  <2>14. CASE SpawnService(t)
    BY <2>14, SpawnKeeps
  <2>15. CASE terminate(t)
    BY <2>15, TerminateKeeps
  <2>16. CASE apply(t)
    BY <2>16, ApplyPreviewKeeps
  <2>17. CASE Die(t) \/ Healthy(t)
    BY <2>17, DieKeeps
  <2>18. QED
    BY <1>1, <2>1, <2>2, <2>3, <2>4, <2>5, <2>6, <2>7, <2>8, <2>9, <2>10, <2>11, <2>12, <2>13,
       <2>14, <2>15, <2>16, <2>17 DEF RuntimeNext
<1>2. ASSUME NEW k \in DOMAIN service, ServiceListens(k) \/ ServiceEnds(k) PROVE RegistryInv'
  <2>1. UNCHANGED <<registry, starts, task>>
    BY <1>2 DEF ServiceListens, ServiceEnds
  <2>2. \E S : service' \in Seq(S)
    <3>1. CASE ServiceListens(k)
      <4>1. service' = [service EXCEPT ![k].state = "listening"]
        BY <3>1 DEF ServiceListens
      <4>2. QED  BY <4>1, ServiceChanged
    <3>2. CASE ServiceEnds(k)
      <4>1. EndProcess(k, FALSE)
        BY <3>2 DEF ServiceEnds
      <4>2. QED  BY <4>1, EndProcessKeeps
    <3>3. QED  BY <1>2, <3>1, <3>2
  <2>3. QED  BY <2>1, <2>2, ServicesKeep
<1>3. CASE UNCHANGED portVars
  BY <1>3, ServicesKeep DEF portVars, RegistryInv, PortsTypeOK
<1>4. QED  BY <1>1, <1>2, <1>3 DEF PortsNext

(***************************************************************************)
(* resources/ports.rs, load_registry: whatever sections of any number of    *)
(* runtimes leave in the file, also when the lock has failed to keep them   *)
(* apart or its holder has died, is a registry the next one accepts.        *)
(***************************************************************************)
THEOREM RegistryLoadsHolds == PortsSpec => []RegistryLoads
<1>1. PortsSpec => []RegistryInv
  BY PortsInitHolds, PortsNextKeeps, PTL DEF PortsSpec
<1>2. RegistryInv => RegistryLoads
  BY DEF RegistryInv
<1>3. QED  BY <1>1, <1>2, PTL

-----------------------------------------------------------------------------
(***************************************************************************)
(* PortRegistry: a recorded service keeps its lease, but for a release by  *)
(* an operation that did not know of it.  This does rest on the lock: a    *)
(* section must write a change of the registry as it is.                   *)
(***************************************************************************)
\* A runtime that has taken the lock, and has not given it back.
Inside(x) == x.stage \in {"held", "loaded", "unlock"}

LockExcludes == \A s, t \in Runtime : Inside(task[s]) /\ Inside(task[t]) => s = t

Process == [request: Request \cup {None}, port: Port, parent: Runtime,
            state: {"starting", "listening", "zombie", "gone"}]
Lives(p) == p.state \in {"starting", "listening"}

\* An operation that has a lease of its request.
Holding(x) ==
  \/ x.stage \in {"prepared", "spawn", "health", "terminate"}
  \/ x.section \in {"bind", "release"}
  \/ x.section = "reserve" /\ x.stage = "unlock" /\ x.ok
  \/ x.section = "list" /\ x.stage = "unlock" /\ x.ok /\ x.lease # None

\* What the registry R and the processes S are to an operation x of runtime t
\* that has a lease: the lease keeps its request and port, and the process in
\* it is the operation's or one that another runtime has spawned; while t owns
\* it, it is the operation's.  The lease is only given back when that process
\* has ended.
Holds(t, x, R, S) ==
  /\ x.request # None /\ x.lease \in Lease
  /\ x.target # None => x.target \in DOMAIN S
  /\ \A m \in R : m.id = x.lease.id =>
       /\ m.request = x.request /\ m.port = x.lease.port
       /\ \/ m.service \in {None, x.target}
          \/ m.service \in DOMAIN S /\ S[m.service].parent # t
       /\ x.section \in {"reserve", "bind"} /\ m.owner = t =>
            m.service \in {None, x.target}
  /\ x.section = "bind" =>
       /\ x.target # None /\ S[x.target].request = x.request
       /\ S[x.target].port = x.lease.port /\ S[x.target].parent = t
  /\ x.section = "release" => x.target = None \/ ~Lives(S[x.target])

Fits(t, x, R, S) ==
  /\ x.stage = "loaded" => x.loaded = R
  /\ IsFresh(x) \/ x.stage \in {"prepared", "spawn"} => x.target = None
  /\ x.stage \in {"prepared", "spawn"} => x.section = "reserve"
  /\ x.section \in {"reserve", "list"} => x.request # None
  /\ Holding(x) => Holds(t, x, R, S)

TasksFit == \A t \in Runtime : Fits(t, task[t], registry, service)

\* A runtime that died does nothing.
DeadIdle == up \subseteq Runtime /\ \A t \in Runtime : t \notin up => task[t] = Idle

\* No start acquires a lease under the id of one that is held.
HeldIds ==
  \A t \in Runtime : Holding(task[t]) =>
    /\ task[t].lease.id <= starts
    /\ \A s \in Runtime : IsFresh(task[s]) => task[s].at # task[t].lease.id

Recorded ==
  /\ service \in Seq(Process) /\ recorded \subseteq DOMAIN service
  /\ \A l \in registry : l.service # None => l.service \in DOMAIN service

ServicesInv == RegistryInv /\ DeadIdle /\ HeldIds /\ TasksFit /\ Recorded

\* What ServiceStaysRecorded says of one step.
KeepsNamed ==
  \A k \in recorded' :
    (k \in recorded => Named(k)) /\ Living(k) /\ Living(k)' =>
      Named(k)' \/ \E t \in up : ReleasesUnread(t, k)

-----------------------------------------------------------------------------
\* Processes are added and end; they keep their request, port and parent.
Later(S, T) ==
  /\ DOMAIN S \subseteq DOMAIN T
  /\ \A k \in DOMAIN S : /\ T[k].request = S[k].request /\ T[k].port = S[k].port
                         /\ T[k].parent = S[k].parent
                         /\ Lives(T[k]) => Lives(S[k])

\* What another runtime than s may make of the lease l of an operation of s.
Passed(s, l, m, S) ==
  /\ l.id = m.id /\ l.request = m.request /\ l.port = m.port /\ m.owner # s
  /\ \/ m.service \in {None, l.service}
     \/ m.service \in DOMAIN S /\ S[m.service].parent # s

\* A registry Q in place of R leaves operation x of s what it holds.
Apart(s, x, R, Q, S) ==
  /\ x.stage = "loaded" => Q = R
  /\ Holding(x) => \A m \in Q : m.id = x.lease.id => m \in R \/ \E l \in R : Passed(s, l, m, S)

LEMMA StillFits ==
  ASSUME NEW s, NEW x, NEW R, NEW S, NEW Q, NEW T,
         Fits(s, x, R, S), Apart(s, x, R, Q, S), Later(S, T)
  PROVE  Fits(s, x, Q, T)
<1>1. ASSUME Holding(x) PROVE Holds(s, x, Q, T)
  <2>1. Holds(s, x, R, S)
    BY <1>1 DEF Fits
  <2>2. x.target # None => /\ x.target \in DOMAIN S /\ x.target \in DOMAIN T
                           /\ T[x.target].request = S[x.target].request
                           /\ T[x.target].port = S[x.target].port
                           /\ T[x.target].parent = S[x.target].parent
                           /\ Lives(T[x.target]) => Lives(S[x.target])
    BY <2>1 DEF Holds, Later
  <2>3. ASSUME NEW m \in Q, m.id = x.lease.id
        PROVE  /\ m.request = x.request /\ m.port = x.lease.port
               /\ \/ m.service \in {None, x.target}
                  \/ m.service \in DOMAIN T /\ T[m.service].parent # s
               /\ x.section \in {"reserve", "bind"} /\ m.owner = s =>
                    m.service \in {None, x.target}
    <3>1. ASSUME m.service \in DOMAIN S, S[m.service].parent # s
          PROVE  m.service \in DOMAIN T /\ T[m.service].parent # s
      BY <3>1 DEF Later
    <3>2. CASE m \in R
      BY <2>1, <2>3, <3>1, <3>2 DEF Holds
    <3>3. ASSUME NEW l \in R, Passed(s, l, m, S)
          PROVE  /\ m.request = x.request /\ m.port = x.lease.port
                 /\ \/ m.service \in {None, x.target}
                    \/ m.service \in DOMAIN T /\ T[m.service].parent # s
                 /\ m.owner # s
      <4>1. /\ l.id = m.id /\ l.request = m.request /\ l.port = m.port /\ m.owner # s
            /\ \/ m.service \in {None, l.service}
               \/ m.service \in DOMAIN S /\ S[m.service].parent # s
        BY <3>3 DEF Passed
      <4>2. /\ l.request = x.request /\ l.port = x.lease.port
            /\ \/ l.service \in {None, x.target}
               \/ l.service \in DOMAIN S /\ S[l.service].parent # s
        BY <2>1, <2>3, <4>1 DEF Holds
      <4>3. QED  BY <3>1, <4>1, <4>2
    <3>4. QED  BY <1>1, <2>3, <3>2, <3>3 DEF Apart
  <2>4. QED  BY <2>1, <2>2, <2>3 DEF Holds
<1>2. QED  BY <1>1 DEF Fits, Apart

LEMMA LaterSelf == \A S : Later(S, S)
BY DEF Later

\* Changing the state of a process, and not back to life.
LEMMA LaterEnded ==
  ASSUME NEW S \in Seq(Process), NEW k \in DOMAIN S,
         NEW e \in {"starting", "listening", "zombie", "gone"},
         e \in {"starting", "listening"} => Lives(S[k])
  PROVE  /\ [S EXCEPT ![k].state = e] \in Seq(Process)
         /\ Later(S, [S EXCEPT ![k].state = e])
<1> DEFINE y == [S[k] EXCEPT !.state = e]
           T == [S EXCEPT ![k] = y]
<1>1. [S EXCEPT ![k].state = e] = T
  OBVIOUS
<1>2. S[k] \in Process
  OBVIOUS
<1>3. /\ y \in Process /\ y.request = S[k].request /\ y.port = S[k].port /\ y.state = e
      /\ y.parent = S[k].parent
  BY <1>2 DEF Process
<1> HIDE DEF y
<1>4. T \in Seq(Process)
  BY <1>3
<1>5. DOMAIN T = DOMAIN S /\ T[k] = y /\ \A j \in DOMAIN S : j # k => T[j] = S[j]
  OBVIOUS
<1> HIDE DEF T
<1>6. Later(S, T)
  BY <1>3, <1>5 DEF Later, Lives
<1>7. QED  BY <1>1, <1>4, <1>6

LEMMA LaterSpawned ==
  ASSUME NEW S \in Seq(Process), NEW p \in Process
  PROVE  /\ Append(S, p) \in Seq(Process) /\ Later(S, Append(S, p))
         /\ Len(S) + 1 \in DOMAIN Append(S, p) /\ Append(S, p)[Len(S) + 1] = p
<1>1. /\ Append(S, p) \in Seq(Process)
      /\ DOMAIN S = 1..Len(S) /\ DOMAIN Append(S, p) = 1..(Len(S) + 1) /\ Len(S) \in Nat
      /\ \A j \in 1..Len(S) : Append(S, p)[j] = S[j]
      /\ Append(S, p)[Len(S) + 1] = p
  OBVIOUS
<1>2. QED  BY <1>1 DEF Later

-----------------------------------------------------------------------------
\* Fields that a step from stage to stage, or into a section, leaves alone.
LEMMA StageRest ==
  ASSUME NEW x \in Task, NEW s \in TaskStage
  PROVE  /\ Stage(x, s).request = x.request /\ Stage(x, s).lease = x.lease
         /\ Stage(x, s).target = x.target /\ Stage(x, s).ok = x.ok
BY DEF Stage, Task

LEMMA EnterRest ==
  ASSUME NEW x \in Task, NEW s \in Section
  PROVE  /\ Enter(x, s).request = x.request /\ Enter(x, s).lease = x.lease
         /\ Enter(x, s).target = x.target /\ Enter(x, s).ok = x.ok /\ Enter(x, s).stage = "try"
BY DEF Enter, Task

LEMMA IdleFits ==
  ASSUME NEW t, NEW R, NEW S
  PROVE  Fits(t, Idle, R, S) /\ ~Holding(Idle) /\ Idle.request = None
<1>1. /\ Idle.stage = "idle" /\ Idle.section = None /\ Idle.request = None /\ Idle.target = None
      /\ Idle.lease = None
  BY DEF Idle
<1>2. None \notin {"reserve", "list", "bind", "release"}
  BY NoLockAssumption
<1>3. QED  BY <1>1, <1>2 DEF Fits, Holding, IsFresh

-----------------------------------------------------------------------------
\* What a section of runtime t may make of the registry: the leases it puts in
\* are leases it owns now and whose process is unchanged, gone or its own, or
\* a new one.
Writes(t, Q) ==
  /\ Q # registry => task[t].stage = "loaded"
  /\ \A m \in Q : \/ m \in registry
                  \/ \E l \in registry :
                       /\ l.id = m.id /\ l.request = m.request /\ l.port = m.port /\ m.owner = t
                       /\ \/ m.service \in {None, l.service}
                          \/ m.service \in DOMAIN service /\ service[m.service].parent = t
                  \/ IsFresh(task[t]) /\ m.id = task[t].at

LEMMA OthersApart ==
  ASSUME ServicesInv, LockExcludes, NEW t \in Runtime, NEW Q, Writes(t, Q),
         NEW s \in Runtime, s # t
  PROVE  Apart(s, task[s], registry, Q, service)
<1> DEFINE x == task[s]
<1>1. x.stage = "loaded" => Q = registry
  BY DEF Writes, LockExcludes, Inside
<1>2. ASSUME Holding(x), NEW m \in Q, m.id = x.lease.id
      PROVE  m \in registry \/ \E l \in registry : Passed(s, l, m, service)
  <2>1. IsFresh(task[t]) => task[t].at # x.lease.id
    BY <1>2 DEF ServicesInv, HeldIds
  <2>2. ASSUME NEW l \in registry,
               l.id = m.id, l.request = m.request, l.port = m.port, m.owner = t,
               \/ m.service \in {None, l.service}
               \/ m.service \in DOMAIN service /\ service[m.service].parent = t
        PROVE  Passed(s, l, m, service)
    BY <2>2 DEF Passed
  <2>3. QED  BY <1>2, <2>1, <2>2 DEF Writes
<1>3. QED  BY <1>1, <1>2 DEF Apart

\* A runtime's operation takes a number, or goes on with the lease it has.
Proceeds(t, x) ==
  /\ Holding(x) => \/ Holding(task[t]) /\ x.lease = task[t].lease
                   \/ \E l \in AllLeases : l.id = x.lease.id
                   \/ IsFresh(task[t]) /\ x.lease.id = task[t].at
  /\ IsFresh(x) => \/ IsFresh(task[t]) /\ x.at = task[t].at
                   \/ starts' = starts + 1 /\ x.at = starts + 1
  /\ Holding(x) => ~IsFresh(x)

LEMMA HeldIdsKeep ==
  ASSUME ServicesInv, RegistryInv', NEW t \in Runtime, NEW x \in Task,
         task' = [task EXCEPT ![t] = x], starts' \in {starts, starts + 1},
         Proceeds(t, x), Holding(x) => x.lease \in Lease
  PROVE  HeldIds'
<1>1. task'[t] = x /\ \A u \in Runtime : u # t => task'[u] = task[u]
  BY DEF ServicesInv, RegistryInv, PortsTypeOK
<1>2. starts \in Nat /\ starts' \in Nat /\ starts <= starts'
  BY DEF ServicesInv, RegistryInv, PortsTypeOK
<1>3. \A u \in Runtime : Holding(task[u]) => task[u].lease.id \in Nat
  BY LeaseFields DEF ServicesInv, TasksFit, Fits, Holds
<1>4. Holding(x) => x.lease.id \in Nat
  BY LeaseFields
<1>5. ASSUME NEW u \in Runtime, Holding(task'[u])
      PROVE  /\ task'[u].lease.id \in Nat /\ task'[u].lease.id <= starts
             /\ \A s \in Runtime : s # u /\ IsFresh(task[s]) => task[s].at # task'[u].lease.id
             /\ u # t => \A s \in Runtime : IsFresh(task[s]) => task[s].at # task'[u].lease.id
  <2>1. CASE u # t
    BY <1>1, <1>3, <1>5, <2>1 DEF ServicesInv, HeldIds
  <2>2. CASE u = t
    <3>1. task'[u] = x
      BY <1>1, <2>2
    <3>2. CASE Holding(task[t]) /\ x.lease = task[t].lease
      BY <1>3, <2>2, <3>1, <3>2 DEF ServicesInv, HeldIds
    <3>3. CASE \E l \in AllLeases : l.id = x.lease.id
      BY <1>4, <1>5, <2>2, <3>1, <3>3 DEF ServicesInv, RegistryInv, IdsInv
    <3>4. CASE IsFresh(task[t]) /\ x.lease.id = task[t].at
      BY <1>4, <1>5, <2>2, <3>1, <3>4 DEF ServicesInv, RegistryInv, IdsInv
    <3>5. QED  BY <1>5, <3>1, <3>2, <3>3, <3>4 DEF Proceeds
  <2>3. QED  BY <2>1, <2>2
<1>6. ASSUME NEW u \in Runtime, Holding(task'[u]), NEW s \in Runtime, IsFresh(task'[s])
      PROVE  task'[s].at # task'[u].lease.id
  <2>1. CASE s # t
    <3>1. CASE u = s
      BY <1>1, <1>5, <1>6, <2>1, <3>1
    <3>2. CASE u # s
      BY <1>1, <1>5, <1>6, <2>1, <3>2
    <3>3. QED  BY <3>1, <3>2
  <2>2. CASE s = t
    <3>1. task'[s] = x /\ IsFresh(x) /\ u # t
      BY <1>1, <1>6, <2>2 DEF Proceeds
    <3>2. CASE IsFresh(task[t]) /\ x.at = task[t].at
      BY <1>5, <1>6, <3>1, <3>2
    <3>3. CASE x.at = starts + 1
      BY <1>2, <1>5, <1>6, <3>1, <3>3
    <3>4. QED  BY <3>1, <3>2, <3>3 DEF Proceeds
  <2>3. QED  BY <2>1, <2>2
<1>7. QED  BY <1>2, <1>5, <1>6 DEF HeldIds

(***************************************************************************)
(* A step of one runtime: the other operations do not see it.              *)
(***************************************************************************)
LEMMA OperationKeeps ==
  ASSUME ServicesInv, LockExcludes, RegistryInv', NEW t \in Runtime, NEW x \in Task,
         task' = [task EXCEPT ![t] = x], starts' \in {starts, starts + 1},
         (up' = up /\ t \in up) \/ (up' = up \ {t} /\ x = Idle),
         Proceeds(t, x), Writes(t, registry'), Later(service, service'),
         Fits(t, x, registry', service'), Recorded', KeepsNamed
  PROVE  ServicesInv' /\ KeepsNamed
<1>1. task'[t] = x /\ \A u \in Runtime : u # t => task'[u] = task[u]
  BY DEF ServicesInv, RegistryInv, PortsTypeOK
<1>2. TasksFit'
  <2>1. ASSUME NEW s \in Runtime PROVE Fits(s, task'[s], registry', service')
    <3>1. CASE s = t
      BY <1>1, <3>1
    <3>2. CASE s # t
      <4>1. Fits(s, task[s], registry, service) /\ Apart(s, task[s], registry, registry', service)
        BY <3>2, OthersApart DEF ServicesInv, TasksFit
      <4>2. Fits(s, task[s], registry', service')
        BY <4>1, StillFits
      <4>3. QED  BY <1>1, <3>2, <4>2
    <3>3. QED  BY <3>1, <3>2
  <2>2. QED  BY <2>1 DEF TasksFit
<1>3. HeldIds'
  BY HeldIdsKeep DEF Fits, Holds
<1>4. DeadIdle'
  BY <1>1 DEF ServicesInv, DeadIdle
<1>5. QED  BY <1>2, <1>3, <1>4 DEF ServicesInv

LEMMA SameNamed ==
  ASSUME ServicesInv, UNCHANGED <<registry, recorded>>,
         service' \in Seq(Process), Later(service, service')
  PROVE  Recorded' /\ KeepsNamed
<1>1. recorded \subseteq DOMAIN service' /\ DOMAIN service \subseteq DOMAIN service'
  BY DEF ServicesInv, Recorded, Later
<1>2. \A k \in recorded : /\ service'[k].port = service[k].port
                          /\ service'[k].request = service[k].request
  BY DEF ServicesInv, Recorded, Later
<1>3. \A k \in recorded : Named(k) => Named(k)'
  BY <1>2 DEF Named
<1>4. KeepsNamed
  BY <1>3 DEF KeepsNamed
<1>5. QED  BY <1>1, <1>4 DEF ServicesInv, Recorded

\* A step that leaves the registry alone.
LEMMA QuietKeeps ==
  ASSUME ServicesInv, LockExcludes, RegistryInv', NEW t \in Runtime, NEW x \in Task,
         task' = [task EXCEPT ![t] = x], starts' \in {starts, starts + 1},
         (up' = up /\ t \in up) \/ (up' = up \ {t} /\ x = Idle),
         UNCHANGED <<registry, recorded>>,
         Proceeds(t, x), service' \in Seq(Process), Later(service, service'),
         Fits(t, x, registry, service')
  PROVE  ServicesInv' /\ KeepsNamed
<1>1. Writes(t, registry')
  BY DEF Writes
<1>2. Recorded' /\ KeepsNamed
  BY SameNamed
<1>3. QED  BY <1>1, <1>2, OperationKeeps

LEMMA Working ==
  ASSUME ServicesInv, NEW t \in Runtime, task[t].stage # "idle"
  PROVE  t \in up
<1>1. Idle.stage = "idle"
  BY DEF Idle
<1>2. QED  BY <1>1 DEF ServicesInv, DeadIdle

\* A step of an operation that only changes the operation, and the lock file
\* or sockets.
LEMMA TaskStep ==
  ASSUME ServicesInv, LockExcludes, RegistryInv', NEW t \in Runtime, t \in up, NEW x \in Task,
         task' = [task EXCEPT ![t] = x],
         UNCHANGED <<registry, service, recorded, up, starts>>,
         Proceeds(t, x), Fits(t, x, registry, service)
  PROVE  ServicesInv' /\ KeepsNamed
<1>1. service' \in Seq(Process) /\ Later(service, service')
  BY LaterSelf DEF ServicesInv, Recorded
<1>2. Fits(t, x, registry, service')
  OBVIOUS
<1>3. /\ starts' \in {starts, starts + 1} /\ UNCHANGED <<registry, recorded>>
      /\ (up' = up /\ t \in up) \/ (up' = up \ {t} /\ x = Idle)
  OBVIOUS
<1>4. QED  BY <1>1, <1>2, <1>3, QuietKeeps

LEMMA BeginServices ==
  ASSUME ServicesInv, LockExcludes, RegistryInv', NEW t \in Runtime, t \in up,
         NEW y \in Task, y.target = None, NEW s \in {"reserve", "list", "preview"},
         task' = [task EXCEPT ![t] = Enter(y, s)],
         UNCHANGED <<registry, service, recorded, up>>, starts' \in {starts, starts + 1},
         s = "preview" \/ y.request # None,
         s = "reserve" => starts' = starts + 1 /\ y.at = starts + 1
  PROVE  ServicesInv' /\ KeepsNamed
<1> DEFINE x == Enter(y, s)
<1>1. s \in Section
  BY DEF Section
<1>2. /\ x \in Task /\ x.section = s /\ x.stage = "try" /\ x.request = y.request
      /\ x.target = None /\ x.at = y.at
  BY <1>1, EnterFacts, EnterRest
<1> HIDE DEF x
<1>3. ~Holding(x)
  BY <1>2 DEF Holding
<1>4. Fits(t, x, registry, service)
  BY <1>2, <1>3 DEF Fits, IsFresh
<1>5. Proceeds(t, x)
  BY <1>2, <1>3 DEF Proceeds, IsFresh
<1>6. task' = [task EXCEPT ![t] = x]
  BY DEF x
<1>7. service' \in Seq(Process) /\ Later(service, service') /\ Fits(t, x, registry, service')
  BY <1>4, LaterSelf DEF ServicesInv, Recorded
<1>8. UNCHANGED <<registry, recorded>> /\ ((up' = up /\ t \in up) \/ (up' = up \ {t} /\ x = Idle))
  OBVIOUS
<1>9. QED  BY <1>2, <1>5, <1>6, <1>7, <1>8, QuietKeeps

LEMMA StartServices ==
  ASSUME ServicesInv, LockExcludes, RegistryInv', NEW t \in Runtime, NEW r \in Request,
         StartService(t, r)
  PROVE  ServicesInv' /\ KeepsNamed
<1> DEFINE y == [Idle EXCEPT !.do = "start", !.request = r, !.at = starts + 1]
<1>1. starts + 1 \in Nat
  BY DEF ServicesInv, RegistryInv, PortsTypeOK
<1>2. y \in Task /\ y.target = None /\ y.request = r /\ y.at = starts + 1
  BY <1>1 DEF Idle, Task, TaskStage, Section
<1>3. task' = [task EXCEPT ![t] = Enter(y, "reserve")]
  BY DEF StartService
<1> HIDE DEF y
<1>4. r # None
  BY RegistryAssumption
<1>5. t \in up /\ starts' = starts + 1 /\ UNCHANGED <<registry, service, recorded, up>>
  BY DEF StartService
<1>6. QED  BY <1>2, <1>3, <1>4, <1>5, BeginServices

LEMMA StopServices ==
  ASSUME ServicesInv, LockExcludes, RegistryInv', NEW t \in Runtime, NEW r \in Request,
         StopOwner(t, r)
  PROVE  ServicesInv' /\ KeepsNamed
<1> DEFINE y == [Idle EXCEPT !.do = "stop", !.request = r]
<1>1. y \in Task /\ y.target = None /\ y.request = r
  BY DEF Idle, Task, TaskStage, Section
<1>2. task' = [task EXCEPT ![t] = Enter(y, "list")]
  BY DEF StopOwner
<1> HIDE DEF y
<1>3. r # None
  BY RegistryAssumption
<1>4. /\ t \in up /\ starts' \in {starts, starts + 1}
      /\ UNCHANGED <<registry, service, recorded, up>>
  BY DEF StopOwner
<1>5. QED  BY <1>1, <1>2, <1>3, <1>4, BeginServices

LEMMA PreviewServices ==
  ASSUME ServicesInv, LockExcludes, RegistryInv', NEW t \in Runtime, Preview(t)
  PROVE  ServicesInv' /\ KeepsNamed
<1> DEFINE y == [Idle EXCEPT !.do = "cleanup"]
<1>1. y \in Task /\ y.target = None /\ y.request = None
  BY DEF Idle, Task, TaskStage, Section
<1>2. task' = [task EXCEPT ![t] = Enter(y, "preview")]
  BY DEF Preview
<1> HIDE DEF y
<1>3. QED  BY <1>1, <1>2, BeginServices DEF Preview

\* Steps from stage to stage: to the lock, and outside it.
LEMMA StageServices ==
  ASSUME ServicesInv, LockExcludes, RegistryInv', NEW t \in Runtime,
         NEW a \in TaskStage, NEW b \in TaskStage, task[t].stage = a,
         \/ a \in {"try", "created", "stale"} /\ b \in {"try", "created", "stale", "held"}
         \/ a = "prepared" /\ b = "spawn"
         \/ a = "health" /\ b = "terminate",
         task' = [task EXCEPT ![t] = Stage(@, b)],
         UNCHANGED <<registry, service, recorded, up, starts>>
  PROVE  ServicesInv' /\ KeepsNamed
<1> DEFINE x == Stage(task[t], b)
<1>1. task[t] \in Task
  BY DEF ServicesInv, RegistryInv, PortsTypeOK
<1>2. /\ x \in Task /\ x.section = task[t].section /\ x.stage = b /\ x.request = task[t].request
      /\ x.target = task[t].target /\ x.at = task[t].at /\ x.lease = task[t].lease
  BY <1>1, StageFacts, StageRest
<1>3. task' = [task EXCEPT ![t] = x]
  BY DEF ServicesInv, RegistryInv, PortsTypeOK
<1> HIDE DEF x
<1>4. Fits(t, task[t], registry, service)
  BY DEF ServicesInv, TasksFit
<1>5. Holding(x) => Holding(task[t])
  BY <1>2 DEF Holding
<1>6. IsFresh(x) => IsFresh(task[t])
  BY <1>2 DEF IsFresh
<1>7. Fits(t, x, registry, service)
  BY <1>2, <1>4, <1>5, <1>6 DEF Fits, Holds
<1>8. Proceeds(t, x)
  BY <1>2, <1>5, <1>6 DEF Proceeds, Holding, IsFresh
<1>9. t \in up
  BY Working
<1>10. QED  BY <1>2, <1>3, <1>7, <1>8, <1>9, TaskStep

LEMMA LockServices ==
  ASSUME ServicesInv, LockExcludes, RegistryInv', NEW t \in Runtime,
         \/ CreateLock(t) \/ WriteLock(t) \/ FindStale(t) \/ RemoveStale(t)
         \/ prepare_service_spawn(t) \/ Unhealthy(t)
  PROVE  ServicesInv' /\ KeepsNamed
<1>1. {"try", "created", "stale", "held", "prepared", "spawn", "health", "terminate"} \subseteq TaskStage
  BY DEF TaskStage
<1>2. UNCHANGED <<registry, service, recorded, up, starts>>
  BY DEF CreateLock, WriteLock, FindStale, RemoveStale, prepare_service_spawn, Unhealthy
<1>3. CASE CreateLock(t) \/ FindStale(t)
  BY <1>1, <1>2, <1>3, StageServices DEF CreateLock, FindStale
<1>4. CASE WriteLock(t) \/ RemoveStale(t)
  BY <1>1, <1>2, <1>4, StageServices DEF WriteLock, RemoveStale
<1>5. CASE prepare_service_spawn(t) \/ Unhealthy(t)
  BY <1>1, <1>2, <1>5, StageServices DEF prepare_service_spawn, Unhealthy
<1>6. QED  BY <1>3, <1>4, <1>5

\* After a section, or when the lock could not be had, the operation goes on
\* with the lease it has.
LEMMA ThenFits ==
  ASSUME NEW t, NEW R, NEW S, NEW x \in Task, NEW y \in Task, Fits(t, x, R, S),
         x.stage \in {"try", "created", "unlock"}, y.ok => x.ok /\ x.stage = "unlock",
         y.section = x.section, y.request = x.request, y.lease = x.lease, y.target = x.target
  PROVE  /\ Fits(t, Then(y), R, S) /\ Then(y).request \in {None, x.request}
         /\ Holding(Then(y)) => Holding(x) /\ Then(y).lease = x.lease
<1> DEFINE z == Then(y)
<1>1. CASE z = Idle
  BY <1>1, IdleFits
<1>2. ASSUME NEW s \in {"health", "prepared", "terminate", "inspected"}, z = Stage(y, s),
             s = "prepared" => y.section = "reserve" /\ y.ok /\ y.target = None,
             s = "health" => (y.section = "reserve" /\ y.ok) \/ y.section = "bind",
             s = "terminate" => \/ y.section = "bind"
                                \/ y.section = "list" /\ y.ok /\ y.lease # None,
             s = "inspected" => y.section = "preview"
      PROVE  /\ Fits(t, z, R, S) /\ z.request \in {None, x.request}
             /\ Holding(z) => Holding(x) /\ z.lease = x.lease
  <2>1. s \in TaskStage
    BY DEF TaskStage
  <2>2. /\ z.section = x.section /\ z.stage = s /\ z.request = x.request
        /\ z.target = x.target /\ z.lease = x.lease
    BY <1>2, <2>1, StageFacts, StageRest
  <2> HIDE DEF z
  <2>3. Holding(z) => Holding(x)
    BY <1>2, <2>2 DEF Holding
  <2>4. Fits(t, z, R, S)
    BY <1>2, <2>2, <2>3 DEF Fits, Holds, IsFresh
  <2>5. QED  BY <2>2, <2>3, <2>4
<1>3. \/ z = Idle
      \/ \E s \in {"health", "prepared", "terminate", "inspected"} :
           /\ z = Stage(y, s)
           /\ s = "prepared" => y.section = "reserve" /\ y.ok /\ y.target = None
           /\ s = "health" => (y.section = "reserve" /\ y.ok) \/ y.section = "bind"
           /\ s = "terminate" => \/ y.section = "bind"
                                 \/ y.section = "list" /\ y.ok /\ y.lease # None
           /\ s = "inspected" => y.section = "preview"
  BY DEF Then
<1>4. QED  BY <1>1, <1>2, <1>3

LEMMA ThenServices ==
  ASSUME ServicesInv, LockExcludes, RegistryInv', NEW t \in Runtime,
         WriteLockFails(t) \/ LockFails(t) \/ Unlock(t)
  PROVE  ServicesInv' /\ KeepsNamed
<1>1. task[t] \in Task /\ Fits(t, task[t], registry, service)
  BY DEF ServicesInv, RegistryInv, PortsTypeOK, TasksFit
<1>2. /\ task[t].stage \in {"try", "created", "unlock"}
      /\ UNCHANGED <<registry, service, recorded, up, starts>>
  BY DEF WriteLockFails, LockFails, Unlock
<1>3. ASSUME NEW y \in Task, task' = [task EXCEPT ![t] = Then(y)],
             y.ok => task[t].ok /\ task[t].stage = "unlock",
             y.section = task[t].section, y.request = task[t].request, y.lease = task[t].lease,
             y.target = task[t].target
      PROVE  ServicesInv' /\ KeepsNamed
  <2>1. /\ Fits(t, Then(y), registry, service) /\ Then(y).request \in {None, task[t].request}
        /\ Holding(Then(y)) => Holding(task[t]) /\ Then(y).lease = task[t].lease
    BY <1>1, <1>2, <1>3, ThenFits
  <2>2. Then(y) \in Task /\ ~IsFresh(Then(y))
    BY <1>3, ThenFacts
  <2>3. Proceeds(t, Then(y))
    BY <2>1, <2>2 DEF Proceeds
  <2>4. t \in up
    BY <1>2, Working
  <2>5. QED  BY <1>2, <1>3, <2>1, <2>2, <2>3, <2>4, TaskStep
<1>4. CASE WriteLockFails(t) \/ LockFails(t)
  <2> DEFINE y == [task[t] EXCEPT !.ok = FALSE]
  <2>1. /\ y \in Task /\ ~y.ok /\ y.section = task[t].section /\ y.request = task[t].request
        /\ y.lease = task[t].lease /\ y.target = task[t].target
    BY <1>1 DEF Task
  <2>2. task' = [task EXCEPT ![t] = Then(y)]
    BY <1>4 DEF WriteLockFails, LockFails, ServicesInv, RegistryInv, PortsTypeOK
  <2> HIDE DEF y
  <2>3. QED  BY <1>3, <2>1, <2>2
<1>5. CASE Unlock(t)
  <2> DEFINE y == [task[t] EXCEPT !.loaded = {}]
  <2>1. /\ y \in Task /\ y.ok = task[t].ok /\ y.section = task[t].section
        /\ y.request = task[t].request /\ y.lease = task[t].lease /\ y.target = task[t].target
    BY <1>1 DEF Task
  <2>2. task' = [task EXCEPT ![t] = Then(y)] /\ task[t].stage = "unlock"
    BY <1>5 DEF Unlock, ServicesInv, RegistryInv, PortsTypeOK
  <2> HIDE DEF y
  <2>3. QED  BY <1>3, <2>1, <2>2
<1>6. QED  BY <1>4, <1>5

\* Sections that leave the file alone: reading it, refusing, failing, listing.
LEMMA ReadServices ==
  ASSUME ServicesInv, LockExcludes, RegistryInv', NEW t \in Runtime, load_registry(t)
  PROVE  ServicesInv' /\ KeepsNamed
<1> DEFINE x == [task[t] EXCEPT !.loaded = registry, !.stage = "loaded"]
<1>1. /\ task[t] \in Task /\ Fits(t, task[t], registry, service) /\ registry \subseteq Lease
      /\ task[t].stage = "held"
  BY DEF ServicesInv, RegistryInv, PortsTypeOK, TasksFit, load_registry
<1>2. /\ task' = [task EXCEPT ![t] = x] /\ UNCHANGED <<registry, service, recorded, up, starts>>
  BY DEF load_registry, ServicesInv, RegistryInv, PortsTypeOK
<1>3. x \in Task /\ x.loaded = registry /\ x.stage = "loaded"
  BY ZenonT(40), <1>1 DEF Task, TaskStage
<1>4. /\ x.section = task[t].section /\ x.request = task[t].request /\ x.lease = task[t].lease
      /\ x.target = task[t].target /\ x.at = task[t].at
  BY <1>1 DEF Task
<1> HIDE DEF x
<1>5. Holding(x) => Holding(task[t])
  BY <1>1, <1>3, <1>4 DEF Holding
<1>6. IsFresh(x) => IsFresh(task[t])
  BY <1>1, <1>3, <1>4 DEF IsFresh
<1>7. Fits(t, x, registry, service)
  BY <1>1, <1>3, <1>4, <1>5, <1>6 DEF Fits, Holds
<1>8. Proceeds(t, x)
  BY <1>1, <1>3, <1>4, <1>5, <1>6 DEF Proceeds, Holding, IsFresh
<1>9. t \in up
  BY <1>1, Working
<1>10. QED  BY <1>2, <1>3, <1>7, <1>8, <1>9, TaskStep

LEMMA RefuseServices ==
  ASSUME ServicesInv, LockExcludes, RegistryInv', NEW t \in Runtime, task[t].stage = "loaded",
         Refuse(t), UNCHANGED <<registry, service, recorded, up, starts>>
  PROVE  ServicesInv' /\ KeepsNamed
<1> DEFINE x == [task[t] EXCEPT !.ok = FALSE, !.stage = "unlock"]
<1>1. task[t] \in Task /\ Fits(t, task[t], registry, service)
  BY DEF ServicesInv, RegistryInv, PortsTypeOK, TasksFit
<1>2. task' = [task EXCEPT ![t] = x]
  BY DEF Refuse, ServicesInv, RegistryInv, PortsTypeOK
<1>3. x \in Task /\ x.stage = "unlock" /\ ~x.ok
  BY ZenonT(40), <1>1 DEF Task, TaskStage
<1>4. /\ x.section = task[t].section /\ x.request = task[t].request /\ x.lease = task[t].lease
      /\ x.target = task[t].target
  BY <1>1 DEF Task
<1> HIDE DEF x
<1>5. (Holding(x) => Holding(task[t])) /\ ~IsFresh(x)
  BY <1>3, <1>4 DEF Holding, IsFresh
<1>6. Fits(t, x, registry, service)
  BY <1>1, <1>3, <1>4, <1>5 DEF Fits, Holds
<1>7. Proceeds(t, x)
  BY <1>4, <1>5 DEF Proceeds
<1>8. t \in up
  BY Working
<1>9. QED  BY <1>2, <1>3, <1>6, <1>7, <1>8, TaskStep

LEMMA ListServices ==
  ASSUME ServicesInv, LockExcludes, RegistryInv', NEW t \in Runtime, leases_for_owner(t)
  PROVE  ServicesInv' /\ KeepsNamed
<1> DEFINE a == IF Mine(t) = {} THEN None ELSE CHOOSE l \in Mine(t) : TRUE
           b == IF Mine(t) = {} THEN None ELSE (CHOOSE l \in Mine(t) : TRUE).service
           x == [task[t] EXCEPT !.stage = "unlock", !.lease = a, !.target = b]
<1>1. /\ task[t] \in Task /\ Fits(t, task[t], registry, service)
      /\ task[t].stage = "loaded" /\ task[t].section = "list" /\ registry \subseteq Lease
      /\ \A l \in registry : l.service # None => l.service \in DOMAIN service
      /\ RegistryLoads
  BY DEF ServicesInv, RegistryInv, PortsTypeOK, TasksFit, Recorded, leases_for_owner, In
<1>2. task' = [task EXCEPT ![t] = x] /\ UNCHANGED <<registry, service, recorded, up, starts>>
  BY DEF leases_for_owner, ServicesInv, RegistryInv, PortsTypeOK
<1>3. Mine(t) \subseteq registry /\ \A l \in Mine(t) : l.request = task[t].request
  BY <1>1 DEF Mine, Fits
<1>4. \/ a = None /\ b = None
      \/ a \in Mine(t) /\ b = a.service
  OBVIOUS
<1>5. a \in Lease \cup {None} /\ b \in Nat \cup {None}
  BY <1>1, <1>3, <1>4, LeaseFields
<1> HIDE DEF a, b
<1>6. x \in Task /\ x.stage = "unlock" /\ x.lease = a /\ x.target = b
  BY ZenonT(40), <1>1, <1>5 DEF Task, TaskStage
<1>7. x.section = task[t].section /\ x.request = task[t].request
  BY <1>1 DEF Task
<1> HIDE DEF x
<1>8. ASSUME Holding(x)
      PROVE  Holds(t, x, registry, service) /\ a \in registry
  <2>1. a \in registry /\ b = a.service /\ a.request = x.request
    BY <1>1, <1>3, <1>4, <1>6, <1>7, <1>8 DEF Holding
  <2>2. \A m \in registry : m.id = a.id => m = a
    BY <1>1, <2>1 DEF RegistryLoads
  <2>3. QED  BY <1>1, <1>6, <1>7, <2>1, <2>2 DEF Holds, Fits
<1>9. ~IsFresh(x)
  BY <1>6 DEF IsFresh
<1>10. Fits(t, x, registry, service)
  BY <1>1, <1>6, <1>7, <1>8, <1>9 DEF Fits
<1>11. Proceeds(t, x)
  BY <1>6, <1>7, <1>8, <1>9 DEF Proceeds, AllLeases
<1>12. t \in up
  BY <1>1, Working
<1>13. QED  BY <1>2, <1>6, <1>10, <1>11, <1>12, TaskStep

LEMMA OrphanedServices ==
  ASSUME ServicesInv, LockExcludes, RegistryInv', NEW t \in Runtime, orphaned(t)
  PROVE  ServicesInv' /\ KeepsNamed
<1> DEFINE a == {l.id : l \in {l \in task[t].loaded : Orphan(l)}}
           x == [task[t] EXCEPT !.stage = "unlock", !.inspected = a]
<1>1. /\ task[t] \in Task /\ task[t].stage = "loaded" /\ task[t].section = "preview"
      /\ task[t].loaded \subseteq Lease
  BY TaskFields DEF ServicesInv, orphaned, In
<1>2. task' = [task EXCEPT ![t] = x] /\ UNCHANGED <<registry, service, recorded, up, starts>>
  BY DEF orphaned, ServicesInv, RegistryInv, PortsTypeOK
<1>3. a \subseteq Nat
  BY <1>1, LeaseFields
<1> HIDE DEF a
<1>4. /\ x \in Task /\ x.stage = "unlock" /\ x.section = "preview" /\ x.request = task[t].request
  BY ZenonT(40), <1>1, <1>3 DEF Task, TaskStage
<1> HIDE DEF x
<1>5. ~Holding(x) /\ ~IsFresh(x)
  BY <1>4 DEF Holding, IsFresh
<1>6. Fits(t, x, registry, service) /\ Proceeds(t, x)
  BY <1>4, <1>5 DEF Fits, Proceeds
<1>7. t \in up
  BY <1>1, Working
<1>8. QED  BY <1>2, <1>4, <1>6, <1>7, TaskStep

LEMMA ApplyServices ==
  ASSUME ServicesInv, LockExcludes, RegistryInv', NEW t \in Runtime, apply(t)
  PROVE  ServicesInv' /\ KeepsNamed
<1> DEFINE x == Enter(task[t], "clean")
<1>1. task[t] \in Task /\ "clean" \in Section /\ task[t].stage = "inspected"
  BY TaskFields DEF ServicesInv, Section, apply
<1>2. task' = [task EXCEPT ![t] = x] /\ UNCHANGED <<registry, service, recorded, up, starts>>
  BY DEF apply, ServicesInv, RegistryInv, PortsTypeOK
<1>3. x \in Task /\ x.stage = "try" /\ x.section = "clean" /\ x.request = task[t].request
  BY <1>1, EnterFacts, EnterRest
<1> HIDE DEF x
<1>4. ~Holding(x) /\ ~IsFresh(x)
  BY <1>3 DEF Holding, IsFresh
<1>5. Fits(t, x, registry, service) /\ Proceeds(t, x)
  BY <1>3, <1>4 DEF Fits, Proceeds
<1>6. t \in up
  BY <1>1, Working
<1>7. QED  BY <1>2, <1>3, <1>5, <1>6, TaskStep

LEMMA HealthyServices ==
  ASSUME ServicesInv, LockExcludes, RegistryInv', NEW t \in Runtime, Healthy(t)
  PROVE  ServicesInv' /\ KeepsNamed
<1>1. /\ task' = [task EXCEPT ![t] = Idle] /\ task[t].stage = "health"
      /\ UNCHANGED <<registry, service, recorded, up, starts>>
  BY DEF Healthy
<1>2. Idle \in Task /\ Fits(t, Idle, registry, service) /\ Proceeds(t, Idle)
  BY IdleFacts, IdleFits DEF Proceeds
<1>3. t \in up
  BY <1>1, Working
<1>4. QED  BY <1>1, <1>2, <1>3, TaskStep

LEMMA DieServices ==
  ASSUME ServicesInv, LockExcludes, RegistryInv', NEW t \in Runtime, Die(t)
  PROVE  ServicesInv' /\ KeepsNamed
<1>1. /\ task' = [task EXCEPT ![t] = Idle] /\ UNCHANGED <<registry, recorded, starts>>
      /\ up' = up \ {t} /\ starts' \in {starts, starts + 1}
  BY DEF Die
<1>2. service \in Seq(Process)
  BY DEF ServicesInv, Recorded
<1>3. /\ DOMAIN service = 1..Len(service) /\ Len(service) \in Nat
      /\ \A k \in DOMAIN service : service[k] \in Process
  BY <1>2
<1>4. ASSUME NEW p \in Process
      PROVE  /\ [p EXCEPT !.state = "gone"] \in Process
             /\ [p EXCEPT !.state = "gone"].request = p.request
             /\ [p EXCEPT !.state = "gone"].port = p.port
             /\ [p EXCEPT !.state = "gone"].parent = p.parent
             /\ ~Lives([p EXCEPT !.state = "gone"])
  BY DEF Process, Lives
<1>5. /\ service' = [k \in DOMAIN service |-> service'[k]]
      /\ \A k \in DOMAIN service :
           service'[k] = service[k] \/ service'[k] = [service[k] EXCEPT !.state = "gone"]
  BY DEF Die
<1>6. DOMAIN service' = DOMAIN service /\ \A k \in DOMAIN service : service'[k] \in Process
  BY <1>3, <1>4, <1>5
<1>7. service' \in [1..Len(service) -> Process]
  BY <1>3, <1>5, <1>6
<1>8. service' \in Seq(Process)
  BY <1>3, <1>7
<1>9. Later(service, service')
  <2>1. ASSUME NEW k \in DOMAIN service
        PROVE  /\ service'[k].request = service[k].request /\ service'[k].port = service[k].port
               /\ service'[k].parent = service[k].parent
               /\ Lives(service'[k]) => Lives(service[k])
    <3>1. CASE service'[k] = service[k]
      BY <3>1
    <3>2. CASE service'[k] = [service[k] EXCEPT !.state = "gone"]
      BY <1>3, <1>4, <3>2
    <3>3. QED  BY <1>5, <3>1, <3>2
  <2>2. QED  BY <1>6, <2>1 DEF Later
<1>10. Idle \in Task /\ Fits(t, Idle, registry, service') /\ Proceeds(t, Idle)
  BY IdleFacts, IdleFits DEF Proceeds
<1>11. QED  BY <1>1, <1>8, <1>9, <1>10, QuietKeeps

\* A service binds its port, or ends by itself.
LEMMA ProcessServices ==
  ASSUME ServicesInv, RegistryInv', UNCHANGED <<registry, up, starts, task, recorded>>,
         service' \in Seq(Process), Later(service, service')
  PROVE  ServicesInv' /\ KeepsNamed
<1>1. TasksFit'
  <2>1. ASSUME NEW s \in Runtime PROVE Fits(s, task'[s], registry', service')
    <3>1. Fits(s, task[s], registry, service) /\ Apart(s, task[s], registry, registry, service)
      BY DEF ServicesInv, TasksFit, Apart
    <3>2. Fits(s, task[s], registry, service')
      BY <3>1, StillFits
    <3>3. QED  BY <3>2
  <2>2. QED  BY <2>1 DEF TasksFit
<1>2. HeldIds' /\ DeadIdle'
  BY DEF ServicesInv, HeldIds, DeadIdle
<1>3. Recorded' /\ KeepsNamed
  BY SameNamed
<1>4. QED  BY <1>1, <1>2, <1>3 DEF ServicesInv

\* An end leaves the process as a zombie or gone.
LEMMA EndedProcess ==
  ASSUME ServicesInv, NEW k \in DOMAIN service, NEW waited \in BOOLEAN, EndProcess(k, waited)
  PROVE  service' \in Seq(Process) /\ Later(service, service') /\ ~Lives(service'[k])
<1>1. PICK e \in {"zombie", "gone"} : service' = [service EXCEPT ![k].state = e]
  BY DEF EndProcess, Ended
<1>2. service \in Seq(Process)
  BY DEF ServicesInv, Recorded
<1>3. service' \in Seq(Process) /\ Later(service, service')
  BY <1>1, <1>2, LaterEnded
<1>4. service[k] \in Process
  BY <1>2
<1>5. service'[k] = [service[k] EXCEPT !.state = e]
  BY <1>1
<1>6. service'[k].state = e
  BY <1>4, <1>5 DEF Process
<1>7. QED  BY <1>3, <1>6 DEF Lives

LEMMA ListenServices ==
  ASSUME ServicesInv, RegistryInv', NEW k \in DOMAIN service, ServiceListens(k) \/ ServiceEnds(k)
  PROVE  ServicesInv' /\ KeepsNamed
<1>1. CASE ServiceListens(k)
  <2>1. /\ service' = [service EXCEPT ![k].state = "listening"]
        /\ service \in Seq(Process) /\ Lives(service[k])
        /\ UNCHANGED <<registry, up, starts, task, recorded>>
    BY <1>1 DEF ServiceListens, ServicesInv, Recorded, Lives
  <2>2. service' \in Seq(Process) /\ Later(service, service')
    BY <2>1, LaterEnded
  <2>3. QED  BY <2>1, <2>2, ProcessServices
<1>2. CASE ServiceEnds(k)
  <2>1. EndProcess(k, FALSE) /\ UNCHANGED <<registry, up, starts, task, recorded>>
    BY <1>2 DEF ServiceEnds
  <2>2. QED  BY <2>1, EndedProcess, ProcessServices
<1>3. QED  BY <1>1, <1>2

LEMMA SpawnServices ==
  ASSUME ServicesInv, LockExcludes, RegistryInv', NEW t \in Runtime, SpawnService(t)
  PROVE  ServicesInv' /\ KeepsNamed
<1>1. /\ task[t] \in Task /\ task[t].stage = "spawn" /\ t \in up
      /\ UNCHANGED <<registry, up, starts, recorded>>
      /\ Fits(t, task[t], registry, service)
  BY TaskFields, Working DEF ServicesInv, SpawnService, TasksFit
<1>2. Holding(task[t])
  BY <1>1 DEF Holding
<1>3. /\ Holds(t, task[t], registry, service)
      /\ task[t].section = "reserve" /\ task[t].target = None
  BY <1>1, <1>2 DEF Fits
<1>4. {"bind", "release"} \subseteq Section
  BY DEF Section
<1>5. CASE task' = [task EXCEPT ![t] = Enter(@, "release")] /\ UNCHANGED service
  <2> DEFINE x == Enter(task[t], "release")
  <2>1. /\ x \in Task /\ x.stage = "try" /\ x.section = "release" /\ x.request = task[t].request
        /\ x.lease = task[t].lease /\ x.target = None
    BY <1>1, <1>3, <1>4, EnterFacts, EnterRest
  <2>2. task' = [task EXCEPT ![t] = x]
    BY <1>5 DEF ServicesInv, RegistryInv, PortsTypeOK
  <2> HIDE DEF x
  <2>3. Fits(t, x, registry, service)
    BY <1>3, <2>1 DEF Fits, Holds, IsFresh
  <2>4. Proceeds(t, x)
    BY <1>2, <2>1 DEF Proceeds, IsFresh
  <2>5. QED  BY <1>1, <1>5, <2>1, <2>2, <2>3, <2>4, TaskStep
<1>6. CASE /\ service' = Append(service, [request |-> task[t].request, port |-> task[t].lease.port,
                                          parent |-> t, state |-> "starting"])
           /\ task' = [task EXCEPT ![t] = Enter([@ EXCEPT !.target = Len(service) + 1], "bind")]
  <2> DEFINE p == [request |-> task[t].request, port |-> task[t].lease.port,
                   parent |-> t, state |-> "starting"]
             k == Len(service) + 1
             y == [task[t] EXCEPT !.target = k]
             x == Enter(y, "bind")
  <2>1. task[t].lease.port \in Port /\ task[t].request \in Request \cup {None}
    BY <1>1, <1>3, LeaseFields DEF Holds, Task
  <2>2. p \in Process /\ p.request = task[t].request /\ p.port = task[t].lease.port /\ p.parent = t
    BY <2>1 DEF Process
  <2>3. service' = Append(service, p) /\ service \in Seq(Process)
    BY <1>6 DEF ServicesInv, Recorded
  <2>4. task' = [task EXCEPT ![t] = x]
    BY <1>6 DEF ServicesInv, RegistryInv, PortsTypeOK
  <2> HIDE DEF p
  <2>5. /\ service' \in Seq(Process) /\ Later(service, service')
        /\ k \in DOMAIN service' /\ service'[k] = p
    BY <2>2, <2>3, LaterSpawned
  <2>6. k \in Nat
    BY <2>3
  <2> HIDE DEF k
  <2>7. y \in Task /\ y.request = task[t].request /\ y.lease = task[t].lease /\ y.target = k
    BY <1>1, <2>6 DEF Task
  <2> HIDE DEF y
  <2>8. /\ x \in Task /\ x.stage = "try" /\ x.section = "bind" /\ x.request = task[t].request
        /\ x.lease = task[t].lease /\ x.target = k
    BY <1>4, <2>7, EnterFacts, EnterRest
  <2> HIDE DEF x
  <2>9. k # None
    BY <2>6, RegistryAssumption
  <2>10. Holds(t, x, registry, service')
    <3>1. ASSUME NEW m \in registry, m.id = x.lease.id
          PROVE  /\ m.request = x.request /\ m.port = x.lease.port
                 /\ \/ m.service \in {None, x.target}
                    \/ m.service \in DOMAIN service' /\ service'[m.service].parent # t
                 /\ m.owner = t => m.service \in {None, x.target}
      BY <1>3, <2>5, <2>8, <3>1 DEF Holds, Later
    <3>2. QED  BY <1>3, <2>2, <2>5, <2>8, <2>9, <3>1 DEF Holds
  <2>11. Fits(t, x, registry, service')
    BY <2>8, <2>10 DEF Fits, IsFresh
  <2>12. Proceeds(t, x)
    BY <1>2, <2>8 DEF Proceeds, IsFresh
  <2>13. /\ starts' \in {starts, starts + 1} /\ UNCHANGED <<registry, recorded>>
         /\ ((up' = up /\ t \in up) \/ (up' = up \ {t} /\ x = Idle))
    BY <1>1
  <2>14. QED  BY <2>4, <2>5, <2>8, <2>11, <2>12, <2>13, QuietKeeps
<1>7. QED  BY <1>5, <1>6 DEF SpawnService

LEMMA TerminateServices ==
  ASSUME ServicesInv, LockExcludes, RegistryInv', NEW t \in Runtime, terminate(t)
  PROVE  ServicesInv' /\ KeepsNamed
<1> DEFINE y == [task[t] EXCEPT !.ok = TRUE]
           x == Enter(y, "release")
           k == task[t].target
<1>1. /\ task[t] \in Task /\ task[t].stage = "terminate" /\ t \in up
      /\ UNCHANGED <<registry, up, starts, recorded>>
      /\ Fits(t, task[t], registry, service) /\ service \in Seq(Process)
  BY TaskFields, Working DEF ServicesInv, terminate, TasksFit, Recorded
<1>2. Holding(task[t])
  BY <1>1 DEF Holding
<1>3. Holds(t, task[t], registry, service)
  BY <1>1, <1>2 DEF Fits
<1>4. /\ service' \in Seq(Process) /\ Later(service, service')
      /\ k # None => k \in DOMAIN service' /\ ~Lives(service'[k])
  <2>1. k # None => k \in DOMAIN service
    BY <1>3 DEF Holds
  <2>2. CASE k # None /\ process_alive(k)
    <3>1. EndProcess(k, HasChild(t)) /\ HasChild(t) \in BOOLEAN
      BY <2>2 DEF terminate, HasChild
    <3>2. service' \in Seq(Process) /\ Later(service, service') /\ ~Lives(service'[k])
      BY <2>1, <2>2, <3>1, EndedProcess
    <3>3. QED  BY <2>1, <3>2 DEF Later
  <2>3. CASE ~(k # None /\ process_alive(k))
    <3>1. service' = service
      BY <2>3 DEF terminate
    <3>2. k # None => ~Lives(service[k])
      BY <2>3 DEF process_alive, Lives
    <3>3. QED  BY <1>1, <2>1, <3>1, <3>2, LaterSelf
  <2>4. QED  BY <2>2, <2>3
<1>5. task' = [task EXCEPT ![t] = x]
  BY DEF terminate, ServicesInv, RegistryInv, PortsTypeOK
<1>6. y \in Task /\ y.request = task[t].request /\ y.lease = task[t].lease /\ y.target = k
  BY <1>1 DEF Task
<1> HIDE DEF y
<1>7. "release" \in Section
  BY DEF Section
<1>8. /\ x \in Task /\ x.stage = "try" /\ x.section = "release" /\ x.request = task[t].request
      /\ x.lease = task[t].lease /\ x.target = k
  BY <1>6, <1>7, EnterFacts, EnterRest
<1> HIDE DEF x
<1>9. Holds(t, x, registry, service')
  <2>1. ASSUME NEW m \in registry, m.id = x.lease.id
        PROVE  /\ m.request = x.request /\ m.port = x.lease.port
               /\ \/ m.service \in {None, x.target}
                  \/ m.service \in DOMAIN service' /\ service'[m.service].parent # t
    BY <1>3, <1>4, <1>8, <2>1 DEF Holds, Later
  <2>2. QED  BY <1>3, <1>4, <1>8, <2>1 DEF Holds
<1>10. Fits(t, x, registry, service')
  BY <1>8, <1>9 DEF Fits, IsFresh
<1>11. Proceeds(t, x)
  BY <1>2, <1>8 DEF Proceeds, IsFresh
<1>12. /\ starts' \in {starts, starts + 1} /\ UNCHANGED <<registry, recorded>>
       /\ ((up' = up /\ t \in up) \/ (up' = up \ {t} /\ x = Idle))
  BY <1>1
<1>13. QED  BY <1>4, <1>5, <1>8, <1>10, <1>11, <1>12, QuietKeeps

-----------------------------------------------------------------------------
\* A section that replaces the file ends.
LEMMA SectionStep ==
  ASSUME ServicesInv, LockExcludes, RegistryInv', NEW t \in Runtime, NEW x \in Task,
         task[t].stage = "loaded", task' = [task EXCEPT ![t] = x],
         UNCHANGED <<service, up, starts>>,
         Proceeds(t, x), Writes(t, registry'), Fits(t, x, registry', service), Recorded',
         KeepsNamed
  PROVE  ServicesInv' /\ KeepsNamed
<1>1. Later(service, service') /\ Fits(t, x, registry', service')
  BY LaterSelf
<1>2. t \in up
  BY Working
<1>3. starts' \in {starts, starts + 1} /\ ((up' = up /\ t \in up) \/ (up' = up \ {t} /\ x = Idle))
  BY <1>2
<1>4. QED  BY <1>1, <1>3, OperationKeeps

\* What a section has read is the registry.
LEMMA HasRead ==
  ASSUME ServicesInv, NEW t \in Runtime, task[t].stage = "loaded"
  PROVE  /\ task[t].loaded = registry /\ task[t] \in Task /\ Fits(t, task[t], registry, service)
         /\ registry \subseteq Lease /\ RegistryLoads
         /\ Mine(t) = {l \in registry : l.request = task[t].request}
BY DEF ServicesInv, RegistryInv, PortsTypeOK, TasksFit, Fits, Mine

\* A lease of the request gets another owner or process.
LEMMA ReplaceServices ==
  ASSUME ServicesInv, LockExcludes, RegistryInv', NEW t \in Runtime, NEW x \in Task,
         task[t].stage = "loaded", task' = [task EXCEPT ![t] = x],
         UNCHANGED <<service, up, starts>>,
         x.stage = "unlock", x.section = task[t].section, x.section \in {"reserve", "bind"},
         x.request = task[t].request, x.request # None,
         NEW l \in registry, NEW n \in Lease, registry' = (registry \ {l}) \cup {n},
         l.request = task[t].request, n.id = l.id, n.port = l.port, n.request = l.request,
         n.owner = t, n.service = x.target, x.lease \in Lease, x.lease.id = l.id, x.lease.port = l.port,
         x.target # None => x.target \in DOMAIN service,
         x.section = "bind" => /\ x.target # None /\ service[x.target].request = x.request
                               /\ service[x.target].port = l.port /\ service[x.target].parent = t,
         n.service \in {None, l.service} \/ x.section = "bind",
         \/ recorded' = recorded
         \/ recorded' = recorded \cup {x.target} /\ x.section = "bind",
         l.service \in {None, n.service} \/ ~Lives(service[l.service])
  PROVE  ServicesInv' /\ KeepsNamed
<1>1. registry \subseteq Lease /\ RegistryLoads
  BY HasRead
<1>2. \A m \in registry' : m.id = l.id => m = n
  BY <1>1 DEF RegistryLoads
<1>3. Holds(t, x, registry', service)
  BY <1>2 DEF Holds
<1>4. ~IsFresh(x)
  BY DEF IsFresh
<1>5. Fits(t, x, registry', service)
  BY <1>3, <1>4 DEF Fits
<1>6. Proceeds(t, x)
  <2>1. l \in AllLeases
    BY DEF AllLeases
  <2>2. QED  BY <1>4, <2>1 DEF Proceeds
<1>7. Writes(t, registry')
  BY DEF Writes
<1>8. Recorded'
  <2>1. /\ service \in Seq(Process) /\ recorded \subseteq DOMAIN service
        /\ \A m \in registry : m.service # None => m.service \in DOMAIN service
    BY DEF ServicesInv, Recorded
  <2>2. service' = service /\ service' \in Seq(Process) /\ recorded' \subseteq DOMAIN service
    BY <2>1
  <2>3. \A m \in registry' : m.service # None => m.service \in DOMAIN service
    BY <2>1
  <2>4. QED  BY <2>2, <2>3 DEF Recorded
<1>9. KeepsNamed
  <2>1. ASSUME NEW k \in recorded', k \in recorded => Named(k), Living(k)
        PROVE  Named(k)'
    <3>1. n \in registry' /\ n.port = l.port /\ n.request = l.request
      OBVIOUS
    <3>2. CASE k \notin recorded
      <4>1. n.service = k /\ n.port = service[k].port /\ n.request = service[k].request
        BY <2>1, <3>2
      <4>2. QED  BY <3>1, <4>1 DEF Named
    <3>3. CASE k \in recorded
      <4>1. PICK m \in registry : /\ m.service = k /\ m.port = service[k].port
                                  /\ m.request = service[k].request
        BY <2>1, <3>3 DEF Named
      <4>2. CASE m # l
        <5>1. m \in registry'
          BY <4>2
        <5>2. QED  BY <4>1, <5>1 DEF Named
      <4>3. CASE m = l
        <5>1. k # None
          BY <3>3, RegistryAssumption DEF ServicesInv, Recorded
        <5>2. n.service = k
          BY <2>1, <4>1, <4>3, <5>1 DEF Living, Lives
        <5>3. QED  BY <3>1, <4>1, <4>3, <5>2 DEF Named
      <4>4. QED  BY <4>2, <4>3
    <3>4. QED  BY <3>2, <3>3
  <2>2. QED  BY <2>1 DEF KeepsNamed
<1>10. QED  BY <1>5, <1>6, <1>7, <1>8, <1>9, SectionStep

LEMMA AdoptServices ==
  ASSUME ServicesInv, LockExcludes, RegistryInv', NEW t \in Runtime, In(t, "reserve"),
         NEW l \in Mine(t), Adopt(t, l), UNCHANGED <<service, up, starts, recorded>>
  PROVE  ServicesInv' /\ KeepsNamed
<1> DEFINE x == [task[t] EXCEPT !.lease = l, !.target = l.service, !.stage = "unlock"]
           n == [l EXCEPT !.owner = t]
<1>1. task[t].stage = "loaded" /\ task[t].section = "reserve"
  BY DEF In
<1>2. /\ task[t].loaded = registry /\ task[t] \in Task /\ registry \subseteq Lease
      /\ l \in registry /\ l \in Lease /\ l.request = task[t].request
      /\ Fits(t, task[t], registry, service)
  BY <1>1, HasRead
<1>3. /\ task' = [task EXCEPT ![t] = x] /\ registry' = (registry \ {l}) \cup {n}
  BY <1>2 DEF Adopt, ServicesInv, RegistryInv, PortsTypeOK
<1>4. /\ l.service \in Nat \cup {None} /\ task[t].request # None
      /\ l.service # None => l.service \in DOMAIN service
  BY <1>1, <1>2, LeaseFields DEF Fits, ServicesInv, Recorded
<1>5. x \in Task /\ x.stage = "unlock" /\ x.lease = l /\ x.target = l.service
  BY ZenonT(40), <1>2, <1>4 DEF Task, TaskStage
<1>6. x.section = task[t].section /\ x.request = task[t].request
  BY <1>2 DEF Task
<1>7. /\ n \in Lease /\ n.id = l.id /\ n.port = l.port /\ n.request = l.request /\ n.owner = t
      /\ n.service = l.service
  BY <1>2 DEF Lease
<1> HIDE DEF x, n
<1>8. /\ x.section \in {"reserve", "bind"} /\ x.section # "bind" /\ x.request # None
      /\ x.lease \in Lease /\ x.lease.id = l.id /\ x.lease.port = l.port
      /\ x.target # None => x.target \in DOMAIN service
      /\ n.service = x.target /\ l.service \in {None, n.service} /\ n.service \in {None, l.service}
  BY <1>1, <1>2, <1>4, <1>5, <1>6, <1>7
<1>9. QED  BY <1>1, <1>2, <1>3, <1>5, <1>6, <1>7, <1>8, ReplaceServices

LEMMA RebindServices ==
  ASSUME ServicesInv, LockExcludes, RegistryInv', NEW t \in Runtime, In(t, "reserve"),
         NEW l \in Mine(t), Rebind(t, l), UNCHANGED <<service, up, starts, recorded>>
  PROVE  ServicesInv' /\ KeepsNamed
<1> DEFINE x == [task[t] EXCEPT !.lease = l, !.stage = "unlock"]
           n == [l EXCEPT !.owner = t, !.service = None]
<1>1. task[t].stage = "loaded" /\ task[t].section = "reserve"
  BY DEF In
<1>2. /\ task[t].loaded = registry /\ task[t] \in Task /\ registry \subseteq Lease
      /\ l \in registry /\ l \in Lease /\ l.request = task[t].request
      /\ Fits(t, task[t], registry, service)
  BY <1>1, HasRead
<1>3. /\ task' = [task EXCEPT ![t] = x] /\ registry' = (registry \ {l}) \cup {n}
  BY <1>2 DEF Rebind, ServicesInv, RegistryInv, PortsTypeOK
<1>4. task[t].request # None /\ task[t].target = None
  BY <1>1, <1>2 DEF Fits, IsFresh
<1>5. l.service = None \/ ~Lives(service[l.service])
  BY DEF Rebind, process_alive, Lives
<1>6. x \in Task /\ x.stage = "unlock" /\ x.lease = l
  BY ZenonT(40), <1>2 DEF Task, TaskStage
<1>7. x.section = task[t].section /\ x.request = task[t].request /\ x.target = None
  BY <1>2, <1>4 DEF Task
<1>8. /\ n \in Lease /\ n.id = l.id /\ n.port = l.port /\ n.request = l.request /\ n.owner = t
      /\ n.service = None
  BY <1>2 DEF Lease
<1> HIDE DEF x, n
<1>9. /\ x.section \in {"reserve", "bind"} /\ x.section # "bind" /\ x.request # None
      /\ x.lease \in Lease /\ x.lease.id = l.id /\ x.lease.port = l.port
      /\ x.target = None /\ n.service = x.target /\ n.service \in {None, l.service}
      /\ l.service \in {None, n.service} \/ ~Lives(service[l.service])
  BY <1>1, <1>2, <1>4, <1>5, <1>6, <1>7, <1>8
<1>10. QED  BY <1>1, <1>2, <1>3, <1>6, <1>7, <1>8, <1>9, ReplaceServices

LEMMA AcquireServices ==
  ASSUME ServicesInv, LockExcludes, RegistryInv', NEW t \in Runtime, In(t, "reserve"),
         Acquire(t), UNCHANGED <<service, up, starts, recorded>>
  PROVE  ServicesInv' /\ KeepsNamed
<1> DEFINE p == Min(Selectable(t))
           l == [id |-> task[t].at, request |-> task[t].request, port |-> p, owner |-> t,
                 service |-> None]
           x == [task[t] EXCEPT !.lease = l, !.stage = "unlock"]
<1>1. task[t].stage = "loaded" /\ task[t].section = "reserve"
  BY DEF In
<1>2. /\ task[t].loaded = registry /\ task[t] \in Task
      /\ Fits(t, task[t], registry, service) /\ IsFresh(task[t])
  BY <1>1, HasRead DEF IsFresh
<1>3. /\ registry' = registry \cup {l} /\ task' = [task EXCEPT ![t] = x] /\ Selectable(t) # {}
  BY <1>2 DEF Acquire, ServicesInv, RegistryInv, PortsTypeOK
<1>4. p \in Port
  <2>1. Selectable(t) \subseteq Nat
    BY DEF Selectable, Port
  <2>2. QED  BY <1>3, <2>1, MinIn DEF Selectable
<1> HIDE DEF p
<1>5. /\ l \in Lease /\ l.id = task[t].at /\ l.port = p /\ l.request = task[t].request
      /\ l.owner = t /\ l.service = None
  BY <1>2, <1>4 DEF Lease, Task
<1> HIDE DEF l
<1>6. task[t].request # None /\ task[t].target = None
  BY <1>1, <1>2 DEF Fits
<1>7. x \in Task /\ x.stage = "unlock" /\ x.lease = l
  BY ZenonT(40), <1>2, <1>5 DEF Task, TaskStage
<1>8. x.section = "reserve" /\ x.request = task[t].request /\ x.target = None
  BY <1>1, <1>2, <1>6 DEF Task
<1> HIDE DEF x
<1>9. \A m \in registry : m.id # task[t].at
  BY <1>2 DEF ServicesInv, RegistryInv, IdsInv, AllLeases
<1>10. \A m \in registry' : m.id = l.id => m = l
  BY <1>3, <1>5, <1>9
<1>11. Holds(t, x, registry', service)
  BY <1>3, <1>5, <1>6, <1>7, <1>8, <1>10 DEF Holds
<1>12. ~IsFresh(x)
  BY <1>7 DEF IsFresh
<1>13. Fits(t, x, registry', service)
  BY <1>6, <1>7, <1>8, <1>11, <1>12 DEF Fits
<1>14. Proceeds(t, x)
  BY <1>2, <1>5, <1>7, <1>8, <1>12 DEF Proceeds
<1>15. Writes(t, registry')
  BY <1>1, <1>2, <1>3, <1>5 DEF Writes
<1>16. Recorded'
  BY <1>3, <1>5 DEF ServicesInv, Recorded
<1>17. KeepsNamed
  <2>1. \A k \in recorded : Named(k) => Named(k)'
    BY <1>3 DEF Named
  <2>2. QED  BY <2>1 DEF KeepsNamed
<1>18. QED  BY <1>1, <1>3, <1>7, <1>13, <1>14, <1>15, <1>16, <1>17, SectionStep

LEMMA ReserveServices ==
  ASSUME ServicesInv, LockExcludes, RegistryInv', NEW t \in Runtime, reserve(t)
  PROVE  ServicesInv' /\ KeepsNamed
<1>1. In(t, "reserve") /\ UNCHANGED <<service, up, starts, recorded>>
  BY DEF reserve
<1>2. CASE \E l \in Mine(t) : Adopt(t, l)
  BY <1>1, <1>2, AdoptServices
<1>3. CASE \E l \in Mine(t) : Rebind(t, l)
  BY <1>1, <1>3, RebindServices
<1>4. CASE Acquire(t)
  BY <1>1, <1>4, AcquireServices
<1>5. CASE ReserveRefused(t)
  <2>1. Refuse(t) /\ UNCHANGED <<registry, service, recorded, up, starts>> /\ task[t].stage = "loaded"
    BY <1>1, <1>5 DEF ReserveRefused, In
  <2>2. QED  BY <2>1, RefuseServices
<1>6. QED  BY <1>2, <1>3, <1>4, <1>5 DEF reserve

\* Another runtime may have removed the lease or taken it over.
LEMMA BindServices ==
  ASSUME ServicesInv, LockExcludes, RegistryInv', NEW t \in Runtime, bind_service_process(t)
  PROVE  ServicesInv' /\ KeepsNamed
<1> DEFINE k == task[t].target
           found == {l \in registry : l.id = task[t].lease.id /\ l.owner = t}
           x == [task[t] EXCEPT !.ok = (found # {}), !.stage = "unlock"]
<1>1. task[t].stage = "loaded" /\ task[t].section = "bind"
  BY DEF In, bind_service_process
<1>2. /\ task[t].loaded = registry /\ task[t] \in Task /\ RegistryLoads /\ registry \subseteq Lease
      /\ Fits(t, task[t], registry, service)
  BY <1>1, HasRead
<1>3. Holds(t, task[t], registry, service)
  BY <1>1, <1>2 DEF Fits, Holding
<1>4. task' = [task EXCEPT ![t] = x] /\ UNCHANGED <<service, up, starts>>
  BY <1>2 DEF bind_service_process, ServicesInv, RegistryInv, PortsTypeOK
<1>5. /\ registry' = IF found = {} THEN registry
                     ELSE (registry \ found) \cup {[m EXCEPT !.service = k] : m \in found}
      /\ recorded' = IF found = {} THEN recorded ELSE recorded \cup {k}
  BY <1>2 DEF bind_service_process
<1>6. x \in Task /\ x.stage = "unlock"
  BY ZenonT(40), <1>2 DEF Task, TaskStage
<1>7. /\ x.section = "bind" /\ x.request = task[t].request /\ x.target = k
      /\ x.lease = task[t].lease
  BY <1>1, <1>2 DEF Task
<1> HIDE DEF x
<1>8. CASE found = {}
  <2>1. UNCHANGED <<registry, recorded>>
    BY <1>5, <1>8
  <2>2. Holding(task[t]) /\ ~IsFresh(x)
    BY <1>1, <1>6 DEF Holding, IsFresh
  <2>3. Holds(t, x, registry, service)
    BY <1>1, <1>3, <1>7 DEF Holds
  <2>4. Fits(t, x, registry, service)
    BY <1>6, <1>7, <2>2, <2>3 DEF Fits
  <2>5. Proceeds(t, x)
    BY <1>7, <2>2 DEF Proceeds
  <2>6. t \in up
    BY <1>1, Working
  <2>7. QED  BY <1>4, <1>6, <2>1, <2>4, <2>5, <2>6, TaskStep
<1>9. CASE found # {}
  <2>1. PICK l \in found : TRUE
    BY <1>9
  <2>2. found = {l} /\ l \in registry /\ l \in Lease /\ l.id = task[t].lease.id /\ l.owner = t
    BY <1>2, <2>1 DEF RegistryLoads
  <2> DEFINE n == [l EXCEPT !.service = k]
  <2>3. registry' = (registry \ {l}) \cup {n} /\ recorded' = recorded \cup {k}
    BY <1>5, <1>9, <2>2
  <2>4. k \in Nat \cup {None}
    BY <1>2 DEF Task
  <2> HIDE DEF found
  <2>5. /\ n \in Lease /\ n.id = l.id /\ n.port = l.port /\ n.request = l.request /\ n.owner = t
        /\ n.service = k
    BY <2>2, <2>4 DEF Lease
  <2> HIDE DEF n
  <2>6. /\ l.request = task[t].request /\ l.port = task[t].lease.port /\ l.service \in {None, k}
        /\ task[t].request # None /\ task[t].lease \in Lease
        /\ k # None /\ k \in DOMAIN service /\ service[k].request = task[t].request
        /\ service[k].port = l.port /\ service[k].parent = t
    BY <1>1, <1>3, <2>2 DEF Holds
  <2> HIDE DEF k
  <2>7. recorded' = recorded \cup {x.target} /\ x.section = task[t].section
    BY <1>1, <1>7, <2>3
  <2>8. /\ x.lease \in Lease /\ x.lease.id = l.id /\ x.lease.port = l.port
        /\ x.target # None => x.target \in DOMAIN service
        /\ x.target # None /\ service[x.target].request = x.request
        /\ service[x.target].port = l.port /\ service[x.target].parent = t
        /\ l.service \in {None, n.service} /\ n.service = x.target /\ x.request # None
    BY <1>7, <2>2, <2>5, <2>6
  <2>9. QED
    BY <1>1, <1>4, <1>6, <1>7, <2>2, <2>3, <2>5, <2>6, <2>7, <2>8, ReplaceServices
<1>10. QED  BY <1>8, <1>9

\* A section that only removes leases.
LEMMA RemoveServices ==
  ASSUME ServicesInv, LockExcludes, RegistryInv', NEW t \in Runtime,
         release(t) \/ cleanup_orphaned(t)
  PROVE  ServicesInv' /\ KeepsNamed
<1> DEFINE x == [task[t] EXCEPT !.stage = "unlock"]
<1>1. /\ task[t].stage = "loaded" /\ task[t].section \in {"release", "clean"}
      /\ UNCHANGED <<service, up, starts, recorded>>
  BY DEF release, cleanup_orphaned, In
<1>2. /\ task[t].loaded = registry /\ task[t] \in Task /\ Fits(t, task[t], registry, service)
  BY <1>1, HasRead
<1>3. task' = [task EXCEPT ![t] = x] /\ registry' \subseteq registry
  BY <1>2 DEF release, cleanup_orphaned, ServicesInv, RegistryInv, PortsTypeOK
<1>4. x \in Task /\ x.stage = "unlock"
  BY ZenonT(40), <1>2 DEF Task, TaskStage
<1>5. /\ x.section = task[t].section /\ x.request = task[t].request /\ x.lease = task[t].lease
      /\ x.target = task[t].target
  BY <1>2 DEF Task
<1> HIDE DEF x
<1>6. (Holding(x) => Holding(task[t]) /\ x.section = "release") /\ ~IsFresh(x)
  BY <1>1, <1>4, <1>5 DEF Holding, IsFresh
<1>7. Fits(t, x, registry', service)
  <2>1. ASSUME Holding(x) PROVE Holds(t, x, registry', service)
    <3>1. Holds(t, task[t], registry, service)
      BY <1>2, <1>6, <2>1 DEF Fits
    <3>2. QED  BY <1>3, <1>5, <1>6, <2>1, <3>1 DEF Holds
  <2>2. QED  BY <1>1, <1>4, <1>5, <1>6, <2>1 DEF Fits
<1>8. Proceeds(t, x)
  BY <1>5, <1>6 DEF Proceeds
<1>9. Writes(t, registry')
  BY <1>1, <1>3 DEF Writes
<1>10. Recorded'
  BY <1>1, <1>3 DEF ServicesInv, Recorded
<1>11. KeepsNamed
  <2>1. ASSUME NEW k \in recorded, Named(k), Living(k)
        PROVE  Named(k)' \/ ReleasesUnread(t, k)
    <3>1. k \in DOMAIN service /\ k # None
      BY RegistryAssumption DEF ServicesInv, Recorded
    <3>2. PICK m \in registry : /\ m.service = k /\ m.port = service[k].port
                                /\ m.request = service[k].request
      BY <2>1 DEF Named
    <3>3. CASE m \in registry'
      BY <1>1, <3>2, <3>3 DEF Named
    <3>4. CASE m \notin registry' /\ release(t)
      <4>1. In(t, "release") /\ task[t].section = "release" /\ m.id = task[t].lease.id
        BY <1>2, <3>4 DEF release, In
      <4>2. Holds(t, task[t], registry, service)
        BY <1>2, <4>1 DEF Fits, Holding
      <4>3. task[t].request = service[k].request
        BY <3>2, <4>1, <4>2 DEF Holds
      <4>4. task[t].target # k
        BY <2>1, <3>1, <4>1, <4>2 DEF Holds, Living, Lives
      <4>5. service[k].parent # t
        BY <3>1, <3>2, <4>1, <4>2, <4>4 DEF Holds
      <4>6. registry' # task[t].loaded
        BY <1>2, <3>4
      <4>7. QED  BY <4>1, <4>3, <4>4, <4>5, <4>6 DEF ReleasesUnread
    <3>5. CASE m \notin registry' /\ cleanup_orphaned(t)
      <4>1. Orphan(m)
        BY <1>2, <3>5 DEF cleanup_orphaned
      <4>2. ~process_alive(k)
        BY <3>1, <3>2, <4>1 DEF Orphan
      <4>3. QED  BY <2>1, <4>2 DEF Living, process_alive
    <3>6. QED  BY <3>3, <3>4, <3>5
  <2>2. t \in up
    BY <1>1, Working
  <2>3. QED  BY <1>1, <2>1, <2>2 DEF KeepsNamed
<1>12. QED  BY <1>1, <1>3, <1>4, <1>7, <1>8, <1>9, <1>10, <1>11, SectionStep

-----------------------------------------------------------------------------
LEMMA ServicesInitHolds == PortsInit => ServicesInv
<1> SUFFICES ASSUME PortsInit PROVE ServicesInv
  OBVIOUS
<1>1. RegistryInv
  BY PortsInitHolds
<1>2. \A t \in Runtime : task[t] = Idle
  BY DEF PortsInit
<1>3. DeadIdle
  BY <1>2, IdleFits DEF DeadIdle, PortsInit
<1>4. HeldIds
  BY <1>2, IdleFits DEF HeldIds
<1>5. TasksFit
  BY <1>2, IdleFits DEF TasksFit
<1>6. Recorded
  <2>1. service \in Seq(Process)
    BY DEF PortsInit
  <2>2. QED  BY <2>1 DEF Recorded, PortsInit
<1>7. QED  BY <1>1, <1>3, <1>4, <1>5, <1>6 DEF ServicesInv

LEMMA ServicesNextKeeps ==
  ServicesInv /\ LockExcludes /\ [PortsNext]_portVars => ServicesInv' /\ KeepsNamed
<1> SUFFICES ASSUME ServicesInv, LockExcludes, [PortsNext]_portVars PROVE ServicesInv' /\ KeepsNamed
  OBVIOUS
<1>1. RegistryInv'
  BY PortsNextKeeps DEF ServicesInv
<1>2. ASSUME NEW t \in Runtime, RuntimeNext(t) PROVE ServicesInv' /\ KeepsNamed
  <2>1. CASE \E r \in Request : StartService(t, r) \/ StopOwner(t, r)
    BY <1>1, <2>1, StartServices, StopServices
  <2>2. CASE Preview(t)
    BY <1>1, <2>2, PreviewServices
  <2>3. CASE \/ CreateLock(t) \/ WriteLock(t) \/ FindStale(t) \/ RemoveStale(t)
             \/ prepare_service_spawn(t) \/ Unhealthy(t)
    BY <1>1, <2>3, LockServices
  <2>4. CASE WriteLockFails(t) \/ LockFails(t) \/ Unlock(t)
    BY <1>1, <2>4, ThenServices
  <2>5. CASE load_registry(t)
    BY <1>1, <2>5, ReadServices
  <2>6. CASE reserve(t)
    BY <1>1, <2>6, ReserveServices
  <2>7. CASE bind_service_process(t)
    BY <1>1, <2>7, BindServices
  <2>8. CASE release(t) \/ cleanup_orphaned(t)
    BY <1>1, <2>8, RemoveServices
  <2>9. CASE leases_for_owner(t)
    BY <1>1, <2>9, ListServices
  <2>10. CASE orphaned(t)
    BY <1>1, <2>10, OrphanedServices
  <2>11. CASE SectionFails(t)
    <3>1. task[t].stage = "loaded" /\ Refuse(t) /\ UNCHANGED <<registry, service, recorded, up, starts>>
      BY <2>11 DEF SectionFails
    <3>2. QED  BY <1>1, <3>1, RefuseServices
  <2>12. CASE SpawnService(t)
    BY <1>1, <2>12, SpawnServices
  <2>13. CASE Healthy(t)
    BY <1>1, <2>13, HealthyServices
  <2>14. CASE terminate(t)
    BY <1>1, <2>14, TerminateServices
  <2>15. CASE apply(t)
    BY <1>1, <2>15, ApplyServices
  <2>16. CASE Die(t)
    BY <1>1, <2>16, DieServices
  <2>17. QED
    BY <1>2, <2>1, <2>2, <2>3, <2>4, <2>5, <2>6, <2>7, <2>8, <2>9, <2>10, <2>11, <2>12, <2>13,
       <2>14, <2>15, <2>16 DEF RuntimeNext
<1>3. ASSUME NEW k \in DOMAIN service, ServiceListens(k) \/ ServiceEnds(k) PROVE ServicesInv' /\ KeepsNamed
  BY <1>1, <1>3, ListenServices
<1>4. CASE UNCHANGED portVars
  <2>1. UNCHANGED <<registry, up, starts, task, recorded, service>>
    BY <1>4 DEF portVars
  <2>2. service' \in Seq(Process) /\ Later(service, service')
    BY <2>1, LaterSelf DEF ServicesInv, Recorded
  <2>3. QED  BY <1>1, <2>1, <2>2, ProcessServices
<1>5. QED  BY <1>2, <1>3, <1>4 DEF PortsNext

(***************************************************************************)
(* resources/services.rs and ports.rs: with any number of runtimes that    *)
(* the lock keeps apart, also on one request, no step but a release by an  *)
(* operation that read another process or none takes the lease of a        *)
(* recorded service that lives, whatever fails or dies half-way.           *)
(***************************************************************************)
THEOREM ExcludedServicesRecorded == PortsSpec /\ []LockExcludes => ServiceStaysRecorded
<1>1. ServicesInv /\ LockExcludes /\ [PortsNext]_portVars => ServicesInv'
  BY ServicesNextKeeps
<1>2. ServicesInv /\ LockExcludes /\ [PortsNext]_portVars =>
        [\A k \in recorded' :
           (k \in recorded => Named(k)) /\ Living(k) /\ Living(k)' =>
             Named(k)' \/ \E t \in up : ReleasesUnread(t, k)]_portVars
  BY ServicesNextKeeps DEF KeepsNamed
<1>3. QED  BY <1>1, <1>2, ServicesInitHolds, PTL DEF PortsSpec, ServiceStaysRecorded

-----------------------------------------------------------------------------
(***************************************************************************)
(* The lock file does exclude two runtimes: the one that finds the other's *)
(* file stale is alone.  With three it does not (PortsStaleLock).          *)
(***************************************************************************)
LockFile == [by: Runtime, written: BOOLEAN]
AtMostTwo == \A s, t, u \in Runtime : s = t \/ t = u \/ s = u
AtLock(x) == x.stage \in {"created", "held", "loaded", "unlock"}

LockInv ==
  /\ lockFile \in LockFile \cup {None}
  /\ \A t \in Runtime : t \notin up => task[t] = Idle
  /\ \A t \in Runtime : AtLock(task[t]) => lockFile # None /\ lockFile.by = t
  /\ \A t, u \in Runtime : task[t].stage = "stale" /\ u # t => u \notin up

LEMMA LockStep ==
  ASSUME RegistryInv, LockInv, NEW t \in Runtime, NEW x, task' = [task EXCEPT ![t] = x],
         (up' = up /\ t \in up) \/ (up' = up \ {t} /\ x = Idle),
         lockFile' \in LockFile \cup {None},
         lockFile' = lockFile \/ \A u \in Runtime : u # t => ~AtLock(task[u]),
         AtLock(x) => lockFile' # None /\ lockFile'.by = t,
         x.stage = "stale" => \A u \in Runtime : u # t => u \notin up
  PROVE  LockInv'
<1>1. task'[t] = x /\ \A u \in Runtime : u # t => task'[u] = task[u]
  BY DEF RegistryInv, PortsTypeOK
<1>2. \A u \in Runtime : u \notin up' => task'[u] = Idle
  BY <1>1 DEF LockInv
<1>3. \A u \in Runtime : AtLock(task'[u]) => lockFile' # None /\ lockFile'.by = u
  BY <1>1 DEF LockInv
<1>4. \A s, u \in Runtime : task'[s].stage = "stale" /\ u # s => u \notin up'
  BY <1>1 DEF LockInv
<1>5. QED  BY <1>2, <1>3, <1>4 DEF LockInv

LEMMA LockWorking ==
  ASSUME LockInv, NEW t \in Runtime, task[t].stage # "idle"
  PROVE  t \in up
<1>1. Idle.stage = "idle"
  BY DEF Idle
<1>2. QED  BY <1>1 DEF LockInv

\* A step of t that leaves the lock file alone, and does not take the lock.
LEMMA LockUntouched ==
  ASSUME RegistryInv, LockInv, NEW t \in Runtime, NEW x, task' = [task EXCEPT ![t] = x],
         (up' = up /\ t \in up) \/ (up' = up \ {t} /\ x = Idle), lockFile' = lockFile,
         AtLock(x) => AtLock(task[t]), x.stage # "stale"
  PROVE  LockInv'
<1>1. lockFile' \in LockFile \cup {None} /\ (AtLock(x) => lockFile' # None /\ lockFile'.by = t)
  BY DEF LockInv
<1>2. QED  BY <1>1, LockStep

LEMMA ThenStage ==
  ASSUME NEW x \in Task
  PROVE  Then(x).stage \in {"idle", "health", "prepared", "terminate", "inspected"}
<1>1. \A s \in {"health", "prepared", "terminate", "inspected"} : Stage(x, s).stage = s
  BY StageFacts DEF TaskStage
<1>2. \/ Then(x) = Idle
      \/ \E s \in {"health", "prepared", "terminate", "inspected"} : Then(x) = Stage(x, s)
  BY DEF Then
<1>3. Idle.stage = "idle"
  BY DEF Idle
<1>4. QED  BY <1>1, <1>2, <1>3

LEMMA LockBegins ==
  ASSUME RegistryInv, LockInv, NEW t \in Runtime,
         \/ \E r \in Request : StartService(t, r) \/ StopOwner(t, r)
         \/ Preview(t) \/ apply(t) \/ Healthy(t) \/ Die(t) \/ SpawnService(t) \/ terminate(t)
  PROVE  LockInv'
<1>1. lockFile' = lockFile
  BY DEF StartService, StopOwner, Preview, apply, Healthy, Die, SpawnService, terminate
<1>2. task[t] \in Task /\ task \in [Runtime -> Task]
  BY TaskFields DEF RegistryInv, PortsTypeOK
<1>3. Idle.stage = "idle"
  BY DEF Idle
<1>5. CASE Healthy(t) \/ Die(t)
  <2>1. task' = [task EXCEPT ![t] = Idle]
    BY <1>5 DEF Healthy, Die
  <2>2. (up' = up /\ t \in up) \/ (up' = up \ {t} /\ Idle = Idle)
    BY <1>5, LockWorking DEF Healthy, Die
  <2>3. ~AtLock(Idle) /\ Idle.stage # "stale"
    BY <1>3 DEF AtLock
  <2>4. QED  BY <1>1, <2>1, <2>2, <2>3, LockUntouched
<1>6. ASSUME NEW y \in Task, NEW s \in Section, task' = [task EXCEPT ![t] = Enter(y, s)],
             up' = up, t \in up
      PROVE  LockInv'
  <2>1. Enter(y, s).stage = "try"
    BY <1>6, EnterRest
  <2>2. ~AtLock(Enter(y, s)) /\ Enter(y, s).stage # "stale"
    BY <2>1 DEF AtLock
  <2>3. (up' = up /\ t \in up) \/ (up' = up \ {t} /\ Enter(y, s) = Idle)
    BY <1>6
  <2>4. QED  BY <1>1, <1>6, <2>2, <2>3, LockUntouched
<1>7. {"reserve", "list", "preview", "clean", "bind", "release"} \subseteq Section
  BY DEF Section
<1>8. CASE \E r \in Request : StartService(t, r) \/ StopOwner(t, r)
  <2>1. PICK r \in Request : StartService(t, r) \/ StopOwner(t, r)
    BY <1>8
  <2>2. starts + 1 \in Nat
    BY DEF RegistryInv, PortsTypeOK
  <2>3. /\ [Idle EXCEPT !.do = "start", !.request = r, !.at = starts + 1] \in Task
        /\ [Idle EXCEPT !.do = "stop", !.request = r] \in Task
    BY <2>2 DEF Idle, Task, TaskStage, Section
  <2>4. t \in up /\ up' = up
    BY <2>1 DEF StartService, StopOwner
  <2>5. CASE StartService(t, r)
    <3>1. task' = [task EXCEPT ![t] =
                     Enter([Idle EXCEPT !.do = "start", !.request = r, !.at = starts + 1], "reserve")]
      BY <2>5 DEF StartService
    <3>2. QED  BY <1>6, <1>7, <2>3, <2>4, <3>1
  <2>6. CASE StopOwner(t, r)
    <3>1. task' = [task EXCEPT ![t] = Enter([Idle EXCEPT !.do = "stop", !.request = r], "list")]
      BY <2>6 DEF StopOwner
    <3>2. QED  BY <1>6, <1>7, <2>3, <2>4, <3>1
  <2>7. QED  BY <2>1, <2>5, <2>6
<1>9. CASE Preview(t)
  <2>1. [Idle EXCEPT !.do = "cleanup"] \in Task
    BY DEF Idle, Task, TaskStage, Section
  <2>2. task' = [task EXCEPT ![t] = Enter([Idle EXCEPT !.do = "cleanup"], "preview")]
        /\ t \in up /\ up' = up
    BY <1>9 DEF Preview
  <2>3. QED  BY <1>6, <1>7, <2>1, <2>2
<1>10. CASE apply(t) \/ SpawnService(t) \/ terminate(t)
  <2>1. t \in up /\ up' = up
    BY <1>10, LockWorking DEF apply, SpawnService, terminate
  <2>2. /\ task[t] \in Task /\ [task[t] EXCEPT !.ok = TRUE] \in Task
        /\ SpawnService(t) => [task[t] EXCEPT !.target = Len(service) + 1] \in Task
    <3>1. Len(service) \in Nat
      BY DEF RegistryInv, PortsTypeOK
    <3>2. Len(service) + 1 \in Nat
      BY <3>1
    <3>3. QED  BY <1>2, <3>2 DEF Task
  <2>3. \/ task' = [task EXCEPT ![t] = Enter(task[t], "clean")]
        \/ task' = [task EXCEPT ![t] = Enter(task[t], "release")]
        \/ task' = [task EXCEPT ![t] = Enter([task[t] EXCEPT !.ok = TRUE], "release")]
        \/ SpawnService(t) /\
           task' = [task EXCEPT ![t] = Enter([task[t] EXCEPT !.target = Len(service) + 1], "bind")]
    BY <1>2, <1>10 DEF apply, SpawnService, terminate
  <2>4. QED  BY <1>6, <1>7, <2>1, <2>2, <2>3
<1>11. QED  BY <1>5, <1>8, <1>9, <1>10

LEMMA LockStages ==
  ASSUME RegistryInv, LockInv, AtMostTwo, NEW t \in Runtime,
         \/ CreateLock(t) \/ WriteLock(t) \/ FindStale(t) \/ RemoveStale(t)
         \/ prepare_service_spawn(t) \/ Unhealthy(t)
  PROVE  LockInv'
<1>1. task[t] \in Task /\ t \in up /\ up' = up /\ task \in [Runtime -> Task]
  BY TaskFields, LockWorking
     DEF CreateLock, WriteLock, FindStale, RemoveStale, prepare_service_spawn, Unhealthy,
         RegistryInv, PortsTypeOK
<1>2. \A s \in {"created", "held", "stale", "try", "spawn", "terminate"} :
        Stage(task[t], s).stage = s
  BY <1>1, StageFacts DEF TaskStage
<1>3. Idle.stage = "idle"
  BY DEF Idle
<1>4. AtLock(task[t]) => \A u \in Runtime : u # t => ~AtLock(task[u])
  BY DEF LockInv
<1>5. CASE CreateLock(t)
  <2>1. /\ task' = [task EXCEPT ![t] = Stage(task[t], "created")] /\ lockFile = None
        /\ lockFile' = [by |-> t, written |-> FALSE]
    BY <1>1, <1>5 DEF CreateLock
  <2>2. lockFile' \in LockFile /\ lockFile'.by = t
    BY <2>1 DEF LockFile
  <2>3. lockFile' # None
    BY <2>2, NoLockAssumption DEF LockFile
  <2>4. \A u \in Runtime : u # t => ~AtLock(task[u])
    BY <2>1 DEF LockInv
  <2>5. Stage(task[t], "created").stage # "stale"
    BY <1>2
  <2>6. QED  BY <1>1, <2>1, <2>2, <2>3, <2>4, <2>5, LockStep
<1>6. CASE WriteLock(t)
  <2>1. AtLock(task[t])
    BY <1>6 DEF WriteLock, AtLock
  <2>2. lockFile \in LockFile /\ lockFile # None /\ lockFile.by = t
    BY <2>1 DEF LockInv
  <2>3. /\ task' = [task EXCEPT ![t] = Stage(task[t], "held")]
        /\ lockFile' = [lockFile EXCEPT !.written = TRUE]
    BY <1>1, <1>6, <2>2 DEF WriteLock
  <2>4. lockFile' \in LockFile /\ lockFile'.by = t
    BY <2>2, <2>3 DEF LockFile
  <2>5. lockFile' # None
    BY <2>4, NoLockAssumption DEF LockFile
  <2>6. Stage(task[t], "held").stage # "stale"
    BY <1>2
  <2>7. QED  BY <1>1, <1>4, <2>1, <2>3, <2>4, <2>5, <2>6, LockStep
<1>7. CASE FindStale(t)
  <2>1. /\ task' = [task EXCEPT ![t] = Stage(task[t], "stale")] /\ lockFile' = lockFile
        /\ lockFile # None /\ lockFile.by \notin up
    BY <1>1, <1>7 DEF FindStale, Stale
  <2>2. lockFile \in LockFile
    BY <2>1 DEF LockInv
  <2>3. lockFile.by \in Runtime /\ lockFile.by # t
    BY <1>1, <2>1, <2>2 DEF LockFile
  <2>4. \A u \in Runtime : u # t => u \notin up
    BY <2>1, <2>3 DEF AtMostTwo
  <2>5. ~AtLock(Stage(task[t], "stale"))
    BY <1>2 DEF AtLock
  <2>6. lockFile' \in LockFile \cup {None}
    BY <2>1, <2>2
  <2>7. QED  BY <1>1, <2>1, <2>4, <2>5, <2>6, LockStep
<1>8. CASE RemoveStale(t)
  <2>1. task' = [task EXCEPT ![t] = Stage(task[t], "try")] /\ lockFile' = None
    BY <1>1, <1>8 DEF RemoveStale
  <2>2. \A u \in Runtime : u # t => ~AtLock(task[u])
    BY <1>3, <1>8 DEF RemoveStale, LockInv, AtLock
  <2>3. ~AtLock(Stage(task[t], "try")) /\ Stage(task[t], "try").stage # "stale"
    BY <1>2 DEF AtLock
  <2>4. lockFile' \in LockFile \cup {None}
    BY <2>1
  <2>5. QED  BY <1>1, <2>1, <2>2, <2>3, <2>4, LockStep
<1>9. CASE prepare_service_spawn(t) \/ Unhealthy(t)
  <2>1. PICK s \in {"spawn", "terminate"} : task' = [task EXCEPT ![t] = Stage(task[t], s)]
    BY <1>1, <1>9 DEF prepare_service_spawn, Unhealthy
  <2>2. ~AtLock(Stage(task[t], s)) /\ Stage(task[t], s).stage # "stale"
    BY <1>2 DEF AtLock
  <2>3. lockFile' = lockFile
    BY <1>9 DEF prepare_service_spawn, Unhealthy
  <2>4. QED  BY <1>1, <2>1, <2>2, <2>3, LockUntouched
<1>10. QED  BY <1>5, <1>6, <1>7, <1>8, <1>9

LEMMA LockLeaves ==
  ASSUME RegistryInv, LockInv, NEW t \in Runtime, WriteLockFails(t) \/ LockFails(t) \/ Unlock(t)
  PROVE  LockInv'
<1>1. task[t] \in Task /\ t \in up /\ up' = up /\ task \in [Runtime -> Task]
  BY TaskFields, LockWorking DEF WriteLockFails, LockFails, Unlock, RegistryInv, PortsTypeOK
<1>2. [task[t] EXCEPT !.ok = FALSE] \in Task /\ [task[t] EXCEPT !.loaded = {}] \in Task
  BY <1>1 DEF Task
<1>3. PICK y \in Task : task' = [task EXCEPT ![t] = Then(y)]
  BY <1>1, <1>2 DEF WriteLockFails, LockFails, Unlock
<1>4. ~AtLock(Then(y)) /\ Then(y).stage # "stale"
  BY <1>3, ThenStage DEF AtLock
<1>5. CASE LockFails(t)
  BY <1>1, <1>3, <1>4, <1>5, LockUntouched DEF LockFails
<1>6. CASE WriteLockFails(t) \/ Unlock(t)
  <2>1. AtLock(task[t])
    BY <1>6 DEF WriteLockFails, Unlock, AtLock
  <2>2. \A u \in Runtime : u # t => ~AtLock(task[u])
    BY <2>1 DEF LockInv
  <2>3. lockFile \in LockFile
    BY <2>1 DEF LockInv
  <2>4. [lockFile EXCEPT !.written = TRUE] \in LockFile
    BY <2>3 DEF LockFile
  <2>5. lockFile' \in LockFile \cup {None}
    BY <1>6, <2>3, <2>4 DEF WriteLockFails, Unlock
  <2>6. QED  BY <1>1, <1>3, <1>4, <2>2, <2>5, LockStep
<1>7. QED  BY <1>5, <1>6

\* The sections are entered and left with the lock.
LEMMA LockSections ==
  ASSUME RegistryInv, LockInv, NEW t \in Runtime,
         \/ load_registry(t) \/ reserve(t) \/ bind_service_process(t) \/ release(t)
         \/ leases_for_owner(t) \/ orphaned(t) \/ cleanup_orphaned(t) \/ SectionFails(t)
  PROVE  LockInv'
<1>1. task[t] \in Task /\ task \in [Runtime -> Task]
  BY TaskFields DEF RegistryInv, PortsTypeOK
<1>2. task[t].stage \in {"held", "loaded"} /\ lockFile' = lockFile /\ up' = up
  BY DEF load_registry, reserve, bind_service_process, release, leases_for_owner, orphaned,
         cleanup_orphaned, SectionFails, In
<1>3. AtLock(task[t]) /\ t \in up
  BY <1>2, LockWorking DEF AtLock
<1>4. \E x : task' = [task EXCEPT ![t] = x] /\ x.stage \in {"loaded", "unlock"}
  <2>1. CASE load_registry(t)
    <3> DEFINE x == [task[t] EXCEPT !.loaded = registry, !.stage = "loaded"]
    <3>1. task' = [task EXCEPT ![t] = x]
      BY <1>1, <2>1 DEF load_registry
    <3>2. x.stage = "loaded"
      BY <1>1 DEF Task
    <3>3. QED  BY <3>1, <3>2
  <2>2. CASE reserve(t)
    <3>1. ASSUME NEW l, task' = [task EXCEPT ![t].lease = l, ![t].stage = "unlock"]
          PROVE  \E x : task' = [task EXCEPT ![t] = x] /\ x.stage = "unlock"
      <4> DEFINE x == [task[t] EXCEPT !.lease = l, !.stage = "unlock"]
      <4>1. task' = [task EXCEPT ![t] = x] /\ x.stage = "unlock"
        BY <1>1, <3>1 DEF Task
      <4>2. QED  BY <4>1
    <3>2. ASSUME NEW l, Adopt(t, l)
          PROVE  \E x : task' = [task EXCEPT ![t] = x] /\ x.stage = "unlock"
      <4> DEFINE x == [task[t] EXCEPT !.lease = l, !.target = l.service, !.stage = "unlock"]
      <4>1. task' = [task EXCEPT ![t] = x] /\ x.stage = "unlock"
        BY <1>1, <3>2 DEF Adopt, Task
      <4>2. QED  BY <4>1
    <3>3. ASSUME ReserveRefused(t)
          PROVE  \E x : task' = [task EXCEPT ![t] = x] /\ x.stage = "unlock"
      <4> DEFINE x == [task[t] EXCEPT !.ok = FALSE, !.stage = "unlock"]
      <4>1. task' = [task EXCEPT ![t] = x] /\ x.stage = "unlock"
        BY <1>1, <3>3 DEF ReserveRefused, Refuse, Task
      <4>2. QED  BY <4>1
    <3>4. CASE \E l \in Mine(t) : Adopt(t, l)
      BY <3>2, <3>4
    <3>5. CASE \E l \in Mine(t) : Rebind(t, l)
      BY <3>1, <3>5 DEF Rebind
    <3>6. CASE Acquire(t)
      BY <3>1, <3>6 DEF Acquire
    <3>7. CASE ReserveRefused(t)
      BY <3>3, <3>7
    <3>8. QED  BY <2>2, <3>4, <3>5, <3>6, <3>7 DEF reserve
  <2>3. CASE bind_service_process(t)
    <3>1. PICK b : task' = [task EXCEPT ![t].ok = b, ![t].stage = "unlock"]
      BY <2>3 DEF bind_service_process
    <3> DEFINE x == [task[t] EXCEPT !.ok = b, !.stage = "unlock"]
    <3>2. task' = [task EXCEPT ![t] = x] /\ x.stage = "unlock"
      BY <1>1, <3>1 DEF Task
    <3>3. QED  BY <3>2
  <2>4. CASE release(t) \/ cleanup_orphaned(t)
    <3> DEFINE x == [task[t] EXCEPT !.stage = "unlock"]
    <3>1. task' = [task EXCEPT ![t] = x] /\ x.stage = "unlock"
      BY <1>1, <2>4 DEF release, cleanup_orphaned, Task
    <3>2. QED  BY <3>1
  <2>5. CASE leases_for_owner(t)
    <3>1. PICK a, b : task' = [task EXCEPT ![t].stage = "unlock", ![t].lease = a, ![t].target = b]
      BY <2>5 DEF leases_for_owner
    <3> DEFINE x == [task[t] EXCEPT !.stage = "unlock", !.lease = a, !.target = b]
    <3>2. task' = [task EXCEPT ![t] = x] /\ x.stage = "unlock"
      BY <1>1, <3>1 DEF Task
    <3>3. QED  BY <3>2
  <2>6. CASE orphaned(t)
    <3>1. PICK a : task' = [task EXCEPT ![t].stage = "unlock", ![t].inspected = a]
      BY <2>6 DEF orphaned
    <3> DEFINE x == [task[t] EXCEPT !.stage = "unlock", !.inspected = a]
    <3>2. task' = [task EXCEPT ![t] = x] /\ x.stage = "unlock"
      BY <1>1, <3>1 DEF Task
    <3>3. QED  BY <3>2
  <2>7. CASE SectionFails(t)
    <3> DEFINE x == [task[t] EXCEPT !.ok = FALSE, !.stage = "unlock"]
    <3>1. task' = [task EXCEPT ![t] = x] /\ x.stage = "unlock"
      BY <1>1, <2>7 DEF SectionFails, Refuse, Task
    <3>2. QED  BY <3>1
  <2>8. QED  BY <2>1, <2>2, <2>3, <2>4, <2>5, <2>6, <2>7
<1>5. PICK x : task' = [task EXCEPT ![t] = x] /\ x.stage \in {"loaded", "unlock"}
  BY <1>4
<1>6. x.stage # "stale"
  BY <1>5
<1>7. QED  BY <1>2, <1>3, <1>5, <1>6, LockUntouched

LEMMA LockNextKeeps == AtMostTwo /\ RegistryInv /\ LockInv /\ [PortsNext]_portVars => LockInv'
<1> SUFFICES ASSUME AtMostTwo, RegistryInv, LockInv, [PortsNext]_portVars PROVE LockInv'
  OBVIOUS
<1>1. ASSUME NEW t \in Runtime, RuntimeNext(t) PROVE LockInv'
  <2>1. CASE \/ \E r \in Request : StartService(t, r) \/ StopOwner(t, r)
             \/ Preview(t) \/ apply(t) \/ Healthy(t) \/ Die(t) \/ SpawnService(t) \/ terminate(t)
    BY <2>1, LockBegins
  <2>2. CASE \/ CreateLock(t) \/ WriteLock(t) \/ FindStale(t) \/ RemoveStale(t)
             \/ prepare_service_spawn(t) \/ Unhealthy(t)
    BY <2>2, LockStages
  <2>3. CASE WriteLockFails(t) \/ LockFails(t) \/ Unlock(t)
    BY <2>3, LockLeaves
  <2>4. CASE \/ load_registry(t) \/ reserve(t) \/ bind_service_process(t) \/ release(t)
             \/ leases_for_owner(t) \/ orphaned(t) \/ cleanup_orphaned(t) \/ SectionFails(t)
    BY <2>4, LockSections
  <2>5. QED  BY <1>1, <2>1, <2>2, <2>3, <2>4 DEF RuntimeNext
<1>2. CASE UNCHANGED <<lockFile, up, task>>
  BY <1>2 DEF LockInv
<1>3. ASSUME NEW k \in DOMAIN service, ServiceListens(k) \/ ServiceEnds(k) PROVE LockInv'
  BY <1>2, <1>3 DEF ServiceListens, ServiceEnds
<1>4. CASE UNCHANGED portVars
  BY <1>2, <1>4 DEF portVars
<1>5. QED  BY <1>1, <1>3, <1>4 DEF PortsNext

(***************************************************************************)
(* RegistryLock (resources/ports.rs): two runtimes, either of which may    *)
(* die at any step, are never in their sections at the same time.          *)
(***************************************************************************)
THEOREM TwoRuntimesExclude ==
  ASSUME AtMostTwo
  PROVE  PortsSpec => []LockExcludes
<1>1. PortsInit => RegistryInv /\ LockInv
  <2> SUFFICES ASSUME PortsInit PROVE LockInv
    BY PortsInitHolds
  <2>1. \A t \in Runtime : task[t] = Idle
    BY DEF PortsInit
  <2>2. Idle.stage = "idle"
    BY DEF Idle
  <2>3. QED  BY <2>1, <2>2 DEF LockInv, AtLock, PortsInit
<1>2. RegistryInv /\ LockInv /\ [PortsNext]_portVars => (RegistryInv /\ LockInv)'
  BY PortsNextKeeps, LockNextKeeps
<1>3. LockInv => LockExcludes
  BY DEF LockInv, LockExcludes, AtLock, Inside
<1>4. QED  BY <1>1, <1>2, <1>3, PTL DEF PortsSpec

(***************************************************************************)
(* So it is with at most two runtimes, whatever starts, stops and cleanups *)
(* they do, fail and die in, and nothing is assumed of the lock.  With     *)
(* three the lock may fail them (PortsStaleLock).                          *)
(***************************************************************************)
THEOREM ServiceStaysRecordedHolds ==
  ASSUME AtMostTwo
  PROVE  PortsSpec => ServiceStaysRecorded
BY TwoRuntimesExclude, ExcludedServicesRecorded, PTL

=============================================================================
