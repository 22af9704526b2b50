--------------------------- MODULE ReportsProofs ---------------------------
EXTENDS ClaudeAdapter, OpenCodeAdapter, EventSubscriptions,
        FiniteSetTheorems, WellFoundedInduction, TLAPS

(***************************************************************************)
(* The inductive invariant of ClaudeAdapter.  What is on record must be     *)
(* tied to the actor's fields: Ready is out exactly when the session is     *)
(* known, a turn of a known session is reported, and until the process has  *)
(* answered initialize nothing has happened at all, which is why the answer *)
(* may begin a turn without looking.                                        *)
(***************************************************************************)
Untouched ==
    /\ session = None /\ current = None /\ attentions = {} /\ nextTurn = 1
    /\ announced = {} /\ worked = {} /\ finished = {} /\ offered = {}

InitializeInv ==
    /\ mode = "waiting" => Untouched /\ nextControl = 1 /\ controls = {}
    /\ mode = "running" => start \in StartCommand /\ nextControl > 1
    /\ mode = "running" /\ <<1, "Initialize">> \in controls => Untouched
    /\ \A c \in controls : c[2] = "Initialize" => c[1] = 1

ReadyInv ==
    /\ announced = IF session = None THEN {} ELSE {session}
    /\ session = None => worked = {} /\ finished = {} /\ offered = {}
    /\ session # None => /\ start \in StartCommand
                         /\ start.resume # None => session = start.resume

TurnsInv ==
    /\ \A t \in worked : t < nextTurn
    /\ finished \subseteq worked
    /\ \A o \in offered : o[2] \in worked
    /\ current # None => /\ current.id \in 1..MaxTurn /\ current.id < nextTurn
                         /\ \A t \in finished : t < current.id
                         /\ session # None => current.id \in worked

ClaudeInv ==
    ClaudeTypeOK /\ InitializeInv /\ ReadyInv /\ TurnsInv /\ RequestsOfTurn

(* What the handlers read of a frame has its type.                          *)
LEMMA FrameFields ==
    ASSUME NEW f \in Frame
    PROVE  /\ f.type \in {"init", "assistant", "user", "result"} => f.session \in SessionId
           /\ f.type \in {"control_request", "control_cancel_request"} => f.request \in ControlId
           /\ f.type = "control_response" => f.control \in 1..MaxControl
  BY DEF Frame

(* What Working makes of a turn: the same turn, or none of none.            *)
LEMMA WorkingTurn ==
    ASSUME NEW tn \in CurrentTurn \cup {None}, NEW s
    PROVE  /\ Working(tn, s) \in CurrentTurn \cup {None}
           /\ tn = None => Working(tn, s) = None
           /\ tn # None => /\ tn \in CurrentTurn
                             /\ Working(tn, s) \in CurrentTurn /\ Working(tn, s) # None
                             /\ Working(tn, s).id = tn.id
           /\ NowWorked(tn, s) \subseteq {tn.id}
           /\ tn = None \/ s = None => NowWorked(tn, s) = {}
           /\ tn # None /\ s # None => NowWorked(tn, s) = {tn.id}
<1>1. CASE tn = None
  BY <1>1 DEF Working, NowWorked
<1>2. CASE tn # None
  <2>1. tn \in CurrentTurn
    BY <1>2
  <2>2. Working(tn, s) \in CurrentTurn /\ Working(tn, s).id = tn.id
    BY <2>1 DEF Working, CurrentTurn
  <2>3. Working(tn, s) # None
    BY <2>2, NoTurnAssumption
  <2> QED
    BY <1>2, <2>1, <2>2, <2>3 DEF NowWorked
<1> QED
  BY <1>1, <1>2

(* The invariant implies the property: Ready first, once, and of the session *)
(* to resume.                                                               *)
LEMMA ClaudeInvReports == ClaudeInv => ReportsInOrder
  BY DEF ClaudeInv, ReadyInv, TurnsInv, ReportsInOrder

(* The invariant depends on no more than these variables.                   *)
LEMMA ClaudeInvStays ==
    ASSUME ClaudeInv, mode' \in {mode, "ended"},
           UNCHANGED <<start, session, nextControl, nextTurn, controls, attentions, current,
                       armed, announced, worked, finished, offered, written>>,
           quiesced' \in BOOLEAN, piece' \in BOOLEAN, cut' \in BOOLEAN,
           frames' \in 0..MaxFrames
    PROVE  ClaudeInv'
<1>1. ClaudeTypeOK'
  BY DEF ClaudeInv, ClaudeTypeOK
<1>2. InitializeInv'
  BY DEF ClaudeInv, InitializeInv, Untouched
<1>3. ReadyInv' /\ TurnsInv' /\ RequestsOfTurn'
  BY DEF ClaudeInv, ReadyInv, TurnsInv, RequestsOfTurn
<1> QED
  BY <1>1, <1>2, <1>3 DEF ClaudeInv

(* A turn begins when none runs and no request is open.                     *)
LEMMA BeginTurnKeeps ==
    ASSUME ClaudeInv, NEW s \in SessionId \cup {None}, nextTurn <= MaxTurn,
           current = None, attentions = {}, BeginTurn(s), session' = s,
           s = None => worked = {},
           UNCHANGED <<attentions, finished, offered, written>>
    PROVE  /\ nextTurn' \in 1..(MaxTurn + 1)
           /\ current' \in CurrentTurn \cup {None} /\ armed' \in BOOLEAN
           /\ worked' \subseteq 1..MaxTurn
           /\ s = None => worked' = {}
           /\ TurnsInv' /\ RequestsOfTurn'
<1> DEFINE tn == [id |-> nextTurn, working |-> FALSE, interrupted |-> FALSE]
<1>0. /\ nextTurn \in 1..(MaxTurn + 1) /\ worked \subseteq 1..MaxTurn /\ finished \subseteq worked
      /\ \A t \in worked : t < nextTurn
      /\ MaxTurn \in Nat
      /\ written \in [ControlId -> Nat]
  BY ClaudeAssumption DEF ClaudeInv, ClaudeTypeOK, TurnsInv
<1>1. tn \in CurrentTurn /\ tn.id = nextTurn
  BY <1>0 DEF CurrentTurn
<1>2. /\ nextTurn' = nextTurn + 1
      /\ current' = Working(tn, s)
      /\ worked' = worked \cup NowWorked(tn, s)
      /\ armed' = Refreshed(current', attentions)
  BY DEF BeginTurn
<1> HIDE DEF tn
<1>3. /\ current' \in CurrentTurn \cup {None}
      /\ current' # None => current' \in CurrentTurn /\ current'.id = nextTurn
      /\ worked' \subseteq worked \cup {nextTurn}
      /\ worked \subseteq worked'
      /\ s = None => worked' = worked
      /\ current' # None /\ s # None => nextTurn \in worked'
  BY <1>1, <1>2, WorkingTurn
<1>4. /\ nextTurn' \in 1..(MaxTurn + 1) /\ worked' \subseteq 1..MaxTurn
      /\ nextTurn \in 1..MaxTurn /\ nextTurn < nextTurn'
      /\ \A t \in worked' : t < nextTurn'
      /\ \A t \in finished : t < nextTurn
  <2>1. /\ nextTurn' \in 1..(MaxTurn + 1)
        /\ nextTurn \in 1..MaxTurn /\ nextTurn < nextTurn'
    BY <1>0, <1>2
  <2>2. worked' \subseteq 1..MaxTurn
    BY <1>0, <1>3, <2>1
  <2>3. ASSUME NEW t \in worked'
        PROVE  t < nextTurn'
    <3>1. CASE t = nextTurn
      BY <2>1, <3>1
    <3>2. CASE t \in worked
      <4>1. t \in 1..MaxTurn /\ t < nextTurn
        BY <1>0, <3>2
      <4> QED
        BY <1>0, <1>2, <4>1
    <3> QED
      BY <1>3, <3>1, <3>2
  <2> QED
    BY <1>0, <2>1, <2>2, <2>3
<1>5. TurnsInv'
  BY <1>0, <1>3, <1>4 DEF ClaudeInv, TurnsInv
<1>6. armed' \in BOOLEAN
  BY <1>2 DEF Refreshed
<1>7. RequestsOfTurn'
  BY DEF ClaudeInv, RequestsOfTurn
<1> QED
  BY <1>3, <1>4, <1>5, <1>6, <1>7

(* The start: the process is there and owes the answer to initialize, or    *)
(* the actor is over.                                                       *)
LEMMA StartKeeps ==
    ASSUME ClaudeInv, NEW cmd \in StartCommand, StartOrResume(cmd)
    PROVE  ClaudeInv'
<1> USE ClaudeAssumption
<1>0. mode = "waiting" /\ start' = cmd /\ Untouched /\ nextControl = 1 /\ controls = {}
  BY DEF ClaudeInv, InitializeInv, StartOrResume
<1>1. UNCHANGED <<session, nextTurn, attentions, current, armed, quiesced, piece, cut, frames,
                  announced, worked, finished, offered, written>>
  BY DEF StartOrResume, reading, reported
<1>2. \/ mode' = "running" /\ nextControl' = 2 /\ controls' = {<<1, "Initialize">>}
      \/ mode' = "ended" /\ nextControl' = 1 /\ controls' = {}
  BY <1>0 DEF StartOrResume, SendControl
<1>3. ClaudeTypeOK'
  BY <1>0, <1>1, <1>2 DEF ClaudeInv, ClaudeTypeOK, PendingControl
<1>4. InitializeInv'
  BY <1>0, <1>1, <1>2 DEF InitializeInv, Untouched
<1>5. ReadyInv' /\ TurnsInv' /\ RequestsOfTurn'
  BY <1>0, <1>1 DEF ClaudeInv, ReadyInv, TurnsInv, RequestsOfTurn, Untouched
<1> QED
  BY <1>3, <1>4, <1>5 DEF ClaudeInv

(* A command drops the read and leaves the rest to its handler.             *)
LEMMA TakeCommandType ==
    ASSUME ClaudeInv, TakeCommand
    PROVE  mode = "running" /\ piece' \in BOOLEAN /\ cut' \in BOOLEAN /\ frames' \in 0..MaxFrames
  BY DEF ClaudeInv, ClaudeTypeOK, TakeCommand

LEMMA RejectKeeps ==
    ASSUME ClaudeInv, Reject, piece' \in BOOLEAN, cut' \in BOOLEAN, frames' \in 0..MaxFrames
    PROVE  ClaudeInv'
  BY ClaudeInvStays DEF Reject, reported, ClaudeInv, ClaudeTypeOK

LEMMA SendTurnKeeps ==
    ASSUME ClaudeInv, SendTurn
    PROVE  ClaudeInv'
<1> USE ClaudeAssumption
<1>0. mode = "running" /\ piece' \in BOOLEAN /\ cut' \in BOOLEAN /\ frames' \in 0..MaxFrames
  BY TakeCommandType DEF SendTurn
<1>1. CASE /\ MaySendTurn /\ nextTurn <= MaxTurn
           /\ BeginTurn(session)
           /\ UNCHANGED <<mode, start, session, nextControl, controls, attentions, quiesced,
                          announced, finished, offered, written>>
  <2>1. /\ session \in SessionId /\ session # None /\ current = None /\ attentions = {}
    BY <1>1 DEF MaySendTurn, ClaudeInv, ClaudeTypeOK
  <2>2. /\ nextTurn' \in 1..(MaxTurn + 1)
        /\ current' \in CurrentTurn \cup {None} /\ armed' \in BOOLEAN
        /\ worked' \subseteq 1..MaxTurn
        /\ TurnsInv' /\ RequestsOfTurn'
    BY <1>1, <2>1, BeginTurnKeeps
  <2>3. ClaudeTypeOK'
    BY <1>0, <1>1, <2>2 DEF ClaudeInv, ClaudeTypeOK
  <2>4. InitializeInv' /\ ReadyInv'
    BY <1>0, <1>1, <2>1 DEF ClaudeInv, InitializeInv, ReadyInv, Untouched
  <2> QED
    BY <2>2, <2>3, <2>4 DEF ClaudeInv
<1>2. CASE /\ MaySendTurn /\ nextTurn <= MaxTurn
           /\ nextTurn' = nextTurn + 1
           /\ UNCHANGED <<mode, start, session, nextControl, controls, attentions, current,
                          armed, quiesced, reported>>
  <2>1. /\ session # None /\ current = None /\ attentions = {}
    BY <1>2 DEF MaySendTurn
  <2>2. ClaudeTypeOK'
    BY <1>0, <1>2 DEF ClaudeInv, ClaudeTypeOK, reported
  <2>3. InitializeInv' /\ ReadyInv' /\ RequestsOfTurn'
    BY <1>0, <1>2, <2>1
    DEF ClaudeInv, InitializeInv, ReadyInv, RequestsOfTurn, Untouched, reported
  <2>4. TurnsInv'
    <3>1. /\ nextTurn \in Nat /\ worked \subseteq Nat /\ TurnsInv
          /\ nextTurn' = nextTurn + 1 /\ UNCHANGED <<worked, finished, offered, current>>
      BY <1>2 DEF ClaudeInv, ClaudeTypeOK, reported
    <3>2. \A t \in worked' : t < nextTurn'
      BY <3>1 DEF TurnsInv
    <3> QED
      BY <2>1, <3>1, <3>2 DEF TurnsInv
  <2> QED
    BY <2>2, <2>3, <2>4 DEF ClaudeInv
<1>3. CASE Reject
  BY <1>0, <1>3, RejectKeeps
<1> QED
  BY <1>1, <1>2, <1>3 DEF SendTurn

LEMMA RespondKeeps ==
    ASSUME ClaudeInv, NEW r \in ControlId, Respond(r)
    PROVE  ClaudeInv'
<1>0. mode = "running" /\ piece' \in BOOLEAN /\ cut' \in BOOLEAN /\ frames' \in 0..MaxFrames
  BY TakeCommandType DEF Respond
<1>1. CASE r \in attentions /\ respond(r)
  <2>1. /\ written \in [ControlId -> Nat] /\ written[r] = 0
        /\ attentions \subseteq ControlId /\ armed = FALSE
    BY <1>1 DEF ClaudeInv, ClaudeTypeOK, RequestsOfTurn
  <2>2. /\ written' = [written EXCEPT ![r] = 1] /\ attentions' = attentions \ {r}
        /\ armed' = IF attentions' = {} THEN Refreshed(current, {}) ELSE armed
        /\ UNCHANGED <<mode, start, session, nextControl, nextTurn, controls, current,
                       quiesced, announced, worked, finished, offered>>
    BY <1>1, <2>1 DEF respond
  <2>3. armed' \in BOOLEAN /\ (attentions' # {} => ~armed')
    BY <2>1, <2>2 DEF Refreshed
  <2>4. ClaudeTypeOK'
    BY <1>0, <2>1, <2>2, <2>3 DEF ClaudeInv, ClaudeTypeOK
  <2>5. InitializeInv' /\ ReadyInv' /\ TurnsInv'
    BY <1>0, <2>2 DEF ClaudeInv, InitializeInv, ReadyInv, TurnsInv, Untouched
  <2>6. RequestsOfTurn'
    BY <2>1, <2>2, <2>3 DEF ClaudeInv, RequestsOfTurn
  <2> QED
    BY <2>4, <2>5, <2>6 DEF ClaudeInv
<1>2. CASE Reject
  BY <1>0, <1>2, RejectKeeps
<1> QED
  BY <1>1, <1>2 DEF Respond

LEMMA InterruptKeeps ==
    ASSUME ClaudeInv, Interrupt
    PROVE  ClaudeInv'
<1> USE ClaudeAssumption
<1>0. mode = "running" /\ piece' \in BOOLEAN /\ cut' \in BOOLEAN /\ frames' \in 0..MaxFrames
  BY TakeCommandType DEF Interrupt
<1>1. CASE /\ current # None /\ \A c \in controls : c[2] # "Interrupt"
           /\ SendControl("Interrupt")
           /\ current' = [id |-> current.id, working |-> current.working, interrupted |-> TRUE]
           /\ UNCHANGED <<mode, start, session, nextTurn, attentions, armed, quiesced,
                          reported>>
  <2>1. /\ current \in CurrentTurn /\ current' \in CurrentTurn /\ current' # None
        /\ current'.id = current.id
    <3>1. current \in CurrentTurn
      BY <1>1 DEF ClaudeInv, ClaudeTypeOK
    <3>2. current' \in CurrentTurn /\ current'.id = current.id
      BY <1>1, <3>1 DEF CurrentTurn
    <3> QED
      BY <3>1, <3>2, NoTurnAssumption
  <2>2. /\ nextControl \in 1..MaxControl /\ nextControl' = nextControl + 1
        /\ controls' = controls \cup {<<nextControl, "Interrupt">>}
        /\ nextControl > 1
    BY <1>0, <1>1 DEF SendControl, ClaudeInv, ClaudeTypeOK, InitializeInv
  <2>3. ClaudeTypeOK'
    BY <1>0, <1>1, <2>1, <2>2 DEF ClaudeInv, ClaudeTypeOK, PendingControl, reported
  <2>4. InitializeInv'
    <3>1. <<1, "Initialize">> \notin controls'
      BY <1>0, <1>1, <2>2 DEF ClaudeInv, InitializeInv, Untouched
    <3>2. \A c \in controls' : c[2] = "Initialize" => c[1] = 1
      BY <2>2 DEF ClaudeInv, InitializeInv
    <3> QED
      BY <1>0, <1>1, <2>2, <3>1, <3>2 DEF ClaudeInv, InitializeInv
  <2>5. ReadyInv' /\ TurnsInv' /\ RequestsOfTurn'
    BY <1>1, <2>1 DEF ClaudeInv, ReadyInv, TurnsInv, RequestsOfTurn, reported
  <2> QED
    BY <2>3, <2>4, <2>5 DEF ClaudeInv
<1>2. CASE /\ current # None /\ nextControl <= MaxControl
           /\ nextControl' = nextControl + 1
           /\ UNCHANGED <<mode, start, session, nextTurn, controls, attentions, current,
                          armed, quiesced, reported>>
  <2>1. ClaudeTypeOK'
    BY <1>0, <1>2 DEF ClaudeInv, ClaudeTypeOK, reported
  <2>2. InitializeInv'
    BY <1>0, <1>2 DEF ClaudeInv, ClaudeTypeOK, InitializeInv, Untouched, reported
  <2>3. ReadyInv' /\ TurnsInv' /\ RequestsOfTurn'
    BY <1>2 DEF ClaudeInv, ReadyInv, TurnsInv, RequestsOfTurn, reported
  <2> QED
    BY <2>1, <2>2, <2>3 DEF ClaudeInv
<1>3. CASE Reject
  BY <1>0, <1>3, RejectKeeps
<1> QED
  BY <1>1, <1>2, <1>3 DEF Interrupt

(* The commands and branches that leave the reports and the turn alone.     *)
LEMMA QuietKeeps ==
    ASSUME ClaudeInv,
           RejectEarly \/ LeaveEarly \/ Quiesce \/ RejectStart \/ Shutdown
              \/ ReadPiece \/ ReadFails \/ TimesOut
    PROVE  ClaudeInv'
<1>0. mode \in {"waiting", "running", "ended"} /\ quiesced \in BOOLEAN
      /\ piece \in BOOLEAN /\ cut \in BOOLEAN /\ frames \in 0..MaxFrames
  BY DEF ClaudeInv, ClaudeTypeOK
<1>1. CASE RejectEarly \/ LeaveEarly \/ Shutdown \/ ReadPiece
  BY <1>0, <1>1, ClaudeInvStays
  DEF RejectEarly, LeaveEarly, Shutdown, ReadPiece, Reject, reading, reported
<1>2. CASE Quiesce \/ RejectStart
  BY <1>0, <1>2, ClaudeInvStays, TakeCommandType
  DEF Quiesce, RejectStart, Reject, reported
<1>3. CASE ReadFails \/ TimesOut
  BY <1>0, <1>3, ClaudeInvStays DEF ReadFails, TimesOut, Die, reading, reported
<1> QED
  BY <1>1, <1>2, <1>3

(***************************************************************************)
(* The handlers of frames.  FrameCase keeps what a handler leaves alone.    *)
(***************************************************************************)
FrameCase(f) ==
    /\ mode = "running" /\ mode' = "running" /\ start' = start /\ quiesced' = quiesced
    /\ piece' \in BOOLEAN /\ cut' \in BOOLEAN /\ frames' \in 0..MaxFrames

(* Once the process may send frames of a session, initialize is answered.   *)
Answered == <<1, "Initialize">> \notin controls

LEMMA InitFrameKeeps ==
    ASSUME ClaudeInv, NEW f \in Frame, FrameCase(f), Answered,
           f.session \in SessionId, InitOk(f), InitFrame(f)
    PROVE  ClaudeInv'
<1> USE ClaudeAssumption, NoTurnAssumption
<1>0. /\ f.session # None /\ session' = f.session
      /\ start \in StartCommand
      /\ current \in CurrentTurn \cup {None}
      /\ nextTurn \in 1..(MaxTurn + 1) /\ worked \subseteq 1..MaxTurn
  BY DEF FrameCase, ClaudeInv, ClaudeTypeOK, InitializeInv, InitFrame
<1>1. /\ current' \in CurrentTurn \cup {None}
      /\ current' = None <=> current = None
      /\ current # None => current'.id = current.id /\ worked' = worked \cup {current.id}
      /\ current = None => worked' = worked
  BY <1>0, WorkingTurn DEF InitFrame
<1>2. armed' \in BOOLEAN /\ (attentions # {} => ~armed')
  BY DEF InitFrame, Refreshed
<1>3. /\ announced' = {session'}
      /\ UNCHANGED <<nextControl, nextTurn, controls, attentions, finished, offered, written>>
  BY <1>0 DEF ClaudeInv, ReadyInv, InitFrame, InitOk
<1>4. worked' \subseteq 1..MaxTurn
  BY <1>0, <1>1 DEF ClaudeInv, TurnsInv
<1>5. ClaudeTypeOK'
  BY <1>0, <1>1, <1>2, <1>3, <1>4 DEF ClaudeInv, ClaudeTypeOK, FrameCase
<1>6. InitializeInv'
  BY <1>3 DEF ClaudeInv, InitializeInv, FrameCase, Answered
<1>7. ReadyInv'
  BY <1>0, <1>3 DEF ReadyInv, FrameCase, InitOk
<1>8. TurnsInv'
  BY <1>0, <1>1, <1>3 DEF ClaudeInv, TurnsInv
<1>9. RequestsOfTurn'
  BY <1>1, <1>2, <1>3 DEF ClaudeInv, RequestsOfTurn
<1> QED
  BY <1>5, <1>6, <1>7, <1>8, <1>9 DEF ClaudeInv

LEMMA ReplayKeeps ==
    ASSUME ClaudeInv, NEW f \in Frame, FrameCase(f), OfSession(f), Replay
    PROVE  ClaudeInv'
<1> USE ClaudeAssumption, NoTurnAssumption
<1>0. /\ session # None
      /\ current \in CurrentTurn \cup {None}
      /\ UNCHANGED <<session, nextControl, nextTurn, controls, attentions, announced, finished,
                     offered, written>>
  BY DEF ClaudeInv, ClaudeTypeOK, Replay, OfSession
<1>1. /\ current' \in CurrentTurn \cup {None}
      /\ current' = None <=> current = None
      /\ current # None => current'.id = current.id
      /\ worked' = worked
  BY <1>0, WorkingTurn DEF Replay, ClaudeInv, TurnsInv
<1>2. armed' \in BOOLEAN /\ (attentions # {} => ~armed')
  BY DEF Replay, Refreshed
<1>5. ClaudeTypeOK'
  BY <1>0, <1>1, <1>2 DEF ClaudeInv, ClaudeTypeOK, FrameCase
<1>6. InitializeInv'
  BY <1>0 DEF ClaudeInv, InitializeInv, FrameCase, Untouched
<1>7. ReadyInv' /\ TurnsInv'
  BY <1>0, <1>1 DEF ClaudeInv, ReadyInv, TurnsInv, FrameCase
<1>9. RequestsOfTurn'
  BY <1>0, <1>1, <1>2 DEF ClaudeInv, RequestsOfTurn
<1> QED
  BY <1>5, <1>6, <1>7, <1>9 DEF ClaudeInv

LEMMA ResultKeeps ==
    ASSUME ClaudeInv, NEW f \in Frame, FrameCase(f), ResultOk(f), Result
    PROVE  ClaudeInv'
<1>0. /\ session # None /\ current # None /\ attentions = {}
      /\ current.id \in worked
      /\ finished' = finished \cup {current.id} /\ current' = None /\ armed' = FALSE
      /\ UNCHANGED <<session, nextControl, nextTurn, controls, attentions, announced, worked,
                     offered, written>>
  BY DEF ClaudeInv, TurnsInv, ResultOk, OfSession, Result
<1>1. ClaudeTypeOK'
  BY <1>0 DEF ClaudeInv, ClaudeTypeOK, FrameCase
<1>2. InitializeInv'
  BY <1>0 DEF ClaudeInv, InitializeInv, FrameCase, Untouched
<1>3. ReadyInv' /\ TurnsInv' /\ RequestsOfTurn'
  BY <1>0 DEF ClaudeInv, ReadyInv, TurnsInv, RequestsOfTurn, FrameCase
<1> QED
  BY <1>1, <1>2, <1>3 DEF ClaudeInv

LEMMA RequestKeeps ==
    ASSUME ClaudeInv, NEW f \in Frame, FrameCase(f), f.request \in ControlId,
           RequestOk(f), Request(f)
    PROVE  ClaudeInv'
<1> DEFINE r == f.request
<1>0. /\ session # None /\ current # None
      /\ current.id \in worked /\ current.id \in 1..MaxTurn
      /\ r \in ControlId /\ written \in [ControlId -> Nat]
      /\ attentions' = attentions \cup {r} /\ armed' = FALSE
      /\ offered' = offered \cup {<<r, current.id>>}
      /\ written' = [written EXCEPT ![r] = 0]
      /\ UNCHANGED <<session, nextControl, nextTurn, controls, current, announced, worked, finished>>
  BY DEF ClaudeInv, ClaudeTypeOK, TurnsInv, RequestOk, Request
<1> HIDE DEF r
<1>1. ClaudeTypeOK'
  <2>1. attentions' \subseteq ControlId /\ offered' \subseteq ControlId \X (1..MaxTurn)
    BY <1>0 DEF ClaudeInv, ClaudeTypeOK
  <2>2. written' \in [ControlId -> Nat]
    BY <1>0
  <2> QED
    BY <1>0, <2>1, <2>2 DEF ClaudeInv, ClaudeTypeOK, FrameCase
<1>2. InitializeInv'
  BY <1>0 DEF ClaudeInv, InitializeInv, FrameCase, Untouched
<1>3. ReadyInv' /\ TurnsInv'
  BY <1>0 DEF ClaudeInv, ReadyInv, TurnsInv, FrameCase
<1>4. RequestsOfTurn'
  BY <1>0 DEF ClaudeInv, RequestsOfTurn
<1> QED
  BY <1>1, <1>2, <1>3, <1>4 DEF ClaudeInv

LEMMA CancelKeeps ==
    ASSUME ClaudeInv, NEW f \in Frame, FrameCase(f), Cancel(f)
    PROVE  ClaudeInv'
<1>0. /\ attentions' \subseteq attentions
      /\ UNCHANGED <<session, nextControl, nextTurn, controls, current, announced, worked,
                     finished, offered, written>>
  BY DEF Cancel, reported
<1>1. armed' \in BOOLEAN /\ (attentions' # {} => ~armed')
  BY DEF Cancel, Refreshed
<1>2. ClaudeTypeOK'
  BY <1>0, <1>1 DEF ClaudeInv, ClaudeTypeOK, FrameCase
<1>3. InitializeInv' /\ ReadyInv' /\ TurnsInv'
  BY <1>0 DEF ClaudeInv, InitializeInv, ReadyInv, TurnsInv, FrameCase, Untouched
<1>4. RequestsOfTurn'
  BY <1>0, <1>1 DEF ClaudeInv, RequestsOfTurn
<1> QED
  BY <1>2, <1>3, <1>4 DEF ClaudeInv

LEMMA RefreshKeeps ==
    ASSUME ClaudeInv, NEW f \in Frame, FrameCase(f), Refresh \/ Unread
    PROVE  ClaudeInv'
<1>0. UNCHANGED <<session, nextControl, nextTurn, controls, attentions, current, announced,
                  worked, finished, offered, written>>
  BY DEF Refresh, Unread, reported
<1>1. armed' \in BOOLEAN /\ (attentions # {} => ~armed')
  <2>1. CASE Refresh
    BY <2>1 DEF Refresh, Refreshed
  <2>2. CASE Unread
    BY <2>2 DEF Unread, ClaudeInv, ClaudeTypeOK, RequestsOfTurn
  <2> QED
    BY <2>1, <2>2
<1>2. ClaudeTypeOK'
  BY <1>0, <1>1 DEF ClaudeInv, ClaudeTypeOK, FrameCase
<1>3. InitializeInv' /\ ReadyInv' /\ TurnsInv' /\ RequestsOfTurn'
  BY <1>0, <1>1 DEF ClaudeInv, InitializeInv, ReadyInv, TurnsInv, RequestsOfTurn, FrameCase, Untouched
<1> QED
  BY <1>2, <1>3 DEF ClaudeInv

(* The answer to initialize finds the actor untouched; it may announce the  *)
(* session to resume and begin the first turn.                              *)
LEMMA InitializeResponseKeeps ==
    ASSUME ClaudeInv, NEW f \in Frame, FrameCase(f), f.control \in 1..MaxControl,
           <<f.control, "Initialize">> \in controls, Response(f)
    PROVE  ClaudeInv'
<1> USE ClaudeAssumption, NoTurnAssumption
<1> DEFINE s == IF start.resume # None THEN start.resume ELSE session
<1>0. /\ f.control = 1 /\ Untouched /\ start \in StartCommand
      /\ \A c \in controls : c[2] = "Initialize" => c[1] = 1
      /\ controls \subseteq PendingControl
  <2>1. <<f.control, "Initialize">>[2] = "Initialize" => <<f.control, "Initialize">>[1] = 1
    BY DEF ClaudeInv, InitializeInv
  <2>2. f.control = 1
    BY <2>1
  <2> QED
    BY <2>2 DEF ClaudeInv, ClaudeTypeOK, InitializeInv, FrameCase
<1>1. /\ s \in SessionId \cup {None} /\ session' = s
      /\ start.resume # None => s = start.resume
      /\ announced' = IF s = None THEN {} ELSE {s}
      /\ controls' = {c \in controls : c[1] # 1}
      /\ UNCHANGED <<nextControl, attentions, finished, offered, written>>
  BY <1>0 DEF Response, InitializeResponse, StartCommand, Untouched
<1>2. IF start.input THEN BeginTurn(s)
      ELSE armed' = FALSE /\ UNCHANGED <<nextTurn, current, worked>>
  BY DEF Response, InitializeResponse
<1> HIDE DEF s
<1>3. /\ nextTurn' \in 1..(MaxTurn + 1)
      /\ current' \in CurrentTurn \cup {None} /\ armed' \in BOOLEAN
      /\ worked' \subseteq 1..MaxTurn
      /\ s = None => worked' = {}
      /\ TurnsInv' /\ RequestsOfTurn'
  <2>1. CASE start.input
    <3>1. /\ nextTurn <= MaxTurn /\ current = None /\ attentions = {} /\ worked = {}
          /\ BeginTurn(s)
      BY <1>0, <1>2, <2>1 DEF Untouched
    <3> QED
      BY <1>1, <3>1, BeginTurnKeeps
  <2>2. CASE ~start.input
    BY <1>0, <1>1, <1>2, <2>2
    DEF ClaudeInv, ClaudeTypeOK, TurnsInv, RequestsOfTurn, Untouched
  <2> QED
    BY <2>1, <2>2
<1>4. ClaudeTypeOK'
  BY <1>0, <1>1, <1>3 DEF ClaudeInv, ClaudeTypeOK, FrameCase
<1>5. InitializeInv'
  <2>1. <<1, "Initialize">> \notin controls'
    BY <1>1
  <2> QED
    BY <1>0, <1>1, <2>1 DEF ClaudeInv, InitializeInv, FrameCase
<1>6. ReadyInv'
  BY <1>0, <1>1, <1>3 DEF ReadyInv, FrameCase, Untouched
<1> QED
  BY <1>3, <1>4, <1>5, <1>6 DEF ClaudeInv

LEMMA ResponseKeeps ==
    ASSUME ClaudeInv, NEW f \in Frame, FrameCase(f), f.control \in 1..MaxControl, Response(f)
    PROVE  ClaudeInv'
<1>1. CASE <<f.control, "Initialize">> \in controls
  BY <1>1, InitializeResponseKeeps
<1>2. CASE <<f.control, "Initialize">> \notin controls
  <2>0. /\ controls' \subseteq controls
        /\ UNCHANGED <<session, nextControl, nextTurn, attentions, current, announced, worked,
                       finished, offered, written>>
    BY <1>2 DEF Response
  <2>1. armed' \in BOOLEAN /\ (attentions # {} => ~armed')
    BY <1>2 DEF Response, Refreshed
  <2>2. ClaudeTypeOK'
    BY <2>0, <2>1 DEF ClaudeInv, ClaudeTypeOK, FrameCase
  <2>3. InitializeInv'
    BY <2>0 DEF ClaudeInv, InitializeInv, FrameCase, Untouched
  <2>4. ReadyInv' /\ TurnsInv' /\ RequestsOfTurn'
    BY <2>0, <2>1 DEF ClaudeInv, ReadyInv, TurnsInv, RequestsOfTurn, FrameCase
  <2> QED
    BY <2>2, <2>3, <2>4 DEF ClaudeInv
<1> QED
  BY <1>1, <1>2

(* The first input is not written: Ready may be out, and the actor is over. *)
LEMMA InitialInputFailsKeeps ==
    ASSUME ClaudeInv, NEW f \in Frame, mode = "running", InitialInputFails(f),
           piece' \in BOOLEAN, cut' \in BOOLEAN, frames' \in 0..MaxFrames
    PROVE  ClaudeInv'
<1> USE ClaudeAssumption
<1>0. f.control = 1 /\ Untouched /\ start \in StartCommand
  <2>1. <<f.control, "Initialize">>[2] = "Initialize" => <<f.control, "Initialize">>[1] = 1
    BY DEF ClaudeInv, InitializeInv, InitialInputFails
  <2>2. f.control = 1
    BY <2>1
  <2> QED
    BY <2>2 DEF ClaudeInv, InitializeInv, InitialInputFails
<1>1. /\ mode' = "ended"
      /\ start' = start
      /\ UNCHANGED <<nextControl, nextTurn, controls, attentions, current, armed,
                     quiesced, worked, finished, offered, written>>
  BY DEF InitialInputFails
<1>2. /\ session' \in SessionId \cup {None}
      /\ announced' = IF session' = None THEN {} ELSE {session'}
      /\ session' # None => session' = start.resume
  BY <1>0 DEF InitialInputFails, Untouched, StartCommand
<1>3. ClaudeTypeOK'
  BY <1>1, <1>2 DEF ClaudeInv, ClaudeTypeOK
<1>4. InitializeInv'
  BY <1>1 DEF ClaudeInv, InitializeInv
<1>5. ReadyInv' /\ TurnsInv' /\ RequestsOfTurn'
  BY <1>0, <1>1, <1>2 DEF ClaudeInv, ReadyInv, TurnsInv, RequestsOfTurn, Untouched
<1> QED
  BY <1>3, <1>4, <1>5 DEF ClaudeInv

LEMMA ReadFrameKeeps ==
    ASSUME ClaudeInv, NEW f \in Frame, ReadFrame(f)
    PROVE  ClaudeInv'
<1>0. /\ mode = "running"
      /\ piece' \in BOOLEAN /\ cut' \in BOOLEAN /\ frames' \in 0..MaxFrames
  <2>1. frames \in 0..MaxFrames /\ cut \in BOOLEAN
    BY DEF ClaudeInv, ClaudeTypeOK
  <2>2. /\ mode = "running" /\ frames < MaxFrames
        /\ frames' = frames + 1 /\ piece' = FALSE /\ cut' = cut
    BY DEF ReadFrame
  <2>3. frames' \in 0..MaxFrames
    BY <2>1, <2>2, ClaudeAssumption
  <2>4. piece' \in BOOLEAN /\ cut' \in BOOLEAN
    BY <2>1, <2>2
  <2> QED
    BY <2>2, <2>3, <2>4
<1>1. CASE FrameOk(f) /\ handle_frame(f) /\ UNCHANGED <<mode, start, quiesced>>
  <2>0. FrameCase(f)
    BY <1>0, <1>1 DEF FrameCase
  <2>1. CASE f.type = "init" /\ InitFrame(f)
    <3>1. InitOk(f)
      BY <1>1, <2>1 DEF FrameOk
    <3>2. Answered
      <4>1. ASSUME <<1, "Initialize">> \in controls PROVE FALSE
        <5>1. \E c \in controls : c[2] = "Initialize"
          BY <4>1
        <5> QED
          BY <2>1, <5>1 DEF ReadFrame
      <4> QED
        BY <4>1 DEF Answered
    <3> QED
      BY <2>0, <2>1, <3>1, <3>2, FrameFields, InitFrameKeeps
  <2>2. CASE f.type \in {"system", "assistant"} /\ Refresh
    BY <2>0, <2>2, RefreshKeeps
  <2>3. CASE f.type = "user" /\ Replay
    <3>1. OfSession(f)
      BY <1>1, <2>3 DEF FrameOk
    <3> QED
      BY <2>0, <2>3, <3>1, ReplayKeeps
  <2>4. CASE f.type = "result" /\ Result
    <3>1. ResultOk(f)
      BY <1>1, <2>4 DEF FrameOk
    <3> QED
      BY <2>0, <2>4, <3>1, ResultKeeps
  <2>5. CASE f.type = "control_request" /\ Request(f)
    <3>1. RequestOk(f)
      BY <1>1, <2>5 DEF FrameOk
    <3> QED
      BY <2>0, <2>5, <3>1, FrameFields, RequestKeeps
  <2>6. CASE f.type = "control_response" /\ Response(f)
    BY <2>0, <2>6, FrameFields, ResponseKeeps
  <2>7. CASE f.type = "control_cancel_request" /\ Cancel(f)
    BY <2>0, <2>7, CancelKeeps
  <2>8. CASE f.type = "other" /\ Unread
    BY <2>0, <2>8, RefreshKeeps
  <2> QED
    BY <1>1, <2>1, <2>2, <2>3, <2>4, <2>5, <2>6, <2>7, <2>8 DEF handle_frame
<1>2. CASE InitialInputFails(f)
  BY <1>0, <1>2, InitialInputFailsKeeps
<1>3. CASE Die
  BY <1>0, <1>3, ClaudeInvStays DEF Die, reported, ClaudeInv, ClaudeTypeOK
<1> QED
  BY <1>1, <1>2, <1>3 DEF ReadFrame

LEMMA ClaudeInitHolds == ClaudeInit => ClaudeInv
<1> SUFFICES ASSUME ClaudeInit PROVE ClaudeInv
  OBVIOUS
<1>1. ClaudeTypeOK
  <2>1. /\ nextControl \in 1..(MaxControl + 1) /\ nextTurn \in 1..(MaxTurn + 1)
        /\ frames \in 0..MaxFrames /\ written \in [ControlId -> Nat]
    BY ClaudeAssumption DEF ClaudeInit
  <2> QED
    BY <2>1 DEF ClaudeInit, ClaudeTypeOK
<1>2. InitializeInv /\ ReadyInv /\ TurnsInv /\ RequestsOfTurn
  BY DEF ClaudeInit, InitializeInv, ReadyInv, TurnsInv, RequestsOfTurn, Untouched
<1> QED
  BY <1>1, <1>2 DEF ClaudeInv

LEMMA ClaudeNextKeeps == ClaudeInv /\ [ClaudeNext]_claudeVars => ClaudeInv'
<1> SUFFICES ASSUME ClaudeInv, [ClaudeNext]_claudeVars PROVE ClaudeInv'
  OBVIOUS
<1>1. CASE UNCHANGED claudeVars
  BY <1>1, ClaudeInvStays DEF claudeVars, reading, reported, ClaudeInv, ClaudeTypeOK
<1>2. CASE ClaudeNext
  BY <1>2, StartKeeps, SendTurnKeeps, RespondKeeps, InterruptKeeps, QuietKeeps, ReadFrameKeeps
  DEF ClaudeNext, Command
<1> QED
  BY <1>1, <1>2

(***************************************************************************)
(* The actor's fields and the history keep their types, whatever commands,  *)
(* frames and deadlines select! finds ready.                                *)
(***************************************************************************)
THEOREM ClaudeTypeHolds == ClaudeSpec => []ClaudeTypeOK
<1>1. ClaudeInv => ClaudeTypeOK
  BY DEF ClaudeInv
<1> QED
  BY <1>1, ClaudeInitHolds, ClaudeNextKeeps, PTL DEF ClaudeSpec

(***************************************************************************)
(* Ready comes first and for one session, a turn is reported Working before *)
(* it asks or ends, and turns end in order: for any number of turns, frames *)
(* and requests of the process.                                             *)
(***************************************************************************)
THEOREM ReportsInOrderHolds == ClaudeSpec => []ReportsInOrder
  BY ClaudeInvReports, ClaudeInitHolds, ClaudeNextKeeps, PTL DEF ClaudeSpec

(***************************************************************************)
(* A request that can still be answered is of the running turn, unanswered, *)
(* and stops the turn's clock.                                              *)
(***************************************************************************)
THEOREM RequestsOfTurnHolds == ClaudeSpec => []RequestsOfTurn
<1>1. ClaudeInv => RequestsOfTurn
  BY DEF ClaudeInv
<1> QED
  BY <1>1, ClaudeInitHolds, ClaudeNextKeeps, PTL DEF ClaudeSpec

-----------------------------------------------------------------------------
(***************************************************************************)
(* The inductive invariant of OpenCodeAdapter ties what the actor holds to  *)
(* the events that are still under way.  A permission that is settled and   *)
(* not yet known to be has its reply in the stream, behind the question; a  *)
(* message has an idle session behind it unless the session is busy; a turn *)
(* that is not armed is owed a new message, and one that is armed is owed   *)
(* an end.  No update of a message follows its removal.  What keeps an      *)
(* earlier turn's end off the prompt: as long as one is in the stream,      *)
(* every message before it is known and the turn unarmed.                   *)
(***************************************************************************)
Has(s, type) == \E i \in DOMAIN s : s[i].type = type
HasOf(s, type, p) == \E i \in DOMAIN s : s[i].type = type /\ s[i].id = p
Before(s, one, two, p) ==
    \A i, j \in DOMAIN s :
      s[i].type = two /\ s[i].id = p /\ s[j].type = one /\ s[j].id = p => j < i
IdleAfter(s, i) == \E j \in DOMAIN s : j > i /\ s[j].type = "idle"
IdleFollows(s, b) ==
    \A i \in DOMAIN s : s[i].type \in {"busy", "message"} => b \/ IdleAfter(s, i)
Unknown(s, k) == \E i \in DOMAIN s : s[i].type = "message" /\ s[i].id \notin k
Harmless(s, k) ==
    \A i, j \in DOMAIN s :
      s[i].type = "idle" /\ j < i /\ s[j].type = "message" => s[j].id \in k
UpTo(s, n) == \A i \in DOMAIN s : s[i].type = "message" => s[i].id <= n

OwnIn(w) == \E i \in DOMAIN w : w[i] = "own"
Owed == \E i \in DOMAIN prompts : prompts[i] = "own" /\ (i > 1 \/ ~busy \/ said = 0)

Unasked == {"start", "status1", "permissions"}
Early == Unasked \cup {"questions", "messages1", "merge1", "messages2", "status2", "merge2"}

SessionInv ==
    /\ busy => prompts # <<>>
    /\ asked # {} => busy
    /\ IsFiniteSet(asked)
    /\ \A s, t \in turn : s = t

EarlyInv ==
    /\ at = "start" => stream = <<>>
    /\ at \in Unasked => pending = {}
    /\ at \in Early =>
         /\ turn = {} /\ turns = 0 /\ responding = {} /\ outcomes = {}
         /\ \A n \in 1..MaxTurns : working[n] = 0
         /\ resolved = {} /\ \A p \in Permission : posts[p] = 0
         /\ ~OwnIn(prompts)

WorkingFits(w, n) ==
    /\ w \in [1..MaxTurns -> Nat]
    /\ \A k \in 1..MaxTurns : w[k] <= 1 /\ (k > n => w[k] = 0)
OutcomesFit(O, w, n) == \A o \in O : o[1] <= n /\ (o[2] = "Completed" => w[o[1]] = 1)
TurnsFit(T, w, n) ==
    \A t \in T : /\ t.id <= n /\ w[t.id] = (IF t.shown THEN 1 ELSE 0)
                 /\ t.armed /\ ~t.interrupted => t.shown

HistoryInv ==
    /\ at \in Sending \cup {"loop"} => readied
    /\ (\E n \in 1..MaxTurns : working[n] > 0) \/ outcomes # {} \/ resolved # {} => readied
    /\ WorkingFits(working, turns) /\ OutcomesFit(outcomes, working, turns)
    /\ TurnsFit(turn, working, turns)
    /\ \A o \in outcomes, t \in turn : o[1] < t.id
    /\ resolved \subseteq settled
    /\ at \in {"sendStatus", "sendMessages"} => turn = {}
    /\ at = "sendPost" => turn # {} /\ \A t \in turn : ~t.armed

PermissionInv ==
    \A p \in Permission :
      /\ ~(p \in asked /\ p \in settled)
      /\ HasOf(stream, "asked", p) \/ HasOf(stream, "replied", p) \/ p \in pending
           => p \in asked \cup settled
      /\ p \in asked => ~HasOf(stream, "replied", p)
      /\ Before(stream, "asked", "replied", p)
      /\ p \in settled /\ (p \in pending \/ HasOf(stream, "asked", p)) => HasOf(stream, "replied", p)
      /\ at \notin Unasked \cup {"ended"} /\ p \in asked => p \in pending \/ HasOf(stream, "asked", p)
      /\ posts[p] <= 1
      /\ at # "ended" /\ posts[p] = 1 =>
           /\ p \in settled
           /\ p \in responding \/ (p \notin pending /\ ~HasOf(stream, "asked", p))

TurnInv ==
    /\ IdleFollows(stream, busy)
    /\ at = "merge2" /\ phase => busy \/ Has(stream, "idle")
    /\ at = "loop" => \A t \in turn : IF t.armed THEN prompts # <<>> \/ Has(stream, "idle")
                                     ELSE Owed \/ Unknown(stream, known)

PromptInv ==
    /\ UpTo(stream, messages) /\ known \subseteq 1..messages
    /\ Has(stream, "error") => erred
    /\ at # "ended" /\ ~crossed => \A i \in DOMAIN prompts : prompts[i] = "own" => i = 1
    /\ at \in {"sendMessages", "sendPost"} /\ ~crossed => ~busy
    /\ at = "sendPost" /\ ~crossed => ~Unknown(stream, known)
    /\ at \notin {"loop", "ended"} /\ ~crossed /\ ~erred => ~OwnIn(prompts)
    /\ at = "loop" /\ ~crossed /\ ~erred /\ OwnIn(prompts) =>
         /\ turn # {} /\ Harmless(stream, known)
         /\ Has(stream, "idle") => \A t \in turn : ~t.armed

RemovalInv ==
    \A m \in 1..MaxMessages :
      /\ HasOf(stream, "removed", m) => m \in gone
      /\ Before(stream, "message", "removed", m)

OpenCodeInv ==
    /\ OpenCodeTypeOK /\ SessionInv /\ EarlyInv /\ HistoryInv /\ PermissionInv /\ TurnInv /\ PromptInv

(* What is in a stream to which some events were added.                     *)
LEMMA StreamGrows ==
    ASSUME NEW s \in Seq(SseEvent), NEW x \in Seq(SseEvent)
    PROVE  /\ s \o x \in Seq(SseEvent)
           /\ \A type : Has(s \o x, type) <=> Has(s, type) \/ Has(x, type)
           /\ \A type, p : HasOf(s \o x, type, p) <=> HasOf(s, type, p) \/ HasOf(x, type, p)
           /\ \A one, two, p : Before(s, one, two, p) /\ Before(x, one, two, p)
                       /\ ~(HasOf(s, two, p) /\ HasOf(x, one, p))
                     => Before(s \o x, one, two, p)
           /\ \A k : Unknown(s \o x, k) <=> Unknown(s, k) \/ Unknown(x, k)
           /\ \A k : Harmless(s, k) /\ ~Has(x, "idle") => Harmless(s \o x, k)
           /\ \A n : UpTo(s, n) /\ UpTo(x, n) => UpTo(s \o x, n)
           /\ \A b : x # <<>> /\ x[Len(x)].type = "idle" => IdleFollows(s \o x, b)
           /\ \A b : IdleFollows(s, b) /\ ((Has(x, "busy") \/ Has(x, "message")) => b)
                    => IdleFollows(s \o x, b)
<1> DEFINE r == s \o x
<1>1. /\ r \in Seq(SseEvent) /\ Len(s) \in Nat /\ Len(x) \in Nat
      /\ DOMAIN s = 1..Len(s) /\ DOMAIN x = 1..Len(x) /\ DOMAIN r = 1..(Len(s) + Len(x))
      /\ \A i \in 1..Len(s) : r[i] = s[i]
      /\ \A i \in 1..Len(x) : r[Len(s) + i] = x[i]
      /\ x # <<>> => Len(x) > 0
  OBVIOUS
<1> HIDE DEF r
<1>2. \A i \in DOMAIN s : i \in DOMAIN r /\ r[i] = s[i]
  BY <1>1
<1>3. \A i \in DOMAIN x : Len(s) + i \in DOMAIN r /\ r[Len(s) + i] = x[i]
  BY <1>1
<1>4. \A i \in DOMAIN r : \/ i \in DOMAIN s
                          \/ i - Len(s) \in DOMAIN x /\ r[i] = x[i - Len(s)] /\ i > Len(s)
  BY <1>1
<1>5. \A type : Has(r, type) <=> Has(s, type) \/ Has(x, type)
  BY <1>2, <1>3, <1>4 DEF Has
<1>6. \A type, p : HasOf(r, type, p) <=> HasOf(s, type, p) \/ HasOf(x, type, p)
  BY <1>2, <1>3, <1>4 DEF HasOf
<1>7. ASSUME NEW one, NEW two, NEW p, Before(s, one, two, p), Before(x, one, two, p),
             ~(HasOf(s, two, p) /\ HasOf(x, one, p)),
             NEW i \in DOMAIN r, NEW j \in DOMAIN r,
             r[i].type = two, r[i].id = p, r[j].type = one, r[j].id = p
      PROVE  j < i
  <2>1. CASE i \in DOMAIN s /\ j \in DOMAIN s
    BY <1>2, <1>7, <2>1 DEF Before
  <2>2. CASE i \in DOMAIN s /\ j \notin DOMAIN s
    <3>1. HasOf(s, two, p)
      BY <1>2, <1>7, <2>2 DEF HasOf
    <3>2. HasOf(x, one, p)
      BY <1>4, <1>7, <2>2 DEF HasOf
    <3> QED
      BY <1>7, <3>1, <3>2
  <2>3. CASE i \notin DOMAIN s /\ j \in DOMAIN s
    BY <1>1, <1>4, <2>3
  <2>4. CASE i \notin DOMAIN s /\ j \notin DOMAIN s
    <3>1. j - Len(s) < i - Len(s)
      BY <1>4, <1>7, <2>4 DEF Before
    <3> QED
      BY <1>1, <3>1
  <2> QED
    BY <2>1, <2>2, <2>3, <2>4
<1>8. \A k : Unknown(r, k) <=> Unknown(s, k) \/ Unknown(x, k)
  BY <1>2, <1>3, <1>4 DEF Unknown
<1>9. ASSUME NEW k, Harmless(s, k), ~Has(x, "idle"),
             NEW i \in DOMAIN r, NEW j \in DOMAIN r,
             r[i].type = "idle", j < i, r[j].type = "message"
      PROVE  r[j].id \in k
  <2>1. i \in DOMAIN s
    BY <1>4, <1>9 DEF Has
  <2>2. j \in DOMAIN s
    BY <1>1, <1>9, <2>1
  <2> QED
    BY <1>2, <1>9, <2>1, <2>2 DEF Harmless
<1>10. \A n : UpTo(s, n) /\ UpTo(x, n) => UpTo(r, n)
  BY <1>2, <1>4 DEF UpTo
<1>11. ASSUME NEW b, x # <<>>, x[Len(x)].type = "idle",
              NEW i \in DOMAIN r, r[i].type \in {"busy", "message"}
       PROVE  IdleAfter(r, i)
  <2>1. Len(s) + Len(x) \in DOMAIN r /\ r[Len(s) + Len(x)].type = "idle"
    BY <1>1, <1>11
  <2>2. i # Len(s) + Len(x)
    BY <1>11, <2>1
  <2>3. Len(s) + Len(x) > i
    BY <1>1, <2>2
  <2> QED
    BY <2>1, <2>3 DEF IdleAfter
<1>12. \A one, two, p : Before(s, one, two, p) /\ Before(x, one, two, p)
              /\ ~(HasOf(s, two, p) /\ HasOf(x, one, p)) => Before(r, one, two, p)
  BY <1>7 DEF Before
<1>13. \A k : Harmless(s, k) /\ ~Has(x, "idle") => Harmless(r, k)
  BY <1>9 DEF Harmless
<1>14. \A b : x # <<>> /\ x[Len(x)].type = "idle" => IdleFollows(r, b)
  BY <1>11 DEF IdleFollows
<1>15. ASSUME NEW b, IdleFollows(s, b), (Has(x, "busy") \/ Has(x, "message")) => b,
              NEW i \in DOMAIN r, r[i].type \in {"busy", "message"}
       PROVE  b \/ IdleAfter(r, i)
  <2>1. CASE i \in DOMAIN s
    <3>1. b \/ IdleAfter(s, i)
      BY <1>2, <1>15, <2>1 DEF IdleFollows
    <3>2. IdleAfter(s, i) => IdleAfter(r, i)
      BY <1>2 DEF IdleAfter
    <3> QED
      BY <3>1, <3>2
  <2>2. CASE i \notin DOMAIN s
    <3>1. Has(x, "busy") \/ Has(x, "message")
      BY <1>4, <1>15, <2>2 DEF Has
    <3> QED
      BY <1>15, <3>1
  <2> QED
    BY <2>1, <2>2
<1>16. \A b : IdleFollows(s, b) /\ ((Has(x, "busy") \/ Has(x, "message")) => b) => IdleFollows(r, b)
  BY <1>15 DEF IdleFollows
<1> QED
  BY <1>1, <1>5, <1>6, <1>8, <1>10, <1>12, <1>13, <1>14, <1>16 DEF r

(* One event.                                                               *)
LEMMA OneEvent ==
    ASSUME NEW e \in SseEvent
    PROVE  /\ <<e>> \in Seq(SseEvent) /\ <<e>> # <<>> /\ <<e>>[Len(<<e>>)] = e
           /\ \A type : Has(<<e>>, type) <=> e.type = type
           /\ \A type, p : HasOf(<<e>>, type, p) <=> (e.type = type /\ e.id = p)
           /\ \A one, two, p : one # two => Before(<<e>>, one, two, p)
           /\ \A k : Unknown(<<e>>, k) <=> (e.type = "message" /\ e.id \notin k)
           /\ \A n : UpTo(<<e>>, n) <=> (e.type = "message" => e.id <= n)
<1> DEFINE x == <<e>>
<1>1. x \in Seq(SseEvent) /\ Len(x) = 1 /\ DOMAIN x = {1} /\ x[1] = e /\ x # <<>>
  OBVIOUS
<1> HIDE DEF x
<1>2. /\ \A type : Has(x, type) <=> e.type = type
      /\ \A type, p : HasOf(x, type, p) <=> (e.type = type /\ e.id = p)
  BY <1>1 DEF Has, HasOf
<1>3. \A one, two, p : one # two => Before(x, one, two, p)
  BY <1>1 DEF Before
<1>4. /\ \A k : Unknown(x, k) <=> (e.type = "message" /\ e.id \notin k)
      /\ \A n : UpTo(x, n) <=> (e.type = "message" => e.id <= n)
  BY <1>1 DEF Unknown, UpTo
<1> QED
  BY <1>1, <1>2, <1>3, <1>4 DEF x

(* What is left in a stream whose first event was received.                 *)
LEMMA StreamShrinks ==
    ASSUME NEW s \in Seq(SseEvent), s # <<>>
    PROVE  /\ Tail(s) \in Seq(SseEvent) /\ Head(s) \in SseEvent
           /\ \A type : Has(s, type) <=> Head(s).type = type \/ Has(Tail(s), type)
           /\ \A type, p : HasOf(s, type, p)
                             <=> (Head(s).type = type /\ Head(s).id = p) \/ HasOf(Tail(s), type, p)
           /\ \A one, two, p : Before(s, one, two, p) =>
                /\ Before(Tail(s), one, two, p)
                /\ Head(s).type = two /\ Head(s).id = p => ~HasOf(Tail(s), one, p)
           /\ \A b : IdleFollows(s, b) =>
                /\ IdleFollows(Tail(s), b)
                /\ Head(s).type \in {"busy", "message"} => b \/ Has(Tail(s), "idle")
           /\ \A k : Unknown(s, k)
                       <=> (Head(s).type = "message" /\ Head(s).id \notin k) \/ Unknown(Tail(s), k)
           /\ \A k : Harmless(s, k) =>
                /\ Harmless(Tail(s), k)
                /\ Head(s).type = "message" /\ Head(s).id \notin k => ~Has(Tail(s), "idle")
           /\ \A n : UpTo(s, n) =>
                /\ UpTo(Tail(s), n)
                /\ Head(s).type = "message" => Head(s).id <= n
<1> DEFINE r == Tail(s)
           h == Head(s)
<1>1. /\ r \in Seq(SseEvent) /\ h \in SseEvent /\ Len(s) \in Nat /\ Len(r) = Len(s) - 1
      /\ DOMAIN s = 1..Len(s) /\ DOMAIN r = 1..Len(r) /\ s[1] = h /\ Len(s) > 0
      /\ \A i \in 1..Len(r) : r[i] = s[i + 1]
  OBVIOUS
<1> HIDE DEF r, h
<1>2. \A i \in DOMAIN r : i + 1 \in DOMAIN s /\ r[i] = s[i + 1] /\ i \in Nat /\ i > 0
  BY <1>1
<1>3. \A i \in DOMAIN s : i = 1 \/ (i - 1 \in DOMAIN r /\ s[i] = r[i - 1] /\ i > 1 /\ i \in Nat)
  BY <1>1
<1>4. 1 \in DOMAIN s /\ s[1] = h
  BY <1>1
<1>5. \A type : Has(s, type) <=> h.type = type \/ Has(r, type)
  BY <1>2, <1>3, <1>4 DEF Has
<1>6. \A type, p : HasOf(s, type, p) <=> (h.type = type /\ h.id = p) \/ HasOf(r, type, p)
  BY <1>2, <1>3, <1>4 DEF HasOf
<1>7. ASSUME NEW one, NEW two, NEW p, Before(s, one, two, p)
      PROVE  /\ Before(r, one, two, p)
             /\ h.type = two /\ h.id = p => ~HasOf(r, one, p)
  <2>1. ASSUME NEW i \in DOMAIN r, NEW j \in DOMAIN r,
               r[i].type = two, r[i].id = p, r[j].type = one, r[j].id = p
        PROVE  j < i
    <3>1. j + 1 < i + 1
      BY <1>2, <1>7, <2>1 DEF Before
    <3> QED
      BY <1>2, <3>1
  <2>2. ASSUME h.type = two, h.id = p, NEW j \in DOMAIN r, r[j].type = one, r[j].id = p
        PROVE  FALSE
    <3>1. j + 1 < 1
      BY <1>2, <1>4, <1>7, <2>2 DEF Before
    <3> QED
      BY <1>2, <3>1
  <2> QED
    BY <2>1, <2>2 DEF Before, HasOf
<1>8. ASSUME NEW b, IdleFollows(s, b)
      PROVE  /\ IdleFollows(r, b)
             /\ h.type \in {"busy", "message"} => b \/ Has(r, "idle")
  <2>1. ASSUME NEW i \in DOMAIN r, IdleAfter(s, i + 1) PROVE IdleAfter(r, i)
    <3>1. PICK j \in DOMAIN s : j > i + 1 /\ s[j].type = "idle"
      BY <2>1 DEF IdleAfter
    <3>2. j - 1 \in DOMAIN r /\ s[j] = r[j - 1] /\ j - 1 > i
      BY <1>2, <1>3, <3>1
    <3> QED
      BY <3>1, <3>2 DEF IdleAfter
  <2>2. IdleFollows(r, b)
    BY <1>2, <1>8, <2>1 DEF IdleFollows
  <2>3. ASSUME h.type \in {"busy", "message"}, ~b PROVE Has(r, "idle")
    <3>1. IdleAfter(s, 1)
      BY <1>4, <1>8, <2>3 DEF IdleFollows
    <3> QED
      BY <1>3, <3>1 DEF IdleAfter, Has
  <2> QED
    BY <2>2, <2>3
<1>9. \A k : Unknown(s, k) <=> (h.type = "message" /\ h.id \notin k) \/ Unknown(r, k)
  BY <1>2, <1>3, <1>4 DEF Unknown
<1>10. ASSUME NEW k, Harmless(s, k)
       PROVE  /\ Harmless(r, k)
              /\ h.type = "message" /\ h.id \notin k => ~Has(r, "idle")
  <2>1. ASSUME NEW i \in DOMAIN r, NEW j \in DOMAIN r,
               r[i].type = "idle", j < i, r[j].type = "message"
        PROVE  r[j].id \in k
    <3>1. j + 1 < i + 1
      BY <1>2, <2>1
    <3> QED
      BY <1>2, <1>10, <2>1, <3>1 DEF Harmless
  <2>2. ASSUME h.type = "message", h.id \notin k, NEW i \in DOMAIN r, r[i].type = "idle"
        PROVE  FALSE
    <3>1. 1 < i + 1
      BY <1>2
    <3> QED
      BY <1>2, <1>4, <1>10, <2>2, <3>1 DEF Harmless
  <2> QED
    BY <2>1, <2>2 DEF Harmless, Has
<1>11. ASSUME NEW n, UpTo(s, n)
       PROVE  UpTo(r, n) /\ (h.type = "message" => h.id <= n)
  BY <1>2, <1>4, <1>11 DEF UpTo
<1> QED
  BY <1>1, <1>5, <1>6, <1>7, <1>8, <1>9, <1>10, <1>11 DEF r, h

(* The empty stream, and more known messages.                               *)
LEMMA StreamRest ==
    /\ \A type : ~Has(<<>>, type)
    /\ \A type, p : ~HasOf(<<>>, type, p)
    /\ \A one, two, p : Before(<<>>, one, two, p)
    /\ \A b : IdleFollows(<<>>, b)
    /\ \A k : ~Unknown(<<>>, k)
    /\ \A n : UpTo(<<>>, n)
    /\ \A s : IdleFollows(s, TRUE)
    /\ \A s, k, m : Harmless(s, k) /\ k \subseteq m => Harmless(s, m)
<1>1. DOMAIN <<>> = {}
  OBVIOUS
<1> QED
  BY <1>1 DEF Has, HasOf, Before, IdleFollows, Unknown, UpTo, Harmless

LEMMA EventTyped ==
    /\ \A type \in {"busy", "idle", "error"} : [type |-> type] \in SseEvent
    /\ \A type \in {"message", "removed"}, m \in 1..MaxMessages : [type |-> type, id |-> m] \in SseEvent
    /\ \A type \in {"asked", "replied"}, p \in Permission : [type |-> type, id |-> p] \in SseEvent
    /\ \A type \in {"question", "answered"}, q \in Question : [type |-> type, id |-> q] \in SseEvent
    /\ \A e \in SseEvent : /\ e.type \in {"message", "removed"} => e.id \in 1..MaxMessages
                           /\ e.type \in {"asked", "replied"} => e.id \in Permission
                           /\ e.type \in {"question", "answered"} => e.id \in Question
  BY DEF SseEvent

(* What one more event makes of the stream; before it is open, nothing.     *)
LEMMA SentOne ==
    ASSUME OpenCodeInv, NEW e \in SseEvent, Send(<<e>>)
    PROVE  /\ stream' \in Seq(SseEvent)
           /\ at = "start" => stream' = <<>>
           /\ at # "start" => Has(stream', e.type) /\ \A p : e.id = p => HasOf(stream', e.type, p)
           /\ \A type : Has(stream', type) => Has(stream, type) \/ e.type = type
           /\ \A type : Has(stream, type) => Has(stream', type)
           /\ \A type, p : HasOf(stream', type, p)
                             => HasOf(stream, type, p) \/ (e.type = type /\ e.id = p)
           /\ \A type, p : HasOf(stream, type, p) => HasOf(stream', type, p)
           /\ \A p : Before(stream, "asked", "replied", p)
                       /\ ~(e.type = "asked" /\ HasOf(stream, "replied", p) /\ e.id = p)
                     => Before(stream', "asked", "replied", p)
           /\ \A k : Unknown(stream, k) => Unknown(stream', k)
           /\ \A k : Unknown(stream', k) => Unknown(stream, k) \/ e.type = "message"
           /\ \A k : at # "start" /\ e.type = "message" /\ e.id \notin k => Unknown(stream', k)
           /\ \A k : Harmless(stream, k) /\ e.type # "idle" => Harmless(stream', k)
           /\ \A n : UpTo(stream, n) /\ (e.type = "message" => e.id <= n) => UpTo(stream', n)
           /\ \A b : e.type = "idle" => IdleFollows(stream', b)
           /\ \A b : IdleFollows(stream, b) /\ (e.type \in {"busy", "message"} => b)
                    => IdleFollows(stream', b)
<1>0. stream \in Seq(SseEvent) /\ (at = "start" => stream = <<>>)
  BY DEF OpenCodeInv, OpenCodeTypeOK, EarlyInv
<1>1. CASE at = "start"
  <2>1. stream' = stream /\ stream = <<>>
    BY <1>0, <1>1 DEF Send
  <2> QED
    BY <1>0, <1>1, <2>1, StreamRest
<1>2. CASE at # "start"
  <2> DEFINE x == <<e>>
  <2>1. stream' = stream \o x
    BY <1>2 DEF Send
  <2>2. /\ x \in Seq(SseEvent) /\ x # <<>> /\ x[Len(x)] = e
        /\ \A type : Has(x, type) <=> e.type = type
        /\ \A type, p : HasOf(x, type, p) <=> (e.type = type /\ e.id = p)
        /\ \A p : Before(x, "asked", "replied", p)
        /\ \A k : Unknown(x, k) <=> (e.type = "message" /\ e.id \notin k)
        /\ \A n : UpTo(x, n) <=> (e.type = "message" => e.id <= n)
    BY OneEvent
  <2> HIDE DEF x
  <2>3. /\ stream' \in Seq(SseEvent)
        /\ \A type : Has(stream', type) <=> Has(stream, type) \/ Has(x, type)
        /\ \A type, p : HasOf(stream', type, p) <=> HasOf(stream, type, p) \/ HasOf(x, type, p)
        /\ \A p : Before(stream, "asked", "replied", p) /\ Before(x, "asked", "replied", p)
                    /\ ~(HasOf(stream, "replied", p) /\ HasOf(x, "asked", p))
                  => Before(stream', "asked", "replied", p)
        /\ \A k : Unknown(stream', k) <=> Unknown(stream, k) \/ Unknown(x, k)
        /\ \A k : Harmless(stream, k) /\ ~Has(x, "idle") => Harmless(stream', k)
        /\ \A n : UpTo(stream, n) /\ UpTo(x, n) => UpTo(stream', n)
        /\ \A b : x # <<>> /\ x[Len(x)].type = "idle" => IdleFollows(stream', b)
        /\ \A b : IdleFollows(stream, b) /\ ((Has(x, "busy") \/ Has(x, "message")) => b)
                 => IdleFollows(stream', b)
    BY <1>0, <2>1, <2>2, StreamGrows
  <2>4. /\ Has(stream', e.type) /\ \A p : e.id = p => HasOf(stream', e.type, p)
        /\ \A type : Has(stream', type) => Has(stream, type) \/ e.type = type
        /\ \A type : Has(stream, type) => Has(stream', type)
    BY <2>2, <2>3
  <2>5. /\ \A type, p : HasOf(stream', type, p) => HasOf(stream, type, p) \/ (e.type = type /\ e.id = p)
        /\ \A type, p : HasOf(stream, type, p) => HasOf(stream', type, p)
        /\ \A p : Before(stream, "asked", "replied", p) /\ ~(e.type = "asked" /\ HasOf(stream, "replied", p) /\ e.id = p)
                     => Before(stream', "asked", "replied", p)
    BY <2>2, <2>3
  <2>6. /\ \A k : Unknown(stream, k) => Unknown(stream', k)
        /\ \A k : Unknown(stream', k) => Unknown(stream, k) \/ e.type = "message"
        /\ \A k : e.type = "message" /\ e.id \notin k => Unknown(stream', k)
        /\ \A k : Harmless(stream, k) /\ e.type # "idle" => Harmless(stream', k)
        /\ \A n : UpTo(stream, n) /\ (e.type = "message" => e.id <= n) => UpTo(stream', n)
        /\ \A b : e.type = "idle" => IdleFollows(stream', b)
    BY <2>2, <2>3
  <2>7. \A b : IdleFollows(stream, b) /\ (e.type \in {"busy", "message"} => b)
             => IdleFollows(stream', b)
    BY <2>2, <2>3
  <2> QED
    BY <1>2, <2>3, <2>4, <2>5, <2>6, <2>7
<1> QED
  BY <1>1, <1>2

(* The parts of the invariant that a step leaves alone.                     *)
LEMMA HistoryStays ==
    ASSUME HistoryInv, at' \in {at, "ended"}, settled \subseteq settled',
           UNCHANGED <<readied, working, outcomes, resolved, turn, turns>>
    PROVE  HistoryInv'
  BY DEF HistoryInv, Sending

LEMMA EarlyStays ==
    ASSUME EarlyInv, at' \in {at, "ended"}, at = "start" => stream' = <<>>,
           at \in Early => ~OwnIn(prompts'),
           UNCHANGED <<pending, turn, turns, responding, working, outcomes, resolved, posts>>
    PROVE  EarlyInv'
  BY DEF EarlyInv, Early, Unasked

LEMMA PermissionStays ==
    ASSUME PermissionInv, at' \in {at, "ended"},
           UNCHANGED <<asked, settled, pending, responding, posts>>,
           \A p \in Permission :
             /\ HasOf(stream', "asked", p) <=> HasOf(stream, "asked", p)
             /\ HasOf(stream', "replied", p) <=> HasOf(stream, "replied", p)
             /\ Before(stream, "asked", "replied", p) => Before(stream', "asked", "replied", p)
    PROVE  PermissionInv'
<1> SUFFICES ASSUME NEW p \in Permission
             PROVE  PermissionInv!(p)'
  BY DEF PermissionInv
<1> QED
  BY DEF PermissionInv, Unasked

(* Turns to be done: one more, one less.                                    *)
LEMMA WorkGrows ==
    ASSUME NEW w \in Seq({"own", "other"}), NEW a \in {"own", "other"}
    PROVE  /\ Append(w, a) \in Seq({"own", "other"}) /\ Append(w, a) # <<>>
           /\ OwnIn(Append(w, a)) <=> OwnIn(w) \/ a = "own"
           /\ \A i \in DOMAIN w : i \in DOMAIN Append(w, a) /\ Append(w, a)[i] = w[i]
           /\ \A i \in DOMAIN Append(w, a) : i \in DOMAIN w \/ Append(w, a)[i] = a
           /\ Len(w) + 1 \in DOMAIN Append(w, a) /\ Append(w, a)[Len(w) + 1] = a
           /\ w = <<>> => DOMAIN Append(w, a) = {1}
<1> DEFINE v == Append(w, a)
<1>1. /\ v \in Seq({"own", "other"}) /\ v # <<>> /\ Len(w) \in Nat
      /\ DOMAIN w = 1..Len(w) /\ DOMAIN v = 1..(Len(w) + 1)
      /\ \A i \in 1..Len(w) : v[i] = w[i]
      /\ v[Len(w) + 1] = a
      /\ w = <<>> => Len(w) = 0
  OBVIOUS
<1> HIDE DEF v
<1>2. /\ \A i \in DOMAIN w : i \in DOMAIN v /\ v[i] = w[i]
      /\ Len(w) + 1 \in DOMAIN v
      /\ \A i \in DOMAIN v : i \in DOMAIN w \/ i = Len(w) + 1
      /\ w = <<>> => DOMAIN v = {1}
  BY <1>1
<1>3. OwnIn(v) <=> OwnIn(w) \/ a = "own"
  BY <1>1, <1>2 DEF OwnIn
<1> QED
  BY <1>1, <1>2, <1>3 DEF v

LEMMA WorkShrinks ==
    ASSUME NEW w \in Seq({"own", "other"}), w # <<>>
    PROVE  /\ Tail(w) \in Seq({"own", "other"})
           /\ \A i \in DOMAIN w : i = 1 \/ (i - 1 \in DOMAIN Tail(w) /\ Tail(w)[i - 1] = w[i] /\ i > 1)
           /\ \A i \in DOMAIN Tail(w) : i \in Nat /\ i > 0 /\ i + 1 \in DOMAIN w /\ Tail(w)[i] = w[i + 1]
  OBVIOUS

LEMMA TurnStays ==
    ASSUME TurnInv, UNCHANGED <<at, phase, turn, known>>, IdleFollows(stream', busy'),
           at # "start" =>
             /\ busy => busy' \/ Has(stream', "idle")
             /\ Has(stream, "idle") => Has(stream', "idle")
             /\ prompts # <<>> => prompts' # <<>> \/ Has(stream', "idle")
             /\ Unknown(stream, known) => Unknown(stream', known)
             /\ Owed => Owed' \/ Unknown(stream', known)
    PROVE  TurnInv'
<1>1. at' = "loop" => \A t \in turn' : IF t.armed THEN prompts' # <<>> \/ Has(stream', "idle")
                                       ELSE Owed' \/ Unknown(stream', known')
  BY DEF TurnInv
<1>2. at' = "merge2" /\ phase' => busy' \/ Has(stream', "idle")
  BY DEF TurnInv
<1> QED
  BY <1>1, <1>2 DEF TurnInv

LEMMA PromptStays ==
    ASSUME OpenCodeInv, UNCHANGED <<at, known, turn>>, UpTo(stream', messages'),
           messages' \in Nat, messages' >= messages,
           Has(stream', "error") => erred', crossed => crossed', erred => erred',
           \A i \in DOMAIN prompts' : prompts'[i] = "own" => i \in DOMAIN prompts /\ prompts[i] = "own",
           at \in {"sendMessages", "sendPost"} /\ ~crossed' => ~busy',
           at = "sendPost" /\ ~crossed' /\ Unknown(stream', known) => Unknown(stream, known),
           Harmless(stream, known) => Harmless(stream', known),
           Has(stream', "idle") => Has(stream, "idle")
    PROVE  PromptInv'
<1>0. PromptInv /\ messages \in Nat
  BY OpenCodeAssumption DEF OpenCodeInv, OpenCodeTypeOK
<1>1. known' \subseteq 1..messages'
  BY <1>0 DEF PromptInv
<1>2. OwnIn(prompts') => OwnIn(prompts)
  BY DEF OwnIn
<1>3. at' = "sendPost" /\ ~crossed' => ~Unknown(stream', known')
  BY <1>0 DEF PromptInv
<1>4. at' = "loop" /\ ~crossed' /\ ~erred' /\ OwnIn(prompts') =>
         /\ turn' # {} /\ Harmless(stream', known')
         /\ Has(stream', "idle") => \A t \in turn' : ~t.armed
  BY <1>0, <1>2 DEF PromptInv
<1>5. /\ at' # "ended" /\ ~crossed' => \A i \in DOMAIN prompts' : prompts'[i] = "own" => i = 1
      /\ at' \in {"sendMessages", "sendPost"} /\ ~crossed' => ~busy'
      /\ at' \notin {"loop", "ended"} /\ ~crossed' /\ ~erred' => ~OwnIn(prompts')
  BY <1>0, <1>2 DEF PromptInv
<1> QED
  BY <1>1, <1>3, <1>4, <1>5 DEF PromptInv

LEMMA SessionTyped ==
    ASSUME OpenCodeInv, UNCHANGED <<at, actorVars, historyVars>>,
           prompts' \in Seq({"own", "other"}), busy' \in BOOLEAN,
           said' \in 0..messages', messages' \in 0..MaxMessages, gone' \subseteq 1..messages',
           asked' \subseteq Permission, settled' \subseteq Permission,
           question' \subseteq Question, closed' \subseteq Question,
           stream' \in Seq(SseEvent), crossed' \in BOOLEAN, erred' \in BOOLEAN
    PROVE  /\ OpenCodeTypeOK'
           /\ UNCHANGED <<at, resumed, input, phase, asks, known, pending, responding, turn, turns,
                          halted, readied, working, outcomes, posts, resolved>>
<1>1. UNCHANGED <<at, resumed, input, phase, asks, known, pending, responding, turn, turns,
                  halted, readied, working, outcomes, posts, resolved>>
  BY DEF actorVars, hydration, historyVars
<1> QED
  BY <1>1 DEF OpenCodeInv, OpenCodeTypeOK

(* The typed parts of the session.                                          *)
LEMMA SessionParts ==
    OpenCodeInv =>
      /\ SessionInv /\ EarlyInv /\ HistoryInv /\ PermissionInv /\ TurnInv /\ PromptInv
      /\ prompts \in Seq({"own", "other"}) /\ busy \in BOOLEAN
      /\ said \in 0..messages /\ messages \in 0..MaxMessages /\ messages \in Nat /\ said \in Nat
      /\ gone \subseteq 1..messages
      /\ asked \subseteq Permission /\ settled \subseteq Permission
      /\ question \subseteq Question /\ closed \subseteq Question
      /\ stream \in Seq(SseEvent) /\ crossed \in BOOLEAN /\ erred \in BOOLEAN
      /\ MaxMessages \in Nat
  BY OpenCodeAssumption DEF OpenCodeInv, OpenCodeTypeOK

LEMMA OtherPromptKeeps ==
    ASSUME OpenCodeInv, at # "ended", UNCHANGED <<at, actorVars, historyVars>>, OtherPrompt
    PROVE  OpenCodeInv'
<1>0. /\ SessionInv /\ EarlyInv /\ HistoryInv /\ PermissionInv /\ TurnInv /\ PromptInv
      /\ prompts \in Seq({"own", "other"})
  BY SessionParts
<1>1. /\ prompts' = Append(prompts, "other")
      /\ UNCHANGED <<busy, said, messages, gone, asked, settled, question, closed, stream, crossed,
                     erred>>
  BY DEF OtherPrompt, messageVars, requestVars
<1> DEFINE v == Append(prompts, "other")
<1>2. /\ v \in Seq({"own", "other"}) /\ v # <<>>
      /\ OwnIn(v) <=> OwnIn(prompts)
      /\ \A i \in DOMAIN prompts : i \in DOMAIN v /\ v[i] = prompts[i]
      /\ \A i \in DOMAIN v : i \in DOMAIN prompts \/ v[i] = "other"
  BY <1>0, WorkGrows
<1> HIDE DEF v
<1>3. /\ OpenCodeTypeOK'
      /\ UNCHANGED <<at, resumed, input, phase, asks, known, pending, responding, turn, turns,
                     halted, readied, working, outcomes, posts, resolved>>
  BY <1>1, <1>2, SessionTyped, SessionParts DEF v
<1>4. prompts' = v
  BY <1>1 DEF v
<1>5. SessionInv'
  BY <1>0, <1>1, <1>2, <1>3, <1>4 DEF SessionInv
<1>6. EarlyInv'
  BY <1>0, <1>1, <1>2, <1>3, <1>4, EarlyStays DEF EarlyInv
<1>7. HistoryInv'
  BY <1>0, <1>1, <1>3, HistoryStays
<1>8. PermissionInv'
  BY <1>0, <1>1, <1>3, PermissionStays
<1>9. TurnInv'
  <2>1. Owed => Owed'
    BY <1>1, <1>2, <1>4 DEF Owed
  <2> QED
    BY <1>0, <1>1, <1>2, <1>3, <1>4, <2>1, TurnStays DEF TurnInv
<1>10. PromptInv'
  <2>1. \A i \in DOMAIN prompts' : prompts'[i] = "own" => i \in DOMAIN prompts /\ prompts[i] = "own"
    BY <1>2, <1>4
  <2> QED
    BY <1>0, <1>1, <1>3, <2>1, PromptStays, SessionParts DEF PromptInv
<1> QED
  BY <1>3, <1>5, <1>6, <1>7, <1>8, <1>9, <1>10 DEF OpenCodeInv

LEMMA BeginKeeps ==
    ASSUME OpenCodeInv, at # "ended", UNCHANGED <<at, actorVars, historyVars>>, Begin
    PROVE  OpenCodeInv'
<1>0. /\ SessionInv /\ EarlyInv /\ HistoryInv /\ PermissionInv /\ TurnInv /\ PromptInv
      /\ prompts \in Seq({"own", "other"})
  BY SessionParts
<1>1. /\ prompts # <<>> /\ ~busy /\ busy' = TRUE /\ said' = 0
      /\ crossed' = (crossed \/ at \in Sending)
      /\ UNCHANGED <<prompts, messages, gone, asked, settled, question, closed, stream, erred>>
  BY DEF Begin, requestVars
<1>2. crossed' \in BOOLEAN /\ said' \in 0..messages'
  <2>1. messages \in Nat
    BY SessionParts
  <2> QED
    BY <1>1, <2>1
<1>3. /\ OpenCodeTypeOK'
      /\ UNCHANGED <<at, resumed, input, phase, asks, known, pending, responding, turn, turns,
                     halted, readied, working, outcomes, posts, resolved>>
  BY <1>1, <1>2, SessionTyped, SessionParts
<1>5. SessionInv'
  BY <1>0, <1>1, <1>3 DEF SessionInv
<1>6. EarlyInv'
  BY <1>0, <1>1, <1>3, EarlyStays DEF EarlyInv
<1>7. HistoryInv'
  BY <1>0, <1>1, <1>3, HistoryStays
<1>8. PermissionInv'
  BY <1>0, <1>1, <1>3, PermissionStays
<1>9. TurnInv'
  <2>1. Owed => Owed'
    BY <1>1 DEF Owed
  <2>2. IdleFollows(stream', busy')
    BY <1>1, StreamRest
  <2> QED
    BY <1>0, <1>1, <1>3, <2>1, <2>2, TurnStays
<1>10. PromptInv'
  BY <1>0, <1>1, <1>3, PromptStays, SessionParts DEF PromptInv, Sending
<1> QED
  BY <1>3, <1>5, <1>6, <1>7, <1>8, <1>9, <1>10 DEF OpenCodeInv

(* An event that says nothing of permissions and does not end the turn.     *)
LEMMA TellKeeps ==
    ASSUME OpenCodeInv, at # "ended", UNCHANGED <<at, actorVars, historyVars>>,
           NEW e \in SseEvent, Send(<<e>>),
           e.type \in {"busy", "message", "removed", "error", "question", "answered"},
           e.type \in {"busy", "message"} => busy, UNCHANGED <<prompts, busy, asked, settled, crossed>>,
           said' \in 0..messages', messages' \in 0..MaxMessages, messages' >= messages,
           gone' \subseteq 1..messages', question' \subseteq Question, closed' \subseteq Question,
           erred' \in BOOLEAN, erred => erred', e.type = "error" => erred',
           e.type = "message" => e.id <= messages' /\ messages' >= messages,
           e.type # "message" => messages' = messages,
           said' = said \/ (e.type = "message" /\ e.id \notin known)
    PROVE  OpenCodeInv'
<1>0. /\ SessionInv /\ EarlyInv /\ HistoryInv /\ PermissionInv /\ TurnInv /\ PromptInv
      /\ prompts \in Seq({"own", "other"}) /\ messages \in Nat /\ MaxMessages \in Nat
  BY SessionParts
<1>1. /\ stream' \in Seq(SseEvent)
      /\ at = "start" => stream' = <<>>
      /\ \A type : Has(stream', type) => Has(stream, type) \/ e.type = type
      /\ \A type : Has(stream, type) => Has(stream', type)
      /\ \A type, p : HasOf(stream', type, p) => HasOf(stream, type, p) \/ (e.type = type /\ e.id = p)
      /\ \A type, p : HasOf(stream, type, p) => HasOf(stream', type, p)
      /\ \A p : Before(stream, "asked", "replied", p) /\ ~(e.type = "asked" /\ HasOf(stream, "replied", p) /\ e.id = p)
                  => Before(stream', "asked", "replied", p)
      /\ \A k : Unknown(stream, k) => Unknown(stream', k)
      /\ \A k : at # "start" /\ e.type = "message" /\ e.id \notin k => Unknown(stream', k)
      /\ \A k : Harmless(stream, k) /\ e.type # "idle" => Harmless(stream', k)
      /\ \A n : UpTo(stream, n) /\ (e.type = "message" => e.id <= n) => UpTo(stream', n)
      /\ \A k : Unknown(stream', k) => Unknown(stream, k) \/ e.type = "message"
      /\ \A b : IdleFollows(stream, b) /\ (e.type \in {"busy", "message"} => b) => IdleFollows(stream', b)
  BY SentOne
<1>3. /\ OpenCodeTypeOK'
      /\ UNCHANGED <<at, resumed, input, phase, asks, known, pending, responding, turn, turns,
                     halted, readied, working, outcomes, posts, resolved>>
  BY <1>1, SessionTyped, SessionParts
<1>5. SessionInv'
  BY <1>0, <1>3 DEF SessionInv
<1>6. EarlyInv'
  BY <1>0, <1>1, <1>3, EarlyStays DEF EarlyInv
<1>7. HistoryInv'
  BY <1>0, <1>3, HistoryStays
<1>8. PermissionInv'
  <2>1. \A p \in Permission :
             /\ HasOf(stream', "asked", p) <=> HasOf(stream, "asked", p)
             /\ HasOf(stream', "replied", p) <=> HasOf(stream, "replied", p)
             /\ Before(stream, "asked", "replied", p) => Before(stream', "asked", "replied", p)
    BY <1>1
  <2> QED
    BY <1>0, <1>3, <2>1, PermissionStays
<1>9. TurnInv'
  <2>1. at # "start" => (Owed => Owed' \/ Unknown(stream', known))
    BY <1>1 DEF Owed
  <2>2. IdleFollows(stream', busy')
    BY <1>0, <1>1 DEF TurnInv
  <2> QED
    BY <1>0, <1>1, <1>3, <2>1, <2>2, TurnStays
<1>10. PromptInv'
  <2>1. UpTo(stream, messages')
    <3>1. UpTo(stream, messages) /\ messages' \in Nat /\ messages' >= messages
      BY <1>0 DEF PromptInv
    <3>2. \A i \in DOMAIN stream : stream[i].type = "message" => stream[i].id \in Nat
      BY SessionParts, EventTyped
    <3> QED
      BY <1>0, <3>1, <3>2 DEF UpTo
  <2>2. UpTo(stream', messages')
    BY <1>1, <2>1
  <2>3. /\ at \in {"sendMessages", "sendPost"} /\ ~crossed => ~busy
        /\ at = "sendPost" /\ ~crossed /\ Unknown(stream', known) => Unknown(stream, known)
    BY <1>0, <1>1 DEF PromptInv
  <2>4. Has(stream', "error") => erred'
    BY <1>0, <1>1 DEF PromptInv
  <2>5. Has(stream', "idle") => Has(stream, "idle")
    BY <1>1
  <2>6. Harmless(stream, known) => Harmless(stream', known)
    BY <1>1
  <2>7. messages' \in Nat
    BY <1>0
  <2> QED
    BY <1>3, <2>2, <2>3, <2>4, <2>5, <2>6, <2>7, PromptStays
<1> QED
  BY <1>3, <1>5, <1>6, <1>7, <1>8, <1>9, <1>10 DEF OpenCodeInv

LEMMA SpeakKeeps ==
    ASSUME OpenCodeInv, at # "ended", UNCHANGED <<at, actorVars, historyVars>>,
           \/ TellBusy \/ NewMessage \/ ChangeMessage \/ TellError
           \/ \E m \in 1..MaxMessages : RemoveMessage(m)
           \/ \E q \in Question : AskQuestion(q) \/ AnswerQuestion(q)
    PROVE  OpenCodeInv'
<1>0. /\ messages \in 0..MaxMessages /\ MaxMessages \in Nat /\ messages \in Nat /\ said \in Nat
      /\ said \in 0..messages /\ known \subseteq 1..messages
      /\ gone \subseteq 1..messages /\ question \subseteq Question /\ closed \subseteq Question
      /\ erred \in BOOLEAN
  BY SessionParts DEF PromptInv
<1>1. CASE TellBusy
  <2> DEFINE e == [type |-> "busy"]
  <2>1. e \in SseEvent /\ e.type = "busy"
    BY EventTyped
  <2>2. /\ busy /\ Send(<<e>>)
        /\ UNCHANGED <<prompts, busy, said, messages, gone, asked, settled, question, closed, crossed, erred>>
    BY <1>1 DEF TellBusy, sessionVars, messageVars, requestVars
  <2> HIDE DEF e
  <2> QED
    BY <1>0, <2>1, <2>2, TellKeeps
<1>2. CASE NewMessage
  <2> DEFINE e == [type |-> "message", id |-> messages + 1]
  <2>1. /\ busy /\ messages < MaxMessages /\ messages' = messages + 1 /\ said' = said + 1
        /\ Send(<<e>>)
        /\ UNCHANGED <<prompts, busy, gone, asked, settled, question, closed, crossed, erred>>
    BY <1>2 DEF NewMessage, requestVars
  <2>2. messages + 1 \in 1..MaxMessages /\ messages' \in 0..MaxMessages /\ said' \in 0..messages'
        /\ messages' >= messages /\ messages + 1 \notin known /\ messages + 1 <= messages'
        /\ gone' \subseteq 1..messages'
    BY <1>0, <2>1
  <2>3. e \in SseEvent /\ e.type = "message" /\ e.id = messages + 1
    BY <2>2, EventTyped
  <2> HIDE DEF e
  <2> QED
    BY <1>0, <2>1, <2>2, <2>3, TellKeeps
<1>3. CASE ChangeMessage
  <2> DEFINE e == [type |-> "message", id |-> messages]
  <2>1. /\ busy /\ said > 0 /\ Send(<<e>>)
        /\ UNCHANGED <<prompts, busy, said, messages, gone, asked, settled, question, closed, crossed, erred>>
    BY <1>3 DEF ChangeMessage, sessionVars, messageVars, requestVars
  <2>2. messages \in 1..MaxMessages
    BY <1>0, <2>1
  <2>3. e \in SseEvent /\ e.type = "message" /\ e.id = messages
    BY <2>2, EventTyped
  <2> HIDE DEF e
  <2>4. e.id <= messages' /\ messages' >= messages
    BY <1>0, <2>1, <2>3
  <2> QED
    BY <1>0, <2>1, <2>2, <2>3, <2>4, TellKeeps
<1>4. ASSUME NEW q \in Question, AskQuestion(q) PROVE OpenCodeInv'
  <2> DEFINE e == [type |-> "question", id |-> q]
  <2>1. e \in SseEvent /\ e.type = "question"
    BY EventTyped
  <2>2. /\ busy /\ Send(<<e>>) /\ question' = question \cup {q}
        /\ UNCHANGED <<prompts, busy, said, messages, gone, asked, settled, closed, crossed, erred>>
    BY <1>4 DEF AskQuestion, messageVars
  <2> HIDE DEF e
  <2>3. question' \subseteq Question
    BY <1>0, <2>2
  <2> QED
    BY <1>0, <2>1, <2>2, <2>3, TellKeeps
<1>6. ASSUME NEW q \in Question, AnswerQuestion(q) PROVE OpenCodeInv'
  <2> DEFINE e == [type |-> "answered", id |-> q]
  <2>1. e \in SseEvent /\ e.type = "answered"
    BY EventTyped
  <2>2. /\ Send(<<e>>) /\ question' = question \ {q} /\ closed' = closed \cup {q}
        /\ UNCHANGED <<prompts, busy, said, messages, gone, asked, settled, crossed, erred>>
    BY <1>6 DEF AnswerQuestion, messageVars
  <2> HIDE DEF e
  <2>3. question' \subseteq Question /\ closed' \subseteq Question
    BY <1>0, <2>2
  <2> QED
    BY <1>0, <2>1, <2>2, <2>3, TellKeeps
<1>7. ASSUME NEW m \in 1..MaxMessages, RemoveMessage(m) PROVE OpenCodeInv'
  <2> DEFINE e == [type |-> "removed", id |-> m]
  <2>1. e \in SseEvent /\ e.type = "removed"
    BY EventTyped
  <2>2. /\ m \in 1..messages /\ Send(<<e>>) /\ gone' = gone \cup {m}
        /\ UNCHANGED <<prompts, busy, said, messages, asked, settled, question, closed, crossed, erred>>
    BY <1>7 DEF RemoveMessage, requestVars
  <2> HIDE DEF e
  <2>3. gone' \subseteq 1..messages'
    BY <1>0, <2>2
  <2> QED
    BY <1>0, <2>1, <2>2, <2>3, TellKeeps
<1>5. CASE TellError
  <2> DEFINE e == [type |-> "error"]
  <2>1. e \in SseEvent /\ e.type = "error"
    BY EventTyped
  <2>2. /\ busy /\ Send(<<e>>) /\ erred' = TRUE
        /\ UNCHANGED <<prompts, busy, said, messages, gone, asked, settled, question, closed, crossed>>
    BY <1>5 DEF TellError, sessionVars, messageVars, requestVars
  <2> HIDE DEF e
  <2> QED
    BY <1>0, <2>1, <2>2, TellKeeps
<1> QED
  BY <1>1, <1>2, <1>3, <1>4, <1>5, <1>6, <1>7

(* A permission is asked for.                                               *)
LEMMA AskKeeps ==
    ASSUME OpenCodeInv, at # "ended", UNCHANGED <<at, actorVars, historyVars>>,
           NEW p \in Permission, Ask(p)
    PROVE  OpenCodeInv'
<1> DEFINE e == [type |-> "asked", id |-> p]
<1>0. /\ SessionInv /\ EarlyInv /\ HistoryInv /\ PermissionInv /\ TurnInv /\ PromptInv
      /\ prompts \in Seq({"own", "other"}) /\ messages \in Nat /\ MaxMessages \in Nat
  BY SessionParts
<1>1. /\ busy /\ p \notin asked \cup settled /\ asked' = asked \cup {p} /\ Send(<<e>>)
      /\ UNCHANGED <<prompts, busy, said, messages, gone, settled, question, closed, crossed, erred>>
  BY DEF Ask, messageVars
<1>2. e \in SseEvent /\ e.type = "asked" /\ e.id = p
  BY EventTyped
<1> HIDE DEF e
<1>3. /\ stream' \in Seq(SseEvent)
      /\ at = "start" => stream' = <<>>
      /\ at # "start" => HasOf(stream', "asked", p)
      /\ \A type : type # "asked" => (Has(stream', type) <=> Has(stream, type))
      /\ \A type, q : type # "asked" \/ q # p
                        => (HasOf(stream', type, q) <=> HasOf(stream, type, q))
      /\ \A q : Before(stream, "asked", "replied", q) /\ ~(q = p /\ HasOf(stream, "replied", q))
                => Before(stream', "asked", "replied", q)
      /\ \A k : Unknown(stream, k) <=> Unknown(stream', k)
      /\ \A k : Harmless(stream, k) => Harmless(stream', k)
      /\ \A n : UpTo(stream, n) => UpTo(stream', n)
  BY <1>1, <1>2, SentOne
<1>4. /\ OpenCodeTypeOK'
      /\ UNCHANGED <<at, resumed, input, phase, asks, known, pending, responding, turn, turns,
                     halted, readied, working, outcomes, posts, resolved>>
  BY <1>1, <1>3, SessionTyped, SessionParts
<1>5. SessionInv'
  <2>1. IsFiniteSet(asked')
    BY <1>0, <1>1, FS_AddElement DEF SessionInv
  <2> QED
    BY <1>0, <1>1, <1>4, <2>1 DEF SessionInv
<1>6. EarlyInv'
  BY <1>0, <1>1, <1>3, <1>4, EarlyStays DEF EarlyInv
<1>7. HistoryInv'
  BY <1>0, <1>1, <1>4, HistoryStays
<1>8. PermissionInv'
  <2> SUFFICES ASSUME NEW q \in Permission PROVE PermissionInv!(q)'
    BY DEF PermissionInv
  <2>0. PermissionInv!(q)
    BY <1>0 DEF PermissionInv
  <2>1. CASE q = p
    BY <1>1, <1>3, <1>4, <2>0, <2>1 DEF Unasked
  <2>2. CASE q # p
    BY <1>1, <1>3, <1>4, <2>0, <2>2 DEF Unasked
  <2> QED
    BY <2>1, <2>2
<1>9. TurnInv'
  <2>1. Owed => Owed'
    BY <1>1 DEF Owed
  <2>2. IdleFollows(stream', busy')
    BY <1>1, StreamRest
  <2> QED
    BY <1>0, <1>1, <1>3, <1>4, <2>1, <2>2, TurnStays
<1>10. PromptInv'
  BY <1>0, <1>1, <1>3, <1>4, PromptStays DEF PromptInv
<1> QED
  BY <1>4, <1>5, <1>6, <1>7, <1>8, <1>9, <1>10 DEF OpenCodeInv

(* A permission the session waits for is settled, here or elsewhere.        *)
LEMMA SettleFacts ==
    ASSUME OpenCodeInv, NEW p \in asked, Send(<<[type |-> "replied", id |-> p]>>),
           asked' = asked \ {p}, settled' = settled \cup {p}
    PROVE  /\ stream' \in Seq(SseEvent)
           /\ at = "start" => stream' = <<>>
           /\ at # "start" => HasOf(stream', "replied", p)
           /\ \A type : type # "replied" => (Has(stream', type) <=> Has(stream, type))
           /\ \A type, q : type # "replied" \/ q # p
                             => (HasOf(stream', type, q) <=> HasOf(stream, type, q))
           /\ \A q : Before(stream, "asked", "replied", q) => Before(stream', "asked", "replied", q)
           /\ \A k : Unknown(stream, k) <=> Unknown(stream', k)
           /\ \A k : Harmless(stream, k) => Harmless(stream', k)
           /\ \A n : UpTo(stream, n) => UpTo(stream', n)
           /\ busy /\ IsFiniteSet(asked')
<1> DEFINE e == [type |-> "replied", id |-> p]
<1>0. p \in Permission /\ busy /\ IsFiniteSet(asked)
  BY SessionParts DEF SessionInv
<1>1. e \in SseEvent /\ e.type = "replied" /\ e.id = p /\ Send(<<e>>)
  BY <1>0, EventTyped
<1> HIDE DEF e
<1>2. IsFiniteSet(asked')
  BY <1>0, FS_RemoveElement
<1> QED
  BY <1>0, <1>1, <1>2, SentOne

LEMMA SettleElsewhereKeeps ==
    ASSUME OpenCodeInv, at # "ended", UNCHANGED <<at, actorVars, historyVars>>,
           NEW p \in Permission, SettleElsewhere(p)
    PROVE  OpenCodeInv'
<1>0. /\ SessionInv /\ EarlyInv /\ HistoryInv /\ PermissionInv /\ TurnInv /\ PromptInv
      /\ prompts \in Seq({"own", "other"}) /\ messages \in Nat /\ MaxMessages \in Nat
  BY SessionParts
<1>1. /\ p \in asked /\ asked' = asked \ {p} /\ settled' = settled \cup {p}
      /\ Send(<<[type |-> "replied", id |-> p]>>)
      /\ UNCHANGED <<prompts, busy, said, messages, gone, question, closed, crossed, erred>>
  BY DEF SettleElsewhere, messageVars
<1>3. /\ stream' \in Seq(SseEvent)
      /\ at = "start" => stream' = <<>>
      /\ at # "start" => HasOf(stream', "replied", p)
      /\ \A type : type # "replied" => (Has(stream', type) <=> Has(stream, type))
      /\ \A type, q : type # "replied" \/ q # p
                        => (HasOf(stream', type, q) <=> HasOf(stream, type, q))
      /\ \A q : Before(stream, "asked", "replied", q) => Before(stream', "asked", "replied", q)
      /\ \A k : Unknown(stream, k) <=> Unknown(stream', k)
      /\ \A k : Harmless(stream, k) => Harmless(stream', k)
      /\ \A n : UpTo(stream, n) => UpTo(stream', n)
      /\ busy /\ IsFiniteSet(asked')
  BY <1>1, SettleFacts
<1>4. /\ OpenCodeTypeOK'
      /\ UNCHANGED <<at, resumed, input, phase, asks, known, pending, responding, turn, turns,
                     halted, readied, working, outcomes, posts, resolved>>
  BY <1>1, <1>3, SessionTyped, SessionParts
<1>5. SessionInv'
  BY <1>0, <1>1, <1>3, <1>4 DEF SessionInv
<1>6. EarlyInv'
  BY <1>0, <1>1, <1>3, <1>4, EarlyStays DEF EarlyInv
<1>7. HistoryInv'
  BY <1>0, <1>1, <1>4, HistoryStays
<1>8. PermissionInv'
  <2> SUFFICES ASSUME NEW q \in Permission PROVE PermissionInv!(q)'
    BY DEF PermissionInv
  <2>0. PermissionInv!(q)
    BY <1>0 DEF PermissionInv
  <2>1. CASE q = p
    <3>1. at = "start" => q \notin pending /\ ~HasOf(stream', "asked", q)
      BY <1>0, <1>3, StreamRest DEF EarlyInv, Unasked
    <3> QED
      BY <1>1, <1>3, <1>4, <2>0, <2>1, <3>1 DEF Unasked
  <2>2. CASE q # p
    BY <1>1, <1>3, <1>4, <2>0, <2>2 DEF Unasked
  <2> QED
    BY <2>1, <2>2
<1>9. TurnInv'
  <2>1. Owed => Owed'
    BY <1>1 DEF Owed
  <2>2. IdleFollows(stream', busy')
    BY <1>1, <1>3, StreamRest
  <2> QED
    BY <1>0, <1>1, <1>3, <1>4, <2>1, <2>2, TurnStays
<1>10. PromptInv'
  BY <1>0, <1>1, <1>3, <1>4, PromptStays DEF PromptInv
<1> QED
  BY <1>4, <1>5, <1>6, <1>7, <1>8, <1>9, <1>10 DEF OpenCodeInv

(* The turn that runs is over.                                              *)
LEMMA GoIdleKeeps ==
    ASSUME OpenCodeInv, at # "ended", UNCHANGED <<at, actorVars, historyVars>>, GoIdle
    PROVE  OpenCodeInv'
<1> DEFINE e == [type |-> "idle"]
           v == Tail(prompts)
<1>0. /\ SessionInv /\ EarlyInv /\ HistoryInv /\ PermissionInv /\ TurnInv /\ PromptInv
      /\ prompts \in Seq({"own", "other"}) /\ messages \in Nat /\ MaxMessages \in Nat
  BY SessionParts
<1>1. /\ busy /\ said > 0 /\ asked = {} /\ busy' = FALSE /\ said' = 0 /\ prompts' = v /\ Send(<<e>>)
      /\ UNCHANGED <<messages, gone, asked, settled, question, closed, crossed, erred>>
  BY DEF GoIdle, requestVars
<1>2. e \in SseEvent /\ e.type = "idle"
  BY EventTyped
<1> HIDE DEF e
<1>3. /\ stream' \in Seq(SseEvent)
      /\ at = "start" => stream' = <<>>
      /\ at # "start" => Has(stream', "idle")
      /\ \A type : type # "idle" => (Has(stream', type) <=> Has(stream, type))
      /\ \A type, q : type # "idle" => (HasOf(stream', type, q) <=> HasOf(stream, type, q))
      /\ \A q : Before(stream, "asked", "replied", q) => Before(stream', "asked", "replied", q)
      /\ \A k : Unknown(stream, k) <=> Unknown(stream', k)
      /\ \A n : UpTo(stream, n) => UpTo(stream', n)
      /\ \A b : IdleFollows(stream', b)
  BY <1>1, <1>2, SentOne
<1>4. /\ v \in Seq({"own", "other"})
      /\ \A i \in DOMAIN prompts : i = 1 \/ (i - 1 \in DOMAIN v /\ v[i - 1] = prompts[i] /\ i > 1)
      /\ \A i \in DOMAIN v : i \in Nat /\ i > 0 /\ i + 1 \in DOMAIN prompts /\ v[i] = prompts[i + 1]
  BY <1>0, <1>1, WorkShrinks DEF SessionInv
<1> HIDE DEF v
<1>5. /\ OpenCodeTypeOK'
      /\ UNCHANGED <<at, resumed, input, phase, asks, known, pending, responding, turn, turns,
                     halted, readied, working, outcomes, posts, resolved>>
  <2>1. said' \in 0..messages'
    BY <1>0, <1>1
  <2> QED
    BY <1>1, <1>3, <1>4, <2>1, SessionTyped, SessionParts
<1>6. SessionInv'
  BY <1>0, <1>1, <1>5 DEF SessionInv
<1>7. OwnIn(prompts') => OwnIn(prompts)
  BY <1>1, <1>4 DEF OwnIn
<1>8. EarlyInv'
  BY <1>0, <1>1, <1>3, <1>5, <1>7, EarlyStays DEF EarlyInv
<1>9. HistoryInv'
  BY <1>0, <1>1, <1>5, HistoryStays
<1>10. PermissionInv'
  <2>1. \A q \in Permission :
             /\ HasOf(stream', "asked", q) <=> HasOf(stream, "asked", q)
             /\ HasOf(stream', "replied", q) <=> HasOf(stream, "replied", q)
             /\ Before(stream, "asked", "replied", q) => Before(stream', "asked", "replied", q)
    BY <1>3
  <2> QED
    BY <1>0, <1>1, <1>5, <2>1, PermissionStays
<1>11. TurnInv'
  <2>1. Owed => Owed'
    <3>1. ASSUME NEW i \in DOMAIN prompts, prompts[i] = "own", i > 1 \/ ~busy \/ said = 0 PROVE Owed'
      <4>1. i # 1
        BY <1>0, <1>1, <3>1, SessionParts
      <4>2. i - 1 \in DOMAIN prompts' /\ prompts'[i - 1] = "own"
        BY <1>1, <1>4, <3>1, <4>1
      <4> QED
        BY <1>1, <4>2 DEF Owed
    <3> QED
      BY <3>1 DEF Owed
  <2>2. IdleFollows(stream', busy')
    BY <1>3
  <2>3. at # "start" => /\ Has(stream', "idle")
                        /\ Unknown(stream, known) => Unknown(stream', known)
    BY <1>3
  <2> QED
    BY <1>0, <1>5, <2>1, <2>2, <2>3, TurnStays
<1>12. PromptInv'
  <2>1. at # "ended" /\ ~crossed => ~OwnIn(prompts')
    <3>1. ASSUME ~crossed, NEW i \in DOMAIN prompts', prompts'[i] = "own" PROVE FALSE
      <4>1. i \in Nat /\ i > 0 /\ i + 1 \in DOMAIN prompts /\ prompts[i + 1] = "own"
        BY <1>1, <1>4, <3>1
      <4>2. i + 1 = 1
        BY <1>0, <3>1, <4>1 DEF PromptInv
      <4> QED
        BY <4>1, <4>2
    <3> QED
      BY <3>1 DEF OwnIn
  <2>2. /\ UpTo(stream', messages') /\ known' \subseteq 1..messages'
        /\ Has(stream', "error") => erred'
    BY <1>0, <1>1, <1>3, <1>5 DEF PromptInv
  <2>3. /\ at' # "ended" /\ ~crossed' => \A i \in DOMAIN prompts' : prompts'[i] = "own" => i = 1
        /\ at' \in {"sendMessages", "sendPost"} /\ ~crossed' => ~busy'
        /\ at' = "sendPost" /\ ~crossed' => ~Unknown(stream', known')
        /\ at' \notin {"loop", "ended"} /\ ~crossed' /\ ~erred' => ~OwnIn(prompts')
        /\ at' = "loop" /\ ~crossed' => ~OwnIn(prompts')
    BY <1>0, <1>1, <1>3, <1>5, <2>1 DEF PromptInv, OwnIn
  <2> QED
    BY <2>2, <2>3 DEF PromptInv
<1> QED
  BY <1>5, <1>6, <1>8, <1>9, <1>10, <1>11, <1>12 DEF OpenCodeInv

LEMMA SessionNextKeeps ==
    ASSUME OpenCodeInv, SessionNext
    PROVE  OpenCodeInv'
  BY OtherPromptKeeps, BeginKeeps, SpeakKeeps, AskKeeps, SettleElsewhereKeeps, GoIdleKeeps
  DEF SessionNext, SessionStep

(* What is unchanged, variable by variable.                                 *)
LEMMA ActorParts ==
    OpenCodeInv =>
      /\ resumed \in BOOLEAN /\ input \in BOOLEAN /\ phase \in BOOLEAN /\ asks \subseteq Question
      /\ known \subseteq 1..MaxMessages /\ known \subseteq 1..messages
      /\ pending \subseteq Permission /\ responding \subseteq pending
      /\ turn \subseteq OpenTurn /\ Cardinality(turn) <= 1 /\ turns \in 0..MaxTurns
      /\ halted \in BOOLEAN /\ readied \in BOOLEAN /\ WorkingFits(working, turns)
      /\ outcomes \subseteq (1..MaxTurns) \X {"Completed", "Interrupted", "Failed"}
      /\ posts \in [Permission -> Nat] /\ resolved \subseteq Permission
      /\ MaxTurns \in Nat /\ turns \in Nat /\ working \in [1..MaxTurns -> Nat]
  BY OpenCodeAssumption DEF OpenCodeInv, OpenCodeTypeOK, PromptInv, HistoryInv

(* The actor ends, or refuses further turns.                                *)
LEMMA HaltKeeps ==
    ASSUME OpenCodeInv, at' \in {at, "ended"}, halted' \in BOOLEAN,
           UNCHANGED <<sessionVars, stream, resumed, input, hydration, known, pending, responding,
                       turn, turns, historyVars, crossed, erred>>
    PROVE  OpenCodeInv'
<1>0. /\ SessionInv /\ EarlyInv /\ HistoryInv /\ PermissionInv /\ TurnInv /\ PromptInv
  BY SessionParts
<1>1. UNCHANGED <<prompts, busy, said, messages, gone, asked, settled, question, closed, stream, resumed, input, phase,
                  asks, known, pending, responding, turn, turns, readied, working, outcomes, posts,
                  resolved, crossed, erred>>
  BY DEF sessionVars, messageVars, requestVars, hydration, historyVars
<1>2. OpenCodeTypeOK'
  BY <1>1 DEF OpenCodeInv, OpenCodeTypeOK
<1>3. SessionInv'
  BY <1>0, <1>1 DEF SessionInv
<1>4. EarlyInv'
  BY <1>0, <1>1, EarlyStays DEF EarlyInv
<1>5. HistoryInv'
  BY <1>0, <1>1, HistoryStays
<1>6. PermissionInv'
  BY <1>0, <1>1, PermissionStays
<1>7. TurnInv'
  <2>1. Owed <=> Owed'
    BY <1>1 DEF Owed
  <2> QED
    BY <1>0, <1>1, <2>1 DEF TurnInv
<1>8. PromptInv'
  BY <1>0, <1>1 DEF PromptInv
<1> QED
  BY <1>2, <1>3, <1>4, <1>5, <1>6, <1>7, <1>8 DEF OpenCodeInv

(* Nobody is reported Working.                                              *)
LEMMA WorkingFlat ==
    (\A n \in 1..MaxTurns : working[n] = 0) => ~\E n \in 1..MaxTurns : working[n] > 0
  OBVIOUS

LEMMA StartKeepsOpen ==
    ASSUME OpenCodeInv, NEW resume \in BOOLEAN, NEW withInput \in BOOLEAN, Start(resume, withInput)
    PROVE  OpenCodeInv'
<1>0. /\ SessionInv /\ EarlyInv /\ HistoryInv /\ PermissionInv /\ TurnInv /\ PromptInv
  BY SessionParts
<1>1. /\ at = "start" /\ resumed' = resume /\ input' = withInput /\ readied' = ~resume
      /\ at' \in {"status1", "sendStatus", "loop"} /\ (at' = "status1" <=> resume)
      /\ ~resume => prompts = <<>>
      /\ UNCHANGED <<prompts, busy, said, messages, gone, asked, settled, question, closed, stream, phase, asks, known,
                     pending, responding, turn, turns, halted, working, outcomes, posts, resolved,
                     crossed, erred>>
  BY DEF Start, sessionVars, messageVars, requestVars, hydration
<1>2. /\ stream = <<>> /\ pending = {} /\ turn = {} /\ turns = 0 /\ responding = {}
      /\ outcomes = {} /\ resolved = {} /\ ~OwnIn(prompts)
      /\ \A n \in 1..MaxTurns : working[n] = 0
      /\ \A p \in Permission : posts[p] = 0
  BY <1>0, <1>1 DEF EarlyInv, Early, Unasked
<1>3. OpenCodeTypeOK'
  BY <1>1 DEF OpenCodeInv, OpenCodeTypeOK, Sending
<1>4. SessionInv'
  BY <1>0, <1>1 DEF SessionInv
<1>5. EarlyInv'
  BY <1>1, <1>2 DEF EarlyInv, Early, Unasked
<1>6. HistoryInv'
  BY <1>0, <1>1, <1>2, WorkingFlat DEF HistoryInv, Sending
<1>7. PermissionInv'
  <2>1. ~resume => asked = {}
    BY <1>0, <1>1 DEF SessionInv
  <2> SUFFICES ASSUME NEW p \in Permission PROVE PermissionInv!(p)'
    BY DEF PermissionInv
  <2> QED
    BY <1>0, <1>1, <1>2, <2>1, StreamRest DEF PermissionInv, Unasked
<1>8. TurnInv'
  BY <1>0, <1>1, <1>2 DEF TurnInv
<1>9. PromptInv'
  BY <1>0, <1>1, <1>2 DEF PromptInv
<1> QED
  BY <1>3, <1>4, <1>5, <1>6, <1>7, <1>8, <1>9 DEF OpenCodeInv

(* A step of hydrate_resume: no turn is open and nothing is reported.       *)
LEMMA HydrateKeeps ==
    ASSUME OpenCodeInv, at \in Early, at' \in (Early \ {"start"}) \cup {"ended"},
           UNCHANGED <<sessionVars, resumed, input, responding, turn, turns, halted, historyVars,
                       crossed, erred>>,
           phase' \in BOOLEAN, asks' \subseteq Question, known' \subseteq 1..messages,
           pending' \subseteq Permission, at' \in Unasked => pending' = {},
           stream' \in Seq(SseEvent), IdleFollows(stream', busy), UpTo(stream', messages),
           Has(stream', "error") => Has(stream, "error"),
           at' = "merge2" /\ phase' => busy \/ Has(stream', "idle"),
           PermissionInv'
    PROVE  OpenCodeInv'
<1>0. /\ SessionInv /\ EarlyInv /\ HistoryInv /\ PermissionInv /\ TurnInv /\ PromptInv
  BY SessionParts
<1>1. UNCHANGED <<prompts, busy, said, messages, gone, asked, settled, question, closed, resumed, input, responding,
                  turn, turns, halted, readied, working, outcomes, posts, resolved, crossed, erred>>
  BY DEF sessionVars, messageVars, requestVars, historyVars
<1>2. /\ turn = {} /\ turns = 0 /\ responding = {} /\ outcomes = {} /\ resolved = {}
      /\ \A n \in 1..MaxTurns : working[n] = 0
      /\ ~OwnIn(prompts) /\ \A p \in Permission : posts[p] = 0
  BY <1>0 DEF EarlyInv
<1>3. OpenCodeTypeOK'
  <2>1. known' \subseteq 1..MaxMessages
    BY SessionParts
  <2> QED
    BY <1>1, <1>2, <2>1 DEF OpenCodeInv, OpenCodeTypeOK, Early, Unasked
<1>4. SessionInv'
  BY <1>0, <1>1 DEF SessionInv
<1>5. EarlyInv'
  BY <1>1, <1>2 DEF EarlyInv, Early, Unasked
<1>6. HistoryInv'
  BY <1>0, <1>1, <1>2, WorkingFlat DEF HistoryInv, Sending, Early, Unasked
<1>7. TurnInv'
  BY <1>1, <1>2 DEF TurnInv
<1>8. PromptInv'
  BY <1>0, <1>1, <1>2 DEF PromptInv, Early, Unasked
<1> QED
  BY <1>3, <1>4, <1>5, <1>6, <1>7, <1>8 DEF OpenCodeInv

(* The answers to the six requests.                                         *)
LEMMA LoadKeeps ==
    ASSUME OpenCodeInv,
           \/ LoadStatus("status1", "permissions") \/ LoadPermissions \/ LoadQuestions \/ MergeDone
           \/ LoadMessages("messages1", "merge1") \/ LoadMessages("messages2", "status2")
           \/ LoadStatus("status2", "merge2")
    PROVE  OpenCodeInv'
<1>0. /\ SessionInv /\ EarlyInv /\ HistoryInv /\ PermissionInv /\ TurnInv /\ PromptInv
      /\ asked \subseteq Permission /\ question \subseteq Question /\ busy \in BOOLEAN /\ messages \in Nat
      /\ stream \in Seq(SseEvent)
  BY SessionParts
<1>1. /\ UNCHANGED <<sessionVars, stream, resumed, input, responding, turn, turns, halted, historyVars,
                     crossed, erred>>
      /\ at \in Early /\ at' \in Early \ {"start"} /\ (at' \in Unasked => at \in Unasked)
      /\ phase' \in {phase, busy} /\ asks' \in {asks, question} /\ known' \in {known, (1..messages) \ gone}
      /\ \/ pending' = asked /\ at' \notin Unasked
         \/ pending' = pending /\ (at \in Unasked => at' \in Unasked)
      /\ at' = "merge2" => phase' = busy
  BY DEF LoadStatus, LoadPermissions, LoadQuestions, MergeDone, LoadMessages, Wait, hydration, Early, Unasked
<1>2. phase' \in BOOLEAN /\ asks' \subseteq Question /\ known' \subseteq 1..messages
  BY <1>0, <1>1, ActorParts
<1>3. pending' \subseteq Permission /\ (at' \in Unasked => pending' = {})
  BY <1>0, <1>1, ActorParts DEF EarlyInv
<1>4. PermissionInv'
  <2>1. responding = {} /\ \A p \in Permission : posts[p] = 0
    BY <1>0, <1>1 DEF EarlyInv
  <2>2. UNCHANGED <<asked, settled, posts, responding, stream>>
    BY <1>1 DEF sessionVars, messageVars, requestVars, historyVars
  <2>3. at' # "ended" /\ at # "ended"
    BY <1>1 DEF Early, Unasked
  <2> SUFFICES ASSUME NEW p \in Permission PROVE PermissionInv!(p)'
    BY DEF PermissionInv
  <2>4. PermissionInv!(p)
    BY <1>0 DEF PermissionInv
  <2>5. CASE pending' = asked /\ at' \notin Unasked
    BY <2>1, <2>2, <2>3, <2>4, <2>5
  <2>6. CASE pending' = pending /\ (at \in Unasked => at' \in Unasked)
    BY <2>1, <2>2, <2>3, <2>4, <2>6
  <2> QED
    BY <1>1, <2>5, <2>6
<1>5. stream' = stream /\ IdleFollows(stream, busy) /\ UpTo(stream, messages)
  BY <1>0, <1>1 DEF TurnInv, PromptInv
<1>6. at' = "merge2" /\ phase' => busy \/ Has(stream', "idle")
  BY <1>1
<1> QED
  BY <1>0, <1>1, <1>2, <1>3, <1>4, <1>5, <1>6, HydrateKeeps

(* A permission event is received, while hydrating or later.                *)
LEMMA PermissionReceived ==
    ASSUME OpenCodeInv, at \notin Unasked, at # "ended", at' \in {at, "ended"}, stream # <<>>,
           stream' = Tail(stream), UNCHANGED <<asked, settled, posts>>,
           pending' = IF Head(stream).type = "asked" THEN pending \cup {Head(stream).id}
                      ELSE IF Head(stream).type = "replied" THEN pending \ {Head(stream).id}
                      ELSE pending,
           responding' = IF Head(stream).type = "replied" THEN responding \ {Head(stream).id}
                         ELSE responding
    PROVE  /\ PermissionInv' /\ responding' \subseteq pending' /\ pending' \subseteq Permission
           /\ Head(stream).type = "replied" => Head(stream).id \in settled
<1> DEFINE e == Head(stream)
<1>0. /\ PermissionInv /\ stream \in Seq(SseEvent) /\ responding \subseteq pending
      /\ pending \subseteq Permission
  BY SessionParts, ActorParts
<1>1. /\ e \in SseEvent
      /\ \A type, p : HasOf(stream, type, p)
                        <=> (e.type = type /\ e.id = p) \/ HasOf(stream', type, p)
      /\ \A p : Before(stream, "asked", "replied", p) =>
           /\ Before(stream', "asked", "replied", p)
           /\ e.type = "replied" /\ e.id = p => ~HasOf(stream', "asked", p)
  BY <1>0, StreamShrinks
<1>2. /\ pending' = IF e.type = "asked" THEN pending \cup {e.id}
                    ELSE IF e.type = "replied" THEN pending \ {e.id} ELSE pending
      /\ responding' = IF e.type = "replied" THEN responding \ {e.id} ELSE responding
  OBVIOUS
<1> HIDE DEF e
<1>3. e.type \in {"asked", "replied"} => e.id \in Permission
  BY <1>1, EventTyped
<1>4. responding' \subseteq pending' /\ pending' \subseteq Permission
  BY <1>0, <1>2, <1>3
<1>5. e.type = "replied" => e.id \in settled
  BY <1>0, <1>1, <1>3 DEF PermissionInv
<1>6. ASSUME NEW p \in Permission PROVE PermissionInv!(p)'
  <2>0. PermissionInv!(p)
    BY <1>0 DEF PermissionInv
  <2>1. CASE e.id = p /\ e.type = "asked"
    BY <1>1, <1>2, <2>0, <2>1
  <2>2. CASE e.id = p /\ e.type = "replied"
    BY <1>1, <1>2, <2>0, <2>2
  <2>3. CASE ~(e.id = p /\ e.type \in {"asked", "replied"})
    <3>1. /\ HasOf(stream, "asked", p) <=> HasOf(stream', "asked", p)
          /\ HasOf(stream, "replied", p) <=> HasOf(stream', "replied", p)
          /\ p \in pending' <=> p \in pending
          /\ p \in responding' <=> p \in responding
          /\ Before(stream, "asked", "replied", p) => Before(stream', "asked", "replied", p)
      BY <1>1, <1>2, <2>3
    <3> QED
      BY <2>0, <3>1
  <2> QED
    BY <2>1, <2>2, <2>3
<1>7. PermissionInv'
  BY <1>6 DEF PermissionInv
<1> QED
  BY <1>4, <1>5, <1>7 DEF e

LEMMA MergeEventKeeps ==
    ASSUME OpenCodeInv, MergeEvent
    PROVE  OpenCodeInv'
<1> DEFINE e == Head(stream)
<1>0. /\ SessionInv /\ EarlyInv /\ HistoryInv /\ PermissionInv /\ TurnInv /\ PromptInv
      /\ stream \in Seq(SseEvent) /\ messages \in Nat
  BY SessionParts
<1>1. /\ at \in {"merge1", "merge2"} /\ stream # <<>> /\ stream' = Tail(stream)
      /\ phase' = IF e.type \in {"busy", "idle"} THEN e.type = "busy" ELSE phase
      /\ asks' = IF e.type = "question" THEN asks \cup {e.id}
                 ELSE IF e.type = "answered" THEN asks \ {e.id} ELSE asks
      /\ known' = IF e.type = "message" THEN known \cup {e.id}
                  ELSE IF e.type = "removed" THEN known \ {e.id} ELSE known
      /\ pending' = IF e.type = "asked" THEN pending \cup {e.id}
                    ELSE IF e.type = "replied" THEN pending \ {e.id} ELSE pending
      /\ at' \in {at, "ended"}
      /\ UNCHANGED <<sessionVars, resumed, input, responding, turn, turns, halted, historyVars,
                     crossed, erred>>
  BY DEF MergeEvent
<1>2. at \in Early /\ at \notin Unasked /\ at # "ended" /\ at # "start"
  BY <1>1 DEF Early, Unasked
<1>3. /\ PermissionInv' /\ pending' \subseteq Permission
  <2>1. responding = {}
    BY <1>0, <1>2 DEF EarlyInv
  <2>2. responding' = IF Head(stream).type = "replied" THEN responding \ {Head(stream).id}
                      ELSE responding
    BY <1>1, <2>1
  <2>3. UNCHANGED <<asked, settled, posts>>
    BY <1>1 DEF sessionVars, messageVars, requestVars, historyVars
  <2> QED
    BY <1>1, <1>2, <2>2, <2>3, PermissionReceived
<1>4. /\ stream' \in Seq(SseEvent) /\ e \in SseEvent
      /\ \A type : Has(stream, type) <=> e.type = type \/ Has(stream', type)
      /\ \A b : IdleFollows(stream, b) =>
           /\ IdleFollows(stream', b)
           /\ e.type \in {"busy", "message"} => b \/ Has(stream', "idle")
      /\ \A n : UpTo(stream, n) => UpTo(stream', n) /\ (e.type = "message" => e.id <= n)
  BY <1>0, <1>1, StreamShrinks
<1> HIDE DEF e
<1>5. known' \subseteq 1..messages
  <2>1. e.type = "message" => e.id \in 1..MaxMessages
    BY <1>4, EventTyped
  <2>2. e.type = "message" => e.id <= messages
    BY <1>0, <1>4 DEF PromptInv
  <2>3. e.type = "message" => e.id \in 1..messages
    BY <1>0, <2>1, <2>2
  <2> QED
    BY <1>1, <2>3, ActorParts
<1>6. phase' \in BOOLEAN /\ asks' \subseteq Question
  <2>1. e.type = "question" => e.id \in Question
    BY <1>4, EventTyped
  <2> QED
    BY <1>1, <2>1, ActorParts
<1>7. at' = "merge2" /\ phase' => busy \/ Has(stream', "idle")
  <2>1. at' = "merge2" => at = "merge2"
    BY <1>1
  <2>2. CASE e.type = "busy"
    BY <1>0, <1>4, <2>2 DEF TurnInv
  <2>3. CASE e.type = "idle"
    BY <1>1, <2>3
  <2>4. CASE e.type \notin {"busy", "idle"}
    BY <1>0, <1>1, <1>4, <2>1, <2>4 DEF TurnInv
  <2> QED
    BY <2>2, <2>3, <2>4
<1>8. IdleFollows(stream', busy) /\ UpTo(stream', messages)
  BY <1>0, <1>4 DEF TurnInv, PromptInv
<1>9. at' \in (Early \ {"start"}) \cup {"ended"} /\ (at' \in Unasked => pending' = {})
  BY <1>1 DEF Early, Unasked
<1> QED
  BY <1>1, <1>2, <1>3, <1>4, <1>5, <1>6, <1>7, <1>8, <1>9, HydrateKeeps

LEMMA OneAtMost ==
    ASSUME NEW S, \A s, t \in S : s = t
    PROVE  Cardinality(S) <= 1 /\ (S = {} \/ \E t \in S : S = {t})
<1>1. CASE S = {}
  BY <1>1, FS_EmptySet
<1>2. CASE S # {}
  <2>1. PICK t \in S : S = {t}
    BY <1>2
  <2>2. Cardinality({t}) = 1
    BY FS_Singleton
  <2> QED
    BY <2>1, <2>2
<1> QED
  BY <1>1, <1>2

(* Only where the actor is has changed, and it is past the first requests.  *)
LEMMA PermissionMoves ==
    ASSUME PermissionInv, at \notin Unasked, at # "ended", at' \notin Unasked,
           UNCHANGED <<asked, settled, pending, responding, posts, stream>>
    PROVE  PermissionInv'
<1> SUFFICES ASSUME NEW p \in Permission PROVE PermissionInv!(p)'
  BY DEF PermissionInv
<1>1. PermissionInv!(p)
  BY DEF PermissionInv
<1> QED
  BY <1>1

(* The events of an abort: the permissions are refused, the session idle.   *)
LEMMA AbortedFacts ==
    ASSUME OpenCodeInv, at # "start", Aborted
    PROVE  /\ prompts' = <<>> /\ busy' = FALSE /\ said' = 0 /\ question' = {} /\ asked' = {}
           /\ settled' = settled \cup asked /\ messages' = messages /\ gone' = gone
           /\ closed' = closed \cup question
           /\ stream' \in Seq(SseEvent) /\ Has(stream', "idle")
           /\ Has(stream', "error") => Has(stream, "error")
           /\ \A p : HasOf(stream', "asked", p) <=> HasOf(stream, "asked", p)
           /\ \A p : HasOf(stream', "replied", p) <=> HasOf(stream, "replied", p) \/ p \in asked
           /\ \A p : Before(stream, "asked", "replied", p) => Before(stream', "asked", "replied", p)
           /\ \A b : IdleFollows(stream', b)
           /\ \A n : UpTo(stream, n) => UpTo(stream', n)
           /\ \A m : HasOf(stream', "removed", m) => HasOf(stream, "removed", m)
           /\ \A m : Before(stream, "message", "removed", m) => Before(stream', "message", "removed", m)
<1>0. IsFiniteSet(asked) /\ asked \subseteq Permission /\ stream \in Seq(SseEvent)
  BY SessionParts DEF SessionInv
<1>1. Cardinality(asked) \in Nat
  BY <1>0, FS_CardinalityType
<1>2. PICK order \in [1..Cardinality(asked) -> asked] :
          /\ \A p \in asked : \E i \in DOMAIN order : order[i] = p
          /\ Send([i \in DOMAIN order |-> [type |-> "replied", id |-> order[i]]]
                    \o <<[type |-> "idle"]>>)
  BY DEF Aborted
<1> DEFINE r == [i \in DOMAIN order |-> [type |-> "replied", id |-> order[i]]]
           idle == [type |-> "idle"]
           x == r \o <<idle>>
<1>3. \A i \in 1..Cardinality(asked) : order[i] \in asked
  BY <1>2
<1>4. DOMAIN order = 1..Cardinality(asked)
  BY <1>2
<1>5. \A i \in 1..Cardinality(asked) : [type |-> "replied", id |-> order[i]] \in SseEvent
  BY <1>0, <1>3, EventTyped
<1>6. /\ r \in Seq(SseEvent) /\ DOMAIN r = 1..Cardinality(asked)
      /\ \A i \in DOMAIN r : r[i].type = "replied" /\ r[i].id = order[i]
  <2>1. r = [i \in 1..Cardinality(asked) |-> [type |-> "replied", id |-> order[i]]]
    BY <1>4
  <2> HIDE DEF r
  <2>2. /\ DOMAIN r = 1..Cardinality(asked)
        /\ \A i \in DOMAIN r : r[i] = [type |-> "replied", id |-> order[i]]
    BY <2>1
  <2>3. r \in [1..Cardinality(asked) -> SseEvent]
    BY <1>5, <2>1
  <2>4. r \in Seq(SseEvent)
    BY <1>1, <2>3
  <2> QED
    BY <2>2, <2>4
<1>7. idle \in SseEvent /\ idle.type = "idle"
  BY EventTyped
<1>8. stream' = stream \o x
  BY <1>2 DEF Send
<1> HIDE DEF r, idle
<1>9. /\ \A p : HasOf(r, "replied", p) <=> p \in asked
      /\ \A p : ~HasOf(r, "asked", p)
      /\ \A p : Before(r, "asked", "replied", p)
      /\ ~Has(r, "error")
      /\ \A n : UpTo(r, n)
      /\ \A m : ~HasOf(r, "message", m) /\ ~HasOf(r, "removed", m)
  <2>1. \A p : HasOf(r, "replied", p) => p \in asked
    BY <1>3, <1>6 DEF HasOf
  <2>2. \A p : p \in asked => HasOf(r, "replied", p)
    BY <1>2, <1>4, <1>6 DEF HasOf
  <2>3. \A p : ~HasOf(r, "asked", p) /\ ~HasOf(r, "message", p) /\ ~HasOf(r, "removed", p)
    BY <1>6 DEF HasOf
  <2>4. \A p : Before(r, "asked", "replied", p)
    BY <1>6 DEF Before
  <2>5. ~Has(r, "error") /\ \A n : UpTo(r, n)
    BY <1>6 DEF Has, UpTo
  <2> QED
    BY <2>1, <2>2, <2>3, <2>4, <2>5
<1>10. /\ <<idle>> \in Seq(SseEvent)
       /\ \A type : Has(<<idle>>, type) <=> type = "idle"
       /\ \A type, p : HasOf(<<idle>>, type, p) => type = "idle"
       /\ \A p : Before(<<idle>>, "asked", "replied", p)
       /\ \A n : UpTo(<<idle>>, n)
  BY <1>7, OneEvent
<1>11. /\ x \in Seq(SseEvent) /\ x # <<>> /\ x[Len(x)].type = "idle"
  <2>1. Len(r) \in Nat /\ Len(<<idle>>) = 1 /\ <<idle>>[1] = idle
    BY <1>6
  <2>2. x \in Seq(SseEvent) /\ Len(x) = Len(r) + 1 /\ x[Len(r) + 1] = idle
    BY <1>6, <1>7, <2>1
  <2> QED
    BY <1>7, <2>1, <2>2
<1>12. /\ Has(x, "idle") /\ ~Has(x, "error")
       /\ \A p : HasOf(x, "replied", p) <=> p \in asked
       /\ \A p : ~HasOf(x, "asked", p)
       /\ \A p : Before(x, "asked", "replied", p)
       /\ \A n : UpTo(x, n)
       /\ \A m : ~HasOf(x, "message", m) /\ ~HasOf(x, "removed", m)
  <2>1. /\ \A type : Has(x, type) <=> Has(r, type) \/ Has(<<idle>>, type)
        /\ \A type, p : HasOf(x, type, p) <=> HasOf(r, type, p) \/ HasOf(<<idle>>, type, p)
        /\ \A p : Before(r, "asked", "replied", p) /\ Before(<<idle>>, "asked", "replied", p)
                    /\ ~(HasOf(r, "replied", p) /\ HasOf(<<idle>>, "asked", p))
                  => Before(x, "asked", "replied", p)
        /\ \A n : UpTo(r, n) /\ UpTo(<<idle>>, n) => UpTo(x, n)
    BY <1>6, <1>10, StreamGrows
  <2> HIDE DEF x
  <2> QED
    BY <1>9, <1>10, <2>1
<1> HIDE DEF x
<1>13. /\ prompts' = <<>> /\ busy' = FALSE /\ said' = 0 /\ question' = {} /\ asked' = {}
       /\ settled' = settled \cup asked /\ messages' = messages /\ gone' = gone
       /\ closed' = closed \cup question
  BY DEF Aborted
<1>14. /\ stream' \in Seq(SseEvent)
       /\ \A type : Has(stream', type) <=> Has(stream, type) \/ Has(x, type)
       /\ \A type, p : HasOf(stream', type, p) <=> HasOf(stream, type, p) \/ HasOf(x, type, p)
       /\ \A p : Before(stream, "asked", "replied", p) /\ Before(x, "asked", "replied", p)
                   /\ ~(HasOf(stream, "replied", p) /\ HasOf(x, "asked", p))
                 => Before(stream', "asked", "replied", p)
       /\ \A n : UpTo(stream, n) /\ UpTo(x, n) => UpTo(stream', n)
       /\ \A b : IdleFollows(stream', b)
  BY <1>0, <1>8, <1>11, StreamGrows
<1>15. \A m : Before(stream, "message", "removed", m) => Before(stream', "message", "removed", m)
  <2>1. \A m : Before(x, "message", "removed", m)
    BY <1>12 DEF Before, HasOf
  <2>2. \A m : /\ Before(stream, "message", "removed", m) /\ Before(x, "message", "removed", m)
              /\ ~(HasOf(stream, "removed", m) /\ HasOf(x, "message", m))
              => Before(stream', "message", "removed", m)
    BY <1>0, <1>8, <1>11, StreamGrows
  <2> QED
    BY <1>12, <2>1, <2>2
<1> QED
  BY <1>12, <1>13, <1>14, <1>15

LEMMA PermissionAborted ==
    ASSUME OpenCodeInv, at \notin Unasked, at # "ended", at' \notin Unasked, Aborted,
           UNCHANGED <<pending, responding, posts>>
    PROVE  PermissionInv'
<1>0. at # "start" /\ PermissionInv
  BY SessionParts DEF Unasked
<1>1. /\ asked' = {} /\ settled' = settled \cup asked
      /\ \A p : HasOf(stream', "asked", p) <=> HasOf(stream, "asked", p)
      /\ \A p : HasOf(stream', "replied", p) <=> HasOf(stream, "replied", p) \/ p \in asked
      /\ \A p : Before(stream, "asked", "replied", p) => Before(stream', "asked", "replied", p)
  BY <1>0, AbortedFacts
<1> SUFFICES ASSUME NEW p \in Permission PROVE PermissionInv!(p)'
  BY DEF PermissionInv
<1>2. PermissionInv!(p)
  BY <1>0 DEF PermissionInv
<1> QED
  BY <1>1, <1>2

(* The turn is aborted: the session has nothing left to do.                 *)
LEMMA AbortedKeeps ==
    ASSUME OpenCodeInv, at \in {"merge2", "loop"}, at' \in {"loop", "ended"}, Aborted,
           UNCHANGED <<resumed, input, hydration, known, pending, responding, halted, outcomes, posts,
                       resolved, crossed, erred>>,
           turn' \subseteq OpenTurn, \A s, t \in turn' : s = t, turns' \in 0..MaxTurns,
           WorkingFits(working', turns'), readied' = TRUE,
           OutcomesFit(outcomes, working', turns'),
           \A o \in outcomes, t \in turn' : o[1] < t.id,
           TurnsFit(turn', working', turns'),
           at' = "loop" => \A t \in turn' : t.armed
    PROVE  OpenCodeInv'
<1>0. /\ SessionInv /\ EarlyInv /\ HistoryInv /\ PermissionInv /\ TurnInv /\ PromptInv
      /\ asked \subseteq Permission /\ settled \subseteq Permission /\ messages \in 0..MaxMessages
      /\ messages \in Nat /\ gone \subseteq 1..messages
      /\ question \subseteq Question /\ closed \subseteq Question
  BY SessionParts
<1>1. /\ prompts' = <<>> /\ busy' = FALSE /\ said' = 0 /\ question' = {} /\ asked' = {}
      /\ settled' = settled \cup asked /\ messages' = messages /\ gone' = gone
      /\ closed' = closed \cup question
      /\ stream' \in Seq(SseEvent) /\ Has(stream', "idle")
      /\ Has(stream', "error") => Has(stream, "error")
      /\ \A b : IdleFollows(stream', b)
      /\ \A n : UpTo(stream, n) => UpTo(stream', n)
  BY AbortedFacts
<1>2. UNCHANGED <<resumed, input, phase, asks, known, pending, responding, halted, outcomes, posts,
                  resolved, crossed, erred>>
  BY DEF hydration
<1>3. OpenCodeTypeOK'
  <2>1. Cardinality(turn') <= 1
    BY OneAtMost
  <2>2. <<>> \in Seq({"own", "other"}) /\ 0 \in 0..messages
    BY <1>0
  <2>3. /\ prompts' \in Seq({"own", "other"}) /\ busy' \in BOOLEAN
        /\ said' \in 0..messages' /\ messages' \in 0..MaxMessages
        /\ asked' \subseteq Permission /\ settled' \subseteq Permission
        /\ gone' \subseteq 1..messages' /\ question' \subseteq Question /\ closed' \subseteq Question
        /\ stream' \in Seq(SseEvent)
    BY <1>0, <1>1, <2>2
  <2>4. /\ resumed' \in BOOLEAN /\ input' \in BOOLEAN /\ phase' \in BOOLEAN /\ asks' \subseteq Question
        /\ known' \subseteq 1..MaxMessages /\ pending' \subseteq Permission
        /\ responding' \subseteq pending' /\ halted' \in BOOLEAN
        /\ outcomes' \subseteq (1..MaxTurns) \X {"Completed", "Interrupted", "Failed"}
        /\ posts' \in [Permission -> Nat] /\ resolved' \subseteq Permission
        /\ crossed' \in BOOLEAN /\ erred' \in BOOLEAN
    BY <1>2, ActorParts, SessionParts
  <2>5. at' \in {"start", "status1", "permissions", "questions", "messages1", "merge1",
                 "messages2", "status2", "merge2", "loop", "ended"} \cup Sending
    OBVIOUS
  <2> QED
    BY <2>1, <2>3, <2>4, <2>5 DEF OpenCodeTypeOK, WorkingFits
<1>4. SessionInv'
  BY <1>1, FS_EmptySet DEF SessionInv
<1>5. EarlyInv'
  BY DEF EarlyInv, Early, Unasked
<1>6. HistoryInv'
  BY <1>0, <1>1, <1>2 DEF HistoryInv, Sending
<1>7. PermissionInv'
  BY <1>2, PermissionAborted DEF Unasked
<1>8. TurnInv'
  BY <1>1 DEF TurnInv
<1>9. PromptInv'
  <2>1. ~OwnIn(prompts') /\ \A i \in DOMAIN prompts' : FALSE
    BY <1>1 DEF OwnIn
  <2> QED
    BY <1>0, <1>1, <1>2, <2>1 DEF PromptInv
<1> QED
  BY <1>3, <1>4, <1>5, <1>6, <1>7, <1>8, <1>9 DEF OpenCodeInv

LEMMA AbortTurnKeeps ==
    ASSUME OpenCodeInv, AbortTurn
    PROVE  OpenCodeInv'
<1>1. /\ at = "loop"
      /\ UNCHANGED <<resumed, input, hydration, known, pending, responding, turns, halted,
                     historyVars, crossed, erred>>
  BY DEF AbortTurn
<1>2. CASE at' = "ended" /\ UNCHANGED <<sessionVars, stream, turn>>
  BY <1>1, <1>2, ActorParts, HaltKeeps
<1>3. ASSUME NEW t \in turn, ~t.interrupted, Aborted, at' = at,
             turn' = {[t EXCEPT !.armed = TRUE, !.interrupted = TRUE]}
      PROVE  OpenCodeInv'
  <2>1. /\ UNCHANGED <<readied, working, outcomes, posts, resolved>>
    BY <1>1 DEF historyVars
  <2>2. HistoryInv /\ turn \subseteq OpenTurn /\ turns \in 0..MaxTurns /\ WorkingFits(working, turns)
    BY SessionParts, ActorParts
  <2>3. t \in OpenTurn
    BY <2>2
  <2>4. turn' \subseteq OpenTurn /\ \A s, u \in turn' : s = u
    BY <1>3, <2>3 DEF OpenTurn
  <2>5. \A u \in turn' : u.id = t.id /\ u.shown = t.shown /\ u.armed /\ u.interrupted
    BY <1>3, <2>3 DEF OpenTurn
  <2>6. /\ OutcomesFit(outcomes, working, turns) /\ TurnsFit(turn', working, turns)
        /\ \A o \in outcomes : o[1] < t.id
        /\ readied = TRUE
    BY <1>1, <2>2, <2>5, ActorParts DEF HistoryInv, TurnsFit
  <2> QED
    BY <1>1, <1>3, <2>1, <2>2, <2>4, <2>5, <2>6, AbortedKeeps
<1> QED
  BY <1>2, <1>3 DEF AbortTurn

LEMMA HandleQuestionKeeps ==
    ASSUME OpenCodeInv, HandleQuestion
    PROVE  OpenCodeInv'
<1>1. /\ at = "loop" /\ at' = "ended" /\ (Aborted \/ UNCHANGED <<sessionVars, stream>>)
      /\ UNCHANGED <<resumed, input, hydration, known, pending, responding, turn, turns, halted,
                     historyVars, crossed, erred>>
  BY DEF HandleQuestion, actorVars
<1>2. CASE UNCHANGED <<sessionVars, stream>>
  BY <1>1, <1>2, ActorParts, HaltKeeps
<1>3. CASE Aborted
  <2>1. /\ UNCHANGED <<readied, working, outcomes, posts, resolved>>
    BY <1>1 DEF historyVars
  <2>2. /\ HistoryInv /\ SessionInv /\ turn \subseteq OpenTurn /\ turns \in 0..MaxTurns
        /\ WorkingFits(working, turns) /\ readied \in BOOLEAN
    BY SessionParts, ActorParts
  <2>3. /\ OutcomesFit(outcomes, working, turns)
        /\ \A o \in outcomes, t \in turn : o[1] < t.id
        /\ TurnsFit(turn, working, turns)
        /\ readied = TRUE /\ \A s, t \in turn : s = t
    BY <1>1, <2>2 DEF HistoryInv, SessionInv
  <2> QED
    BY <1>1, <1>3, <2>1, <2>2, <2>3, AbortedKeeps
<1> QED
  BY <1>1, <1>2, <1>3

(* A turn that is opened, and what arm_current_turn makes of one.           *)
LEMMA NewTurnFits ==
    ASSUME NEW n \in Nat, n + 1 \in 1..MaxTurns, WorkingFits(working, n)
    PROVE  /\ WorkingFits(working, n + 1) /\ TurnsFit({NewTurn(n + 1)}, working, n + 1)
           /\ {NewTurn(n + 1)} \subseteq OpenTurn
  BY OpenCodeAssumption DEF WorkingFits, TurnsFit, NewTurn, OpenTurn

LEMMA ArmFacts ==
    ASSUME NEW T, T \subseteq OpenTurn, NEW n \in Nat, WorkingFits(working, n),
           TurnsFit(T, working, n), \A s, t \in T : s = t
    PROVE  /\ WorkingFits(TellWorking(T), n) /\ TurnsFit(Arm(T), TellWorking(T), n)
           /\ Arm(T) \subseteq OpenTurn /\ \A s, t \in Arm(T) : s = t
           /\ \A t \in Arm(T) : t.armed /\ \E u \in T : t.id = u.id /\ t.interrupted = u.interrupted
           /\ T # {} => Arm(T) # {}
           /\ \A k \in 1..MaxTurns : working[k] = 1 => TellWorking(T)[k] = 1
<1> DEFINE w == TellWorking(T)
<1>0. MaxTurns \in Nat
  BY OpenCodeAssumption
<1>1. /\ w \in [1..MaxTurns -> Nat]
      /\ \A k \in 1..MaxTurns :
           w[k] = IF \E t \in T : t.id = k /\ ~t.shown THEN working[k] + 1 ELSE working[k]
  BY DEF TellWorking, WorkingFits
<1> HIDE DEF w
<1>2. \A t \in T : /\ t.id \in 1..MaxTurns /\ t.id <= n /\ t.shown \in BOOLEAN
                   /\ working[t.id] = IF t.shown THEN 1 ELSE 0
  <2>1. \A t \in T : t.id \in 1..MaxTurns /\ t.shown \in BOOLEAN
    BY DEF OpenTurn
  <2>2. \A t \in T : t.id <= n /\ working[t.id] = IF t.shown THEN 1 ELSE 0
    BY DEF TurnsFit
  <2> QED
    BY <2>1, <2>2
<1>3. \A k \in 1..MaxTurns : working[k] \in Nat /\ working[k] <= 1 /\ (k > n => working[k] = 0)
  BY DEF WorkingFits
<1>4. WorkingFits(w, n)
  <2> SUFFICES ASSUME NEW k \in 1..MaxTurns PROVE w[k] <= 1 /\ (k > n => w[k] = 0)
    BY <1>1 DEF WorkingFits
  <2>1. CASE \E t \in T : t.id = k /\ ~t.shown
    <3>1. PICK t \in T : t.id = k /\ ~t.shown
      BY <2>1
    <3>2. working[k] = 0 /\ k <= n
      BY <1>2, <3>1
    <3> QED
      BY <1>0, <1>1, <2>1, <3>2
  <2>2. CASE ~\E t \in T : t.id = k /\ ~t.shown
    BY <1>1, <1>3, <2>2
  <2> QED
    BY <2>1, <2>2
<1>5. \A t \in T : w[t.id] = 1
  <2> TAKE t \in T
  <2>1. CASE t.shown
    <3>1. ~\E u \in T : u.id = t.id /\ ~u.shown
      BY <2>1
    <3> QED
      BY <1>1, <1>2, <2>1, <3>1
  <2>2. CASE ~t.shown
    BY <1>1, <1>2, <2>2
  <2> QED
    BY <2>1, <2>2
<1>6. \A k \in 1..MaxTurns : working[k] = 1 => w[k] = 1
  BY <1>0, <1>1, <1>3, <1>4 DEF WorkingFits
<1>7. \A t \in Arm(T) : \E u \in T : t = [u EXCEPT !.armed = TRUE, !.shown = TRUE]
  BY DEF Arm
<1>8. \A u \in OpenTurn : LET t == [u EXCEPT !.armed = TRUE, !.shown = TRUE] IN
        /\ t \in OpenTurn /\ t.id = u.id /\ t.armed /\ t.shown /\ t.interrupted = u.interrupted
  BY DEF OpenTurn
<1>9. \A t \in Arm(T) : \E u \in T : /\ t \in OpenTurn /\ t.id = u.id /\ t.armed /\ t.shown
                                    /\ t.interrupted = u.interrupted
  <2> TAKE t \in Arm(T)
  <2>1. PICK u \in T : t = [u EXCEPT !.armed = TRUE, !.shown = TRUE]
    BY <1>7
  <2>2. u \in OpenTurn
    OBVIOUS
  <2> QED
    BY <1>8, <2>1, <2>2
<1>10. TurnsFit(Arm(T), w, n)
  BY <1>2, <1>5, <1>9 DEF TurnsFit
<1>11. \A s, t \in Arm(T) : s = t
  BY <1>7
<1>12. T # {} => Arm(T) # {}
  BY DEF Arm
<1> QED
  BY <1>4, <1>6, <1>9, <1>10, <1>11, <1>12 DEF w

(* initialize after hydration: a busy session has its turn shown.           *)
LEMMA FinishResumeKeeps ==
    ASSUME OpenCodeInv, FinishResume
    PROVE  OpenCodeInv'
<1> DEFINE opened == IF phase THEN {NewTurn(turns')} ELSE {}
<1>0. /\ SessionInv /\ EarlyInv /\ HistoryInv /\ PermissionInv /\ TurnInv /\ PromptInv
      /\ phase \in BOOLEAN /\ MaxTurns \in Nat
  BY SessionParts, ActorParts
<1>1. /\ at = "merge2" /\ readied' = TRUE /\ (phase => turns < MaxTurns)
      /\ turns' = turns + (IF phase THEN 1 ELSE 0)
      /\ turn' = Arm(opened) /\ working' = TellWorking(opened)
      /\ at' \in {"ended", "sendStatus", "loop"} /\ (at' = "sendStatus" => ~phase)
      /\ Aborted => at' = "ended" \/ UNCHANGED <<sessionVars, stream>>
      /\ Aborted \/ UNCHANGED <<sessionVars, stream>>
      /\ UNCHANGED <<resumed, input, hydration, known, pending, responding, halted, outcomes,
                     posts, resolved, crossed, erred>>
  BY DEF FinishResume
<1>2. /\ turn = {} /\ turns = 0 /\ responding = {} /\ outcomes = {} /\ resolved = {}
      /\ \A n \in 1..MaxTurns : working[n] = 0
      /\ ~OwnIn(prompts) /\ \A p \in Permission : posts[p] = 0
  BY <1>0, <1>1 DEF EarlyInv, Early, Unasked
<1>3. /\ turns' \in 0..MaxTurns /\ (phase => turns' = 1 /\ 1 \in 1..MaxTurns)
  <2>1. CASE phase
    BY <1>0, <1>1, <1>2, <2>1
  <2>2. CASE ~phase
    BY <1>0, <1>1, <1>2, <2>2
  <2> QED
    BY <2>1, <2>2
<1>4. /\ WorkingFits(working, turns') /\ opened \subseteq OpenTurn
      /\ TurnsFit(opened, working, turns') /\ \A s, t \in opened : s = t
  <2>1. CASE phase
    <3>1. turns + 1 \in 1..MaxTurns /\ turns' = turns + 1 /\ turns \in Nat
      BY <1>1, <1>2, <1>3, <2>1
    <3> QED
      BY <1>0, <2>1, <3>1, NewTurnFits DEF HistoryInv
  <2>2. CASE ~phase
    <3>1. turns' = turns
      BY <1>1, <1>2, <2>2
    <3> QED
      BY <1>0, <2>2, <3>1 DEF HistoryInv, TurnsFit
  <2> QED
    BY <2>1, <2>2
<1>5. \A t \in opened : phase /\ ~t.interrupted
  BY DEF NewTurn
<1> HIDE DEF opened
<1>6. /\ WorkingFits(working', turns') /\ TurnsFit(turn', working', turns')
      /\ turn' \subseteq OpenTurn /\ \A s, t \in turn' : s = t
      /\ \A t \in turn' : t.armed /\ phase
  <2>1. turns' \in Nat
    BY <1>0, <1>3
  <2>2. \A t \in turn' : t.armed /\ \E u \in opened : t.id = u.id
    BY <1>1, <1>4, <2>1, ArmFacts
  <2> QED
    BY <1>1, <1>4, <1>5, <2>1, <2>2, ArmFacts
<1>7. CASE at' = "ended" /\ Aborted
  BY <1>1, <1>2, <1>3, <1>6, <1>7, AbortedKeeps DEF OutcomesFit
<1>8. CASE UNCHANGED <<sessionVars, stream>>
  <2>1. UNCHANGED <<prompts, busy, said, messages, gone, asked, settled, question, closed, stream, resumed, input,
                    phase, asks, known, pending, responding, halted, outcomes, posts, resolved,
                    crossed, erred>>
    BY <1>1, <1>8 DEF sessionVars, messageVars, requestVars, hydration
  <2>2. OpenCodeTypeOK'
    <3>1. Cardinality(turn') <= 1
      BY <1>6, OneAtMost
    <3>2. working' \in [1..MaxTurns -> Nat]
      BY <1>6 DEF WorkingFits
    <3> QED
      BY <1>1, <1>3, <1>6, <2>1, <3>1, <3>2 DEF OpenCodeInv, OpenCodeTypeOK, Sending
  <2>3. SessionInv'
    BY <1>0, <1>6, <2>1 DEF SessionInv
  <2>4. EarlyInv'
    BY <1>1 DEF EarlyInv, Early, Unasked
  <2>5. HistoryInv'
    BY <1>1, <1>2, <1>6, <2>1 DEF HistoryInv, Sending, OutcomesFit
  <2>6. PermissionInv'
    BY <1>0, <1>1, <2>1, PermissionMoves DEF Unasked
  <2>7. TurnInv'
    BY <1>0, <1>1, <1>6, <2>1 DEF TurnInv, SessionInv
  <2>8. PromptInv'
    BY <1>0, <1>1, <1>2, <2>1 DEF PromptInv
  <2> QED
    BY <2>2, <2>3, <2>4, <2>5, <2>6, <2>7, <2>8 DEF OpenCodeInv
<1> QED
  BY <1>1, <1>7, <1>8

(* send_turn up to the prompt: no turn is open.                             *)
LEMMA MoveKeeps ==
    ASSUME OpenCodeInv, at \in {"loop", "sendStatus", "sendMessages"},
           at' \in {"loop", "ended", "sendStatus", "sendMessages"}, turn = {},
           at' = "sendMessages" => ~busy,
           UNCHANGED <<sessionVars, stream, actorVars, historyVars, crossed, erred>>
    PROVE  OpenCodeInv'
<1>0. /\ SessionInv /\ EarlyInv /\ HistoryInv /\ PermissionInv /\ TurnInv /\ PromptInv
  BY SessionParts
<1>1. UNCHANGED <<prompts, busy, said, messages, gone, asked, settled, question, closed, stream, resumed, input, phase,
                  asks, known, pending, responding, turn, turns, halted, readied, working, outcomes,
                  posts, resolved, crossed, erred>>
  BY DEF sessionVars, messageVars, requestVars, hydration, actorVars, historyVars
<1>2. OpenCodeTypeOK'
  BY <1>1 DEF OpenCodeInv, OpenCodeTypeOK, Sending
<1>3. SessionInv'
  BY <1>0, <1>1 DEF SessionInv
<1>4. EarlyInv'
  BY DEF EarlyInv, Early, Unasked
<1>5. HistoryInv'
  BY <1>0, <1>1 DEF HistoryInv, Sending
<1>6. PermissionInv'
  BY <1>0, <1>1, PermissionMoves DEF Unasked
<1>7. TurnInv'
  BY <1>0, <1>1 DEF TurnInv
<1>8. PromptInv'
  <2>1. ~crossed /\ ~erred => ~OwnIn(prompts)
    BY <1>0 DEF PromptInv
  <2> QED
    BY <1>0, <1>1, <2>1 DEF PromptInv
<1> QED
  BY <1>2, <1>3, <1>4, <1>5, <1>6, <1>7, <1>8 DEF OpenCodeInv

LEMMA SendStepsKeep ==
    ASSUME OpenCodeInv, SendTurnCommand \/ SendStatus \/ SendFails
    PROVE  OpenCodeInv'
<1>1. Refused \in {"loop", "ended"}
  BY DEF Refused
<1>2. at \in {"sendStatus", "sendMessages"} => turn = {}
  BY SessionParts DEF HistoryInv
<1> QED
  BY <1>1, <1>2, MoveKeeps DEF SendTurnCommand, SendStatus, SendFails

(* The turn is opened, unarmed, before its prompt is sent.                  *)
LEMMA SendMessagesKeeps ==
    ASSUME OpenCodeInv, SendMessages
    PROVE  OpenCodeInv'
<1> DEFINE new == NewTurn(turns + 1)
<1>0. /\ SessionInv /\ EarlyInv /\ HistoryInv /\ PermissionInv /\ TurnInv /\ PromptInv
      /\ messages \in 0..MaxMessages /\ MaxMessages \in Nat
  BY SessionParts
<1>1. /\ at = "sendMessages" /\ turns < MaxTurns /\ at' = "sendPost"
      /\ known' = (1..messages) \ gone /\ turns' = turns + 1 /\ turn' = {new}
      /\ crossed' = (crossed \/ Withdrawn)
      /\ UNCHANGED <<sessionVars, stream, resumed, input, hydration, pending, responding, halted,
                     historyVars, erred>>
  BY DEF SendMessages
<1>2. UNCHANGED <<prompts, busy, said, messages, gone, asked, settled, question, closed, stream, resumed, input, phase,
                  asks, pending, responding, halted, readied, working, outcomes, posts, resolved,
                  erred>>
  BY <1>1 DEF sessionVars, messageVars, requestVars, hydration, historyVars
<1>3. turns \in Nat /\ turns + 1 \in 1..MaxTurns /\ turns + 1 \in 0..MaxTurns
  BY <1>1, ActorParts
<1>4. turn' \subseteq OpenTurn /\ \A s, t \in turn' : s = t
  BY <1>1, <1>3 DEF OpenTurn, NewTurn
<1>5. turn' # {} /\ \A t \in turn' : t.id = turns + 1 /\ ~t.armed
  BY <1>1 DEF NewTurn
<1>13. WorkingFits(working', turns') /\ TurnsFit(turn', working', turns')
  BY <1>0, <1>1, <1>2, <1>3, NewTurnFits DEF HistoryInv
<1>14. crossed' \in BOOLEAN /\ (crossed => crossed')
  BY <1>1, SessionParts
<1> HIDE DEF new
<1>6. OpenCodeTypeOK'
  <2>1. Cardinality(turn') <= 1
    BY <1>4, OneAtMost
  <2>2. known' \subseteq 1..MaxMessages
    BY <1>0, <1>1
  <2> QED
    BY <1>1, <1>2, <1>3, <1>4, <1>14, <2>1, <2>2 DEF OpenCodeInv, OpenCodeTypeOK, Sending
<1>7. SessionInv'
  BY <1>0, <1>2, <1>4 DEF SessionInv
<1>8. EarlyInv'
  BY <1>1 DEF EarlyInv, Early, Unasked
<1>9. HistoryInv'
  <2>1. ASSUME NEW o \in outcomes PROVE o[1] <= turns + 1 /\ o[1] < turns + 1
    <3>1. o[1] \in 1..MaxTurns /\ o[1] <= turns
      BY <1>0, <2>1, ActorParts DEF HistoryInv, OutcomesFit
    <3> QED
      BY <1>3, <3>1
  <2>2. OutcomesFit(outcomes', working', turns')
    BY <1>0, <1>1, <1>2, <2>1 DEF HistoryInv, OutcomesFit
  <2>3. \A o \in outcomes', t \in turn' : o[1] < t.id
    BY <1>2, <1>5, <2>1
  <2> QED
    BY <1>0, <1>1, <1>2, <1>5, <1>13, <2>2, <2>3 DEF HistoryInv, Sending
<1>10. PermissionInv'
  BY <1>0, <1>1, <1>2, PermissionMoves DEF Unasked
<1>11. TurnInv'
  BY <1>0, <1>1, <1>2 DEF TurnInv
<1>12. PromptInv'
  <2>1. ~crossed' => ~Unknown(stream', known')
    <3>1. \A i \in DOMAIN stream : stream[i].type = "message" =>
                                  stream[i].id \in 1..MaxMessages /\ stream[i].id <= messages
      BY <1>0, SessionParts, EventTyped DEF PromptInv, UpTo
    <3>2. ASSUME ~Withdrawn, NEW i \in DOMAIN stream, stream[i].type = "message"
          PROVE  stream[i].id \in (1..messages) \ gone
      <4>1. stream[i].id \notin gone
        BY <3>2 DEF Withdrawn
      <4> QED
        BY <1>0, <3>1, <3>2, <4>1
    <3> QED
      BY <1>1, <1>2, <3>2 DEF Unknown
  <2>2. known' \subseteq 1..messages'
    BY <1>1, <1>2
  <2> QED
    BY <1>0, <1>1, <1>2, <1>14, <2>1, <2>2 DEF PromptInv
<1> QED
  BY <1>6, <1>7, <1>8, <1>9, <1>10, <1>11, <1>12 DEF OpenCodeInv

(* The prompt: from here the session owes a new message.                    *)
LEMMA SendPostKeeps ==
    ASSUME OpenCodeInv, SendPost
    PROVE  OpenCodeInv'
<1> DEFINE v == Append(prompts, "own")
<1>0. /\ SessionInv /\ EarlyInv /\ HistoryInv /\ PermissionInv /\ TurnInv /\ PromptInv
      /\ prompts \in Seq({"own", "other"}) /\ stream \in Seq(SseEvent) /\ messages \in Nat
      /\ MaxMessages \in Nat /\ crossed \in BOOLEAN /\ input \in BOOLEAN
  BY SessionParts, ActorParts
<1>1. /\ at = "sendPost"
      /\ UNCHANGED <<busy, said, messages, gone, asked, settled, question, closed, stream, resumed, phase, asks,
                     known, pending, responding, turns, halted, readied, working, outcomes, posts,
                     resolved, erred>>
  BY DEF SendPost, messageVars, requestVars, hydration, historyVars
<1>2. \/ /\ at' = "loop" /\ input' = FALSE /\ prompts' = v /\ crossed' = (crossed \/ prompts # <<>>)
         /\ turn' = turn
      \/ at' \in {"loop", "ended"} /\ turn' = {} /\ UNCHANGED <<prompts, input, crossed>>
      \/ at' = "ended" /\ prompts' \in {prompts, v} /\ UNCHANGED <<turn, input, crossed>>
  BY DEF SendPost, Refused
<1>3. /\ v \in Seq({"own", "other"}) /\ v # <<>>
      /\ Len(prompts) + 1 \in DOMAIN v /\ v[Len(prompts) + 1] = "own"
      /\ prompts = <<>> => DOMAIN v = {1}
  BY <1>0, WorkGrows
<1> HIDE DEF v
<1>4. /\ at' \in {"loop", "ended"} /\ turn' \in {turn, {}} /\ prompts' \in {prompts, v}
      /\ input' \in BOOLEAN /\ crossed' \in BOOLEAN
  BY <1>0, <1>2
<1>5. OpenCodeTypeOK'
  <2>1. prompts' \in Seq({"own", "other"})
    BY <1>0, <1>3, <1>4
  <2>2. turn' \subseteq OpenTurn /\ Cardinality(turn') <= 1
    <3>1. CASE turn' = turn
      BY <3>1, ActorParts
    <3>2. CASE turn' = {}
      BY <3>2, FS_EmptySet
    <3> QED
      BY <1>4, <3>1, <3>2
  <2> QED
    BY <1>1, <1>4, <2>1, <2>2 DEF OpenCodeInv, OpenCodeTypeOK
<1>6. SessionInv'
  BY <1>0, <1>1, <1>3, <1>4 DEF SessionInv
<1>7. EarlyInv'
  BY <1>4 DEF EarlyInv, Early, Unasked
<1>8. HistoryInv'
  <2>1. TurnsFit(turn', working', turns') /\ \A o \in outcomes', t \in turn' : o[1] < t.id
    BY <1>0, <1>1, <1>4 DEF HistoryInv, TurnsFit
  <2> QED
    BY <1>0, <1>1, <1>4, <2>1 DEF HistoryInv, Sending
<1>9. PermissionInv'
  BY <1>0, <1>1, <1>4, PermissionMoves DEF Unasked
<1>10. TurnInv'
  <2>1. CASE at' = "loop" /\ prompts' = v /\ turn' = turn
    <3>1. Owed'
      <4>1. Len(prompts) + 1 > 1 \/ ~busy'
        <5>1. CASE prompts = <<>>
          BY <1>0, <1>1, <5>1 DEF SessionInv
        <5>2. CASE prompts # <<>>
          BY <1>0, <5>2
        <5> QED
          BY <5>1, <5>2
      <4> QED
        BY <1>3, <2>1, <4>1 DEF Owed
    <3>2. \A t \in turn' : ~t.armed
      BY <1>0, <1>1, <2>1 DEF HistoryInv
    <3> QED
      BY <1>0, <1>1, <2>1, <3>1, <3>2 DEF TurnInv
  <2>2. CASE at' = "ended" \/ turn' = {}
    BY <1>0, <1>1, <1>4, <2>2 DEF TurnInv
  <2> QED
    BY <1>2, <2>1, <2>2
<1>11. PromptInv'
  <2>1. /\ UpTo(stream, messages) /\ known \subseteq 1..messages
        /\ Has(stream, "error") => erred
    BY <1>0 DEF PromptInv
  <2>2. CASE at' = "ended"
    BY <1>1, <2>1, <2>2 DEF PromptInv
  <2>3. CASE at' = "loop" /\ prompts' = prompts /\ crossed' = crossed
    BY <1>0, <1>1, <2>1, <2>3 DEF PromptInv
  <2>4. CASE at' = "loop" /\ prompts' = v /\ crossed' = (crossed \/ prompts # <<>>) /\ turn' = turn
    <3>1. ~crossed' => ~crossed /\ DOMAIN v = {1}
      BY <1>3, <2>4
    <3>2. ~crossed => Harmless(stream, known)
      BY <1>0, <1>1 DEF PromptInv, Unknown, Harmless
    <3>3. turn # {} /\ \A t \in turn : ~t.armed
      BY <1>0, <1>1 DEF HistoryInv
    <3>4. ~crossed' => \A i \in DOMAIN prompts' : i = 1
      BY <2>4, <3>1
    <3> QED
      BY <1>1, <2>1, <2>4, <3>1, <3>2, <3>3, <3>4 DEF PromptInv
  <2> QED
    BY <1>2, <2>2, <2>3, <2>4
<1> QED
  BY <1>5, <1>6, <1>7, <1>8, <1>9, <1>10, <1>11 DEF OpenCodeInv

(* respond_permission: a permission that was answered is not answered again. *)
LEMMA RespondPermissionKeeps ==
    ASSUME OpenCodeInv, NEW p \in Permission, RespondPermission(p)
    PROVE  OpenCodeInv'
<1>0. /\ SessionInv /\ EarlyInv /\ HistoryInv /\ PermissionInv /\ TurnInv /\ PromptInv
      /\ asked \subseteq Permission /\ settled \subseteq Permission /\ responding \subseteq pending
      /\ posts \in [Permission -> Nat] /\ messages \in Nat
  BY SessionParts, ActorParts
<1>1. /\ at = "loop" /\ p \in pending \ responding
      /\ UNCHANGED <<prompts, busy, said, messages, gone, question, closed, resumed, input, phase, asks, known,
                     pending, turn, turns, halted, readied, working, outcomes, resolved, crossed, erred>>
  BY DEF RespondPermission, messageVars, hydration
<1>2. posts[p] = 0
  <2>1. posts[p] \in Nat /\ posts[p] <= 1 /\ posts[p] # 1
    BY <1>0, <1>1 DEF PermissionInv
  <2> QED
    BY <2>1
<1>3. CASE UNCHANGED <<asked, settled, stream, responding, posts, at>>
  BY <1>1, <1>3, ActorParts, HaltKeeps DEF sessionVars, messageVars, requestVars, hydration, historyVars
<1>4. ASSUME responding' = responding \cup {p}, posts' = [posts EXCEPT ![p] = @ + 1],
             \/ /\ p \in asked /\ asked' = asked \ {p} /\ settled' = settled \cup {p}
                /\ Send(<<[type |-> "replied", id |-> p]>>) /\ at' = at
             \/ at' = "ended" /\ UNCHANGED <<asked, settled, stream>>
      PROVE  OpenCodeInv'
  <2>1. /\ posts' \in [Permission -> Nat] /\ posts'[p] = 1
        /\ \A q \in Permission : q # p => posts'[q] = posts[q]
    <3>1. \A q \in Permission : posts'[q] = IF q = p THEN posts[p] + 1 ELSE posts[q]
      BY <1>0, <1>4
    <3>2. posts' = [q \in Permission |-> IF q = p THEN posts[p] + 1 ELSE posts[q]]
      BY <1>0, <1>4
    <3>3. \A q \in Permission : (IF q = p THEN posts[p] + 1 ELSE posts[q]) \in Nat
      BY <1>0
    <3>4. posts' \in [Permission -> Nat]
      BY <3>2, <3>3
    <3> QED
      BY <1>2, <3>1, <3>4
  <2>2. responding' \subseteq pending'
    BY <1>0, <1>1, <1>4
  <2>3. /\ asked' \subseteq Permission /\ settled' \subseteq Permission /\ settled \subseteq settled'
        /\ IsFiniteSet(asked') /\ (asked' # {} => busy) /\ at' \in {at, "ended"}
        /\ stream' \in Seq(SseEvent)
        /\ \A type : type # "replied" => (Has(stream', type) <=> Has(stream, type))
        /\ \A type, q : type # "replied" \/ q # p
                          => (HasOf(stream', type, q) <=> HasOf(stream, type, q))
        /\ \A q : Before(stream, "asked", "replied", q) => Before(stream', "asked", "replied", q)
        /\ \A k : Unknown(stream, k) => Unknown(stream', k)
        /\ \A k : Harmless(stream, k) => Harmless(stream', k)
        /\ \A n : UpTo(stream, n) => UpTo(stream', n)
        /\ IdleFollows(stream', busy)
        /\ \/ at' = "ended" /\ UNCHANGED <<asked, settled, stream>>
           \/ /\ p \in asked /\ asked' = asked \ {p} /\ settled' = settled \cup {p}
              /\ HasOf(stream', "replied", p)
    <3>1. CASE at' = "ended" /\ UNCHANGED <<asked, settled, stream>>
      BY <1>0, <3>1, SessionParts DEF SessionInv, TurnInv
    <3>2. CASE /\ p \in asked /\ asked' = asked \ {p} /\ settled' = settled \cup {p}
               /\ Send(<<[type |-> "replied", id |-> p]>>) /\ at' = at
      <4>1. /\ stream' \in Seq(SseEvent)
            /\ at # "start" => HasOf(stream', "replied", p)
            /\ \A type : type # "replied" => (Has(stream', type) <=> Has(stream, type))
            /\ \A type, q : type # "replied" \/ q # p
                              => (HasOf(stream', type, q) <=> HasOf(stream, type, q))
            /\ \A q : Before(stream, "asked", "replied", q) => Before(stream', "asked", "replied", q)
            /\ \A k : Unknown(stream, k) => Unknown(stream', k)
            /\ \A k : Harmless(stream, k) => Harmless(stream', k)
            /\ \A n : UpTo(stream, n) => UpTo(stream', n)
            /\ busy /\ IsFiniteSet(asked')
        BY <3>2, SettleFacts
      <4>2. IdleFollows(stream', busy)
        BY <4>1, StreamRest, SessionParts
      <4> QED
        BY <1>0, <1>1, <3>2, <4>1, <4>2
    <3> QED
      BY <1>4, <3>1, <3>2
  <2>4. OpenCodeTypeOK'
    BY <1>1, <2>1, <2>2, <2>3 DEF OpenCodeInv, OpenCodeTypeOK
  <2>5. SessionInv'
    BY <1>0, <1>1, <2>3 DEF SessionInv
  <2>6. EarlyInv'
    BY <1>1, <2>3 DEF EarlyInv, Early, Unasked
  <2>7. HistoryInv'
    BY <1>0, <1>1, <2>3, HistoryStays
  <2>8. PermissionInv'
    <3> SUFFICES ASSUME NEW q \in Permission PROVE PermissionInv!(q)'
      BY DEF PermissionInv
    <3>0. PermissionInv!(q)
      BY <1>0 DEF PermissionInv
    <3>1. CASE q = p
      BY <1>1, <1>4, <2>1, <2>3, <3>0, <3>1 DEF Unasked
    <3>2. CASE q # p
      BY <1>1, <1>4, <2>1, <2>3, <3>0, <3>2 DEF Unasked
    <3> QED
      BY <3>1, <3>2
  <2>9. TurnInv'
    <3>1. Owed => Owed'
      BY <1>1 DEF Owed
    <3>2. CASE at' = "ended"
      BY <1>1, <2>3, <3>2 DEF TurnInv
    <3>3. CASE at' = at
      <4>1. \A t \in turn : IF t.armed THEN prompts # <<>> \/ Has(stream', "idle")
                            ELSE Owed' \/ Unknown(stream', known)
        BY <1>0, <1>1, <2>3, <3>1 DEF TurnInv
      <4> QED
        BY <1>1, <2>3, <3>3, <4>1 DEF TurnInv
    <3> QED
      BY <2>3, <3>2, <3>3
  <2>10. PromptInv'
    <3>1. CASE at' = "ended"
      BY <1>0, <1>1, <2>3, <3>1 DEF PromptInv
    <3>2. CASE at' = at
      BY <1>0, <1>1, <2>3, <3>2, PromptStays DEF PromptInv
    <3> QED
      BY <2>3, <3>1, <3>2
  <2> QED
    BY <2>4, <2>5, <2>6, <2>7, <2>8, <2>9, <2>10 DEF OpenCodeInv
<1> QED
  BY <1>3, <1>4 DEF RespondPermission

(* An event is received in the loop: what its handler must see to.          *)
LEMMA ReceiveKeeps ==
    ASSUME OpenCodeInv, at = "loop", stream # <<>>, stream' = Tail(stream),
           UNCHANGED <<sessionVars, at, resumed, input, hydration, halted, readied, posts, crossed,
                       erred>>,
           pending' = IF Head(stream).type = "asked" THEN pending \cup {Head(stream).id}
                      ELSE IF Head(stream).type = "replied" THEN pending \ {Head(stream).id}
                      ELSE pending,
           responding' = IF Head(stream).type = "replied" THEN responding \ {Head(stream).id}
                         ELSE responding,
           resolved' \subseteq resolved
                                 \cup IF Head(stream).type = "replied" THEN {Head(stream).id} ELSE {},
           turn' \subseteq OpenTurn, \A s, t \in turn' : s = t, turns' \in 0..MaxTurns,
           known' \subseteq 1..messages, WorkingFits(working', turns'),
           outcomes' \subseteq (1..MaxTurns) \X {"Completed", "Interrupted", "Failed"},
           OutcomesFit(outcomes', working', turns'),
           \A o \in outcomes', t \in turn' : o[1] < t.id,
           TurnsFit(turn', working', turns'),
           \A t \in turn' : IF t.armed THEN prompts # <<>> \/ Has(stream', "idle")
                            ELSE Owed \/ Unknown(stream', known'),
           ~crossed /\ ~erred /\ OwnIn(prompts) =>
             /\ turn' # {} /\ Harmless(stream', known')
             /\ Has(stream', "idle") => \A t \in turn' : ~t.armed
    PROVE  OpenCodeInv'
<1>0. /\ SessionInv /\ EarlyInv /\ HistoryInv /\ PermissionInv /\ TurnInv /\ PromptInv
      /\ stream \in Seq(SseEvent) /\ messages \in 0..MaxMessages /\ MaxMessages \in Nat
      /\ settled \subseteq Permission
  BY SessionParts
<1>1. UNCHANGED <<prompts, busy, said, messages, gone, asked, settled, question, closed, at, resumed, input, phase,
                  asks, halted, readied, posts, crossed, erred>>
  BY DEF sessionVars, messageVars, requestVars, hydration
<1>2. /\ PermissionInv' /\ responding' \subseteq pending' /\ pending' \subseteq Permission
      /\ Head(stream).type = "replied" => Head(stream).id \in settled
  <2>1. at \notin Unasked /\ at # "ended" /\ at' \in {at, "ended"}
    BY <1>1 DEF Unasked
  <2> QED
    BY <1>1, <2>1, PermissionReceived
<1>3. resolved' \subseteq settled
  BY <1>0, <1>2 DEF HistoryInv
<1>4. /\ stream' \in Seq(SseEvent)
      /\ \A type : Has(stream', type) => Has(stream, type)
      /\ \A b : IdleFollows(stream, b) => IdleFollows(stream', b)
      /\ \A n : UpTo(stream, n) => UpTo(stream', n)
  BY <1>0, StreamShrinks
<1>5. OpenCodeTypeOK'
  <2>1. Cardinality(turn') <= 1
    BY OneAtMost
  <2>2. known' \subseteq 1..MaxMessages
    BY <1>0
  <2>3. resolved' \subseteq Permission /\ working' \in [1..MaxTurns -> Nat]
    BY <1>0, <1>3 DEF WorkingFits
  <2> QED
    BY <1>1, <1>2, <1>4, <2>1, <2>2, <2>3 DEF OpenCodeInv, OpenCodeTypeOK
<1>6. SessionInv'
  BY <1>0, <1>1 DEF SessionInv
<1>7. EarlyInv'
  BY <1>1 DEF EarlyInv, Early, Unasked
<1>8. HistoryInv'
  <2>1. readied'
    BY <1>0, <1>1 DEF HistoryInv
  <2> QED
    BY <1>1, <1>3, <2>1 DEF HistoryInv, Sending
<1>9. TurnInv'
  <2>1. Owed <=> Owed'
    BY <1>1 DEF Owed
  <2> QED
    BY <1>0, <1>1, <1>4, <2>1 DEF TurnInv
<1>10. PromptInv'
  <2>1. /\ UpTo(stream', messages') /\ known' \subseteq 1..messages'
        /\ Has(stream', "error") => erred'
    BY <1>0, <1>1, <1>4 DEF PromptInv
  <2>2. ~crossed' => \A i \in DOMAIN prompts' : prompts'[i] = "own" => i = 1
    BY <1>0, <1>1 DEF PromptInv
  <2> QED
    BY <1>1, <2>1, <2>2 DEF PromptInv
<1> QED
  BY <1>2, <1>5, <1>6, <1>7, <1>8, <1>9, <1>10 DEF OpenCodeInv

(* What the parts of the invariant say while the actor is in its loop.      *)
LEMMA InLoop ==
    ASSUME OpenCodeInv, at = "loop", stream # <<>>
    PROVE  /\ turn \subseteq OpenTurn /\ \A s, t \in turn : s = t
           /\ \A t \in turn : t.id \in 1..MaxTurns /\ t.armed \in BOOLEAN /\ t.interrupted \in BOOLEAN
           /\ turns \in 0..MaxTurns /\ turns \in Nat /\ MaxTurns \in Nat
           /\ known \subseteq 1..messages /\ WorkingFits(working, turns)
           /\ outcomes \subseteq (1..MaxTurns) \X {"Completed", "Interrupted", "Failed"}
           /\ \A o \in outcomes : o[1] \in 1..MaxTurns
           /\ OutcomesFit(outcomes, working, turns)
           /\ \A o \in outcomes, t \in turn : o[1] < t.id
           /\ TurnsFit(turn, working, turns)
           /\ \A t \in turn : IF t.armed THEN prompts # <<>> \/ Has(stream, "idle")
                              ELSE Owed \/ Unknown(stream, known)
           /\ ~crossed /\ ~erred /\ OwnIn(prompts) =>
                /\ turn # {} /\ Harmless(stream, known)
                /\ Has(stream, "idle") => \A t \in turn : ~t.armed
           /\ busy => prompts # <<>>
           /\ Head(stream) \in SseEvent
           /\ \A type : Has(stream, type) <=> Head(stream).type = type \/ Has(Tail(stream), type)
           /\ Head(stream).type \in {"busy", "message"} => busy \/ Has(Tail(stream), "idle")
           /\ \A k : Unknown(stream, k) <=> (Head(stream).type = "message" /\ Head(stream).id \notin k)
                                              \/ Unknown(Tail(stream), k)
           /\ \A k : Harmless(stream, k) =>
                /\ Harmless(Tail(stream), k)
                /\ Head(stream).type = "message" /\ Head(stream).id \notin k
                     => ~Has(Tail(stream), "idle")
           /\ Head(stream).type = "message" => Head(stream).id \in 1..messages
           /\ Head(stream).type = "error" => erred
<1>0. /\ SessionInv /\ EarlyInv /\ HistoryInv /\ PermissionInv /\ TurnInv /\ PromptInv
      /\ stream \in Seq(SseEvent) /\ messages \in Nat
  BY SessionParts
<1>1. /\ turn \subseteq OpenTurn /\ turns \in 0..MaxTurns /\ turns \in Nat /\ MaxTurns \in Nat
      /\ known \subseteq 1..messages /\ WorkingFits(working, turns)
      /\ outcomes \subseteq (1..MaxTurns) \X {"Completed", "Interrupted", "Failed"}
  BY ActorParts
<1>2. /\ \A t \in turn : t.id \in 1..MaxTurns /\ t.armed \in BOOLEAN /\ t.interrupted \in BOOLEAN
      /\ \A o \in outcomes : o[1] \in 1..MaxTurns
  BY <1>1 DEF OpenTurn
<1>3. /\ \A s, t \in turn : s = t
      /\ busy => prompts # <<>>
  BY <1>0 DEF SessionInv
<1>4. /\ OutcomesFit(outcomes, working, turns)
      /\ \A o \in outcomes, t \in turn : o[1] < t.id
      /\ TurnsFit(turn, working, turns)
  BY <1>0 DEF HistoryInv
<1>5. /\ \A t \in turn : IF t.armed THEN prompts # <<>> \/ Has(stream, "idle")
                         ELSE Owed \/ Unknown(stream, known)
      /\ IdleFollows(stream, busy)
  BY <1>0 DEF TurnInv
<1>6. /\ ~crossed /\ ~erred /\ OwnIn(prompts) =>
           /\ turn # {} /\ Harmless(stream, known)
           /\ Has(stream, "idle") => \A t \in turn : ~t.armed
      /\ UpTo(stream, messages) /\ (Has(stream, "error") => erred)
  BY <1>0 DEF PromptInv
<1>7. /\ Head(stream) \in SseEvent
      /\ \A type : Has(stream, type) <=> Head(stream).type = type \/ Has(Tail(stream), type)
      /\ Head(stream).type \in {"busy", "message"} => busy \/ Has(Tail(stream), "idle")
      /\ \A k : Unknown(stream, k) <=> (Head(stream).type = "message" /\ Head(stream).id \notin k)
                                         \/ Unknown(Tail(stream), k)
      /\ \A k : Harmless(stream, k) =>
           /\ Harmless(Tail(stream), k)
           /\ Head(stream).type = "message" /\ Head(stream).id \notin k => ~Has(Tail(stream), "idle")
      /\ Head(stream).type = "message" => Head(stream).id <= messages
  BY <1>0, <1>5, <1>6, StreamShrinks
<1>8. Head(stream).type = "message" => Head(stream).id \in 1..messages
  <2>1. Head(stream).type = "message" => Head(stream).id \in 1..MaxMessages
    BY <1>7, EventTyped
  <2> QED
    BY <1>0, <1>7, <2>1
<1>9. Head(stream).type = "error" => erred
  BY <1>6, <1>7
<1> QED
  BY <1>1, <1>2, <1>3, <1>4, <1>5, <1>6, <1>7, <1>8, <1>9

(* An idle session: only an armed turn is over.                             *)
LEMMA HandleIdleKeeps ==
    ASSUME OpenCodeInv, at = "loop", stream # <<>>, stream' = Tail(stream),
           UNCHANGED <<sessionVars, at, resumed, input, hydration, halted, readied, posts, crossed,
                       erred>>,
           Head(stream).type = "idle", HandleIdle
    PROVE  OpenCodeInv'
<1> DEFINE over == {t \in turn : t.armed}
<1>1. /\ outcomes' = outcomes \cup {<<t.id, Outcome(t)>> : t \in over}
      /\ turn' = turn \ over
      /\ known' = (IF over = {} THEN known ELSE {})
      /\ UNCHANGED <<pending, responding, turns, working, resolved>>
  BY DEF HandleIdle
<1>2. Head(stream).type \notin {"asked", "replied", "busy", "message"}
  OBVIOUS
<1>3. CASE over = {}
  <2>1. UNCHANGED <<turn, known, outcomes, pending, responding, turns, working, resolved>>
    BY <1>1, <1>3
  <2>2. \A t \in turn : ~t.armed
    BY <1>3
  <2>3. \A t \in turn : Owed \/ Unknown(stream', known)
    BY <1>2, <2>2, InLoop
  <2> HIDE DEF over
  <2> QED
    BY <1>2, <2>1, <2>2, <2>3, InLoop, ReceiveKeeps
<1>4. CASE over # {}
  <2>1. PICK t \in turn : t.armed
    BY <1>4
  <2>2. turn = {t} /\ over = {t}
    BY <2>1, InLoop
  <2>3. turn' = {} /\ known' = {} /\ outcomes' = outcomes \cup {<<t.id, Outcome(t)>>}
    BY <1>1, <2>2
  <2> HIDE DEF over
  <2>4. ~(~crossed /\ ~erred /\ OwnIn(prompts))
    BY <2>1, InLoop
  <2>5. /\ <<t.id, Outcome(t)>> \in (1..MaxTurns) \X {"Completed", "Interrupted", "Failed"}
        /\ t.id <= turns /\ (Outcome(t) = "Completed" => working[t.id] = 1)
    BY <2>1, InLoop DEF Outcome, TurnsFit
  <2>6. /\ outcomes' \subseteq (1..MaxTurns) \X {"Completed", "Interrupted", "Failed"}
        /\ OutcomesFit(outcomes', working, turns)
    BY <2>3, <2>5, InLoop DEF OutcomesFit
  <2>7. TurnsFit(turn', working, turns)
    BY <2>3 DEF TurnsFit
  <2> QED
    BY <1>1, <1>2, <2>3, <2>4, <2>6, <2>7, InLoop, ReceiveKeeps
<1> QED
  BY <1>3, <1>4

(* An error: whatever turn is open has failed.                              *)
LEMMA HandleErrorKeeps ==
    ASSUME OpenCodeInv, at = "loop", stream # <<>>, stream' = Tail(stream),
           UNCHANGED <<sessionVars, at, resumed, input, hydration, halted, readied, posts, crossed,
                       erred>>,
           Head(stream).type = "error", HandleError
    PROVE  OpenCodeInv'
<1>1. /\ outcomes' = outcomes \cup {<<t.id, "Failed">> : t \in turn}
      /\ turn' = {} /\ known' \in {known, {}}
      /\ UNCHANGED <<pending, responding, turns, working, resolved>>
  BY DEF HandleError
<1>2. Head(stream).type \notin {"asked", "replied"} /\ erred
  BY InLoop
<1>3. \A t \in turn : t.id \in 1..MaxTurns /\ t.id <= turns
  BY InLoop DEF TurnsFit
<1>6. TurnsFit(turn', working, turns)
  BY <1>1 DEF TurnsFit
<1>4. /\ outcomes' \subseteq (1..MaxTurns) \X {"Completed", "Interrupted", "Failed"}
      /\ OutcomesFit(outcomes', working, turns)
  BY <1>1, <1>3, InLoop DEF OutcomesFit
<1>5. known' \subseteq 1..messages
  BY <1>1, InLoop
<1> QED
  BY <1>1, <1>2, <1>4, <1>5, <1>6, InLoop, ReceiveKeeps

(* A message: a new one arms the turn that is open, or opens one.           *)
LEMMA HandleMessageKeeps ==
    ASSUME OpenCodeInv, at = "loop", stream # <<>>, stream' = Tail(stream),
           UNCHANGED <<sessionVars, at, resumed, input, hydration, halted, readied, posts, crossed,
                       erred>>,
           Head(stream).type = "message", HandleMessage(Head(stream).id)
    PROVE  OpenCodeInv'
<1> DEFINE m == Head(stream).id
           opens == m \notin known /\ turn = {} /\ resumed
           opened == IF opens THEN {NewTurn(turns + 1)} ELSE turn
<1>1. /\ opens => turns < MaxTurns
      /\ turns' = turns + (IF opens THEN 1 ELSE 0)
      /\ turn' = (IF m \in known THEN turn ELSE Arm(opened))
      /\ working' = (IF m \in known THEN working ELSE TellWorking(opened))
      /\ known' = known \cup {m}
      /\ UNCHANGED <<pending, responding, outcomes, resolved>>
  BY DEF HandleMessage
<1>2. Head(stream).type \notin {"asked", "replied", "idle"}
  OBVIOUS
<1>3. known' \subseteq 1..messages /\ known \subseteq known'
  BY <1>1, InLoop
<1>4. prompts # <<>> \/ Has(stream', "idle")
  BY InLoop
<1>5. CASE m \in known
  <2>1. UNCHANGED <<turn, known, outcomes, pending, responding, turns, working, resolved>>
    BY <1>1, <1>5, InLoop
  <2>2. \A t \in turn : ~t.armed => Owed \/ Unknown(stream', known)
    BY <1>5, InLoop
  <2>3. Has(stream', "idle") <=> Has(stream, "idle")
    BY <1>2, InLoop
  <2> HIDE DEF m, opened
  <2> QED
    BY <1>2, <1>4, <2>1, <2>2, <2>3, InLoop, ReceiveKeeps
<1>6. CASE m \notin known
  <2>1. turn' = Arm(opened) /\ working' = TellWorking(opened)
    BY <1>1, <1>6
  <2>2. /\ turns' \in 0..MaxTurns /\ turns' \in Nat /\ turns' >= turns
        /\ WorkingFits(working, turns') /\ opened \subseteq OpenTurn
        /\ TurnsFit(opened, working, turns') /\ \A s, t \in opened : s = t
    <3>1. CASE opens
      <4>1. turns \in Nat /\ turns + 1 \in 1..MaxTurns /\ turns' = turns + 1 /\ opened = {NewTurn(turns + 1)}
        BY <1>1, <3>1, InLoop
      <4> QED
        <5>1. /\ WorkingFits(working, turns + 1) /\ TurnsFit(opened, working, turns + 1)
              /\ opened \subseteq OpenTurn
          BY <4>1, InLoop, NewTurnFits
        <5>2. turns' \in 0..MaxTurns /\ turns' \in Nat /\ turns' >= turns
          BY <4>1
        <5> HIDE DEF opened, opens, m
        <5> QED
          BY <4>1, <5>1, <5>2
    <3>2. CASE ~opens
      <4>1. turns' = turns /\ opened = turn
        BY <1>1, <3>2, InLoop
      <4> QED
        BY <4>1, InLoop
    <3> QED
      BY <3>1, <3>2
  <2>3. \A o \in outcomes, t \in opened : o[1] < t.id
    <3>1. CASE opens
      <4>1. \A o \in outcomes : o[1] \in 1..MaxTurns /\ o[1] <= turns /\ turns \in Nat
        BY InLoop DEF OutcomesFit
      <4> QED
        BY <3>1, <4>1 DEF NewTurn
    <3>2. CASE ~opens
      BY <3>2, InLoop
    <3> QED
      BY <3>1, <3>2
  <2>4. turn # {} => opened # {}
    OBVIOUS
  <2>5. turn = {} => ~(~crossed /\ ~erred /\ OwnIn(prompts))
    BY InLoop
  <2>6. ~crossed /\ ~erred /\ OwnIn(prompts) => Harmless(stream', known') /\ ~Has(stream', "idle")
    BY <1>3, <1>6, InLoop, StreamRest
  <2> HIDE DEF opened, opens, m
  <2>7. /\ WorkingFits(working', turns') /\ TurnsFit(turn', working', turns')
        /\ turn' \subseteq OpenTurn /\ \A s, t \in turn' : s = t
        /\ opened # {} => turn' # {}
        /\ \A t \in turn' : t.armed /\ \E u \in opened : t.id = u.id
        /\ \A k \in 1..MaxTurns : working[k] = 1 => working'[k] = 1
    BY <2>1, <2>2, ArmFacts
  <2>8. OutcomesFit(outcomes', working', turns')
    <3> SUFFICES ASSUME NEW o \in outcomes
                 PROVE  o[1] <= turns' /\ (o[2] = "Completed" => working'[o[1]] = 1)
      BY <1>1 DEF OutcomesFit
    <3>1. /\ o[1] \in 1..MaxTurns /\ o[1] <= turns /\ turns \in Nat /\ MaxTurns \in Nat
          /\ o[2] = "Completed" => working[o[1]] = 1
      BY InLoop DEF OutcomesFit
    <3> QED
      BY <2>2, <2>7, <3>1
  <2>9. \A o \in outcomes', t \in turn' : o[1] < t.id
    BY <1>1, <2>3, <2>7
  <2>10. outcomes' \subseteq (1..MaxTurns) \X {"Completed", "Interrupted", "Failed"}
    BY <1>1, InLoop
  <2>11. ~crossed /\ ~erred /\ OwnIn(prompts) =>
           /\ turn' # {} /\ Harmless(stream', known')
           /\ Has(stream', "idle") => \A t \in turn' : ~t.armed
    BY <2>4, <2>5, <2>6, <2>7
  <2>12. /\ \A t \in turn' : IF t.armed THEN prompts # <<>> \/ Has(stream', "idle")
                              ELSE Owed \/ Unknown(stream', known')
         /\ UNCHANGED <<pending, responding, resolved>>
    BY <1>1, <1>4, <2>7
  <2> QED
    BY <1>2, <1>3, <2>2, <2>7, <2>8, <2>9, <2>10, <2>11, <2>12, ReceiveKeeps
<1> QED
  BY <1>5, <1>6

(* A message is removed: no update of it is under way any more.             *)
LEMMA HandleRemovedKeeps ==
    ASSUME OpenCodeInv, RemovalInv, at = "loop", stream # <<>>, stream' = Tail(stream),
           UNCHANGED <<sessionVars, at, resumed, input, hydration, halted, readied, posts, crossed,
                       erred>>,
           Head(stream).type = "removed", HandleRemoved(Head(stream).id)
    PROVE  OpenCodeInv'
<1> DEFINE m == Head(stream).id
<1>1. /\ known' = known \ {m}
      /\ UNCHANGED <<pending, responding, turn, turns, working, outcomes, resolved>>
  BY DEF HandleRemoved
<1>2. Head(stream).type \notin {"asked", "replied", "idle", "message"}
  OBVIOUS
<1>3. ~HasOf(stream', "message", m)
  <2>1. stream \in Seq(SseEvent)
    BY SessionParts
  <2>2. m \in 1..MaxMessages
    BY InLoop, EventTyped
  <2>3. Before(stream, "message", "removed", m)
    BY <2>2 DEF RemovalInv
  <2> QED
    BY <2>1, <2>3, StreamShrinks
<1>4. /\ Has(stream', "idle") <=> Has(stream, "idle")
      /\ Unknown(stream, known) => Unknown(stream', known)
      /\ Harmless(stream, known) => Harmless(stream', known)
  BY <1>2, InLoop
<1>5. /\ Unknown(stream', known) => Unknown(stream', known')
      /\ Harmless(stream', known) => Harmless(stream', known')
  <2> HIDE DEF m
  <2>1. known' \subseteq known
    BY <1>1
  <2>2. \A i \in DOMAIN stream' : stream'[i].type = "message" => stream'[i].id # m
    BY <1>3 DEF HasOf
  <2>3. Unknown(stream', known) => Unknown(stream', known')
    BY <2>1 DEF Unknown
  <2>4. Harmless(stream', known) => Harmless(stream', known')
    BY <1>1, <2>2 DEF Harmless
  <2> QED
    BY <2>3, <2>4
<1>6. known' \subseteq 1..messages
  BY <1>1, InLoop
<1> HIDE DEF m
<1>7. \A t \in turn : IF t.armed THEN prompts # <<>> \/ Has(stream', "idle")
                      ELSE Owed \/ Unknown(stream', known')
  BY <1>4, <1>5, InLoop
<1>8. ~crossed /\ ~erred /\ OwnIn(prompts) =>
        /\ turn # {} /\ Harmless(stream', known')
        /\ Has(stream', "idle") => \A t \in turn : ~t.armed
  BY <1>4, <1>5, InLoop
<1> QED
  BY <1>1, <1>2, <1>6, <1>7, <1>8, InLoop, ReceiveKeeps

(* The other events leave the turn as it is.                                *)
LEMMA HandleEventKeeps ==
    ASSUME OpenCodeInv, RemovalInv, HandleEvent
    PROVE  OpenCodeInv'
<1> DEFINE e == Head(stream)
<1>1. /\ at = "loop" /\ stream # <<>> /\ stream' = Tail(stream)
      /\ UNCHANGED <<sessionVars, at, resumed, input, hydration, halted, readied, posts, crossed,
                     erred>>
  BY DEF HandleEvent
<1>2. CASE e.type = "idle" /\ HandleIdle
  BY <1>1, <1>2, HandleIdleKeeps
<1>3. CASE e.type = "error" /\ HandleError
  BY <1>1, <1>3, HandleErrorKeeps
<1>4. CASE e.type = "message" /\ HandleMessage(e.id)
  BY <1>1, <1>4, HandleMessageKeeps
<1>6. CASE e.type = "removed" /\ HandleRemoved(e.id)
  BY <1>1, <1>6, HandleRemovedKeeps
<1>5. CASE \/ /\ e.type \in {"busy", "answered"}
              /\ UNCHANGED <<known, pending, responding, turn, turns, working, outcomes, resolved>>
           \/ e.type = "asked" /\ HandleAsked(e.id)
           \/ e.type = "replied" /\ HandleReplied(e.id)
  <2>1. /\ UNCHANGED <<known, turn, turns, working, outcomes>>
        /\ e.type \notin {"idle", "message"}
        /\ pending' = IF e.type = "asked" THEN pending \cup {e.id}
                      ELSE IF e.type = "replied" THEN pending \ {e.id} ELSE pending
        /\ responding' = IF e.type = "replied" THEN responding \ {e.id} ELSE responding
        /\ resolved' \subseteq resolved \cup IF e.type = "replied" THEN {e.id} ELSE {}
    BY <1>5 DEF HandleAsked, HandleReplied
  <2>2. /\ Has(stream', "idle") <=> Has(stream, "idle")
        /\ Unknown(stream', known) <=> Unknown(stream, known)
        /\ Harmless(stream, known) => Harmless(stream', known)
    BY <1>1, <2>1, InLoop
  <2>3. \A t \in turn : IF t.armed THEN prompts # <<>> \/ Has(stream', "idle")
                        ELSE Owed \/ Unknown(stream', known)
    BY <1>1, <2>2, InLoop
  <2>4. ~crossed /\ ~erred /\ OwnIn(prompts) =>
          /\ turn # {} /\ Harmless(stream', known)
          /\ Has(stream', "idle") => \A t \in turn : ~t.armed
    BY <1>1, <2>2, InLoop
  <2> QED
    BY <1>1, <2>1, <2>3, <2>4, InLoop, ReceiveKeeps
<1> QED
  BY <1>2, <1>3, <1>4, <1>5, <1>6 DEF HandleEvent

LEMMA OpenCodeInitHolds ==
    ASSUME OpenCodeInit
    PROVE  OpenCodeInv
<1>1. OpenCodeTypeOK
  <2>1. /\ <<>> \in Seq({"own", "other"}) /\ <<>> \in Seq(SseEvent)
        /\ 0 \in 0..MaxMessages /\ 0 \in 0..0 /\ 0 \in 0..MaxTurns
    BY OpenCodeAssumption
  <2>2. Cardinality({}) = 0
    BY FS_EmptySet
  <2>3. posts \in [Permission -> Nat] /\ working \in [1..MaxTurns -> Nat]
    BY DEF OpenCodeInit
  <2>4. turn \subseteq OpenTurn /\ Cardinality(turn) <= 1
    BY <2>2 DEF OpenCodeInit
  <2>5. /\ prompts \in Seq({"own", "other"}) /\ stream \in Seq(SseEvent)
        /\ said \in 0..messages /\ messages \in 0..MaxMessages /\ turns \in 0..MaxTurns
    BY <2>1 DEF OpenCodeInit
  <2> QED
    BY <2>3, <2>4, <2>5 DEF OpenCodeInit, OpenCodeTypeOK
<1>2. /\ ~OwnIn(prompts) /\ \A p \in Permission : posts[p] = 0
      /\ working \in [1..MaxTurns -> Nat] /\ \A n \in 1..MaxTurns : working[n] = 0
  BY DEF OpenCodeInit, OwnIn
<1>3. SessionInv
  BY FS_EmptySet DEF OpenCodeInit, SessionInv
<1>4. EarlyInv
  BY <1>2 DEF OpenCodeInit, EarlyInv
<1>5. HistoryInv
  BY <1>2, WorkingFlat DEF OpenCodeInit, HistoryInv, Sending, WorkingFits, OutcomesFit, TurnsFit
<1>6. PermissionInv
  BY <1>2, StreamRest DEF OpenCodeInit, PermissionInv, Unasked
<1>7. TurnInv
  BY StreamRest DEF OpenCodeInit, TurnInv
<1>8. PromptInv
  BY <1>2, StreamRest DEF OpenCodeInit, PromptInv, OwnIn
<1> QED
  BY <1>1, <1>3, <1>4, <1>5, <1>6, <1>7, <1>8 DEF OpenCodeInv

LEMMA OpenCodeNextKeeps ==
    OpenCodeInv /\ RemovalInv /\ [OpenCodeNext]_openCodeVars => OpenCodeInv'
<1> SUFFICES ASSUME OpenCodeInv, RemovalInv, [OpenCodeNext]_openCodeVars PROVE OpenCodeInv'
  OBVIOUS
<1>1. CASE SessionNext
  BY <1>1, SessionNextKeeps
<1>2. CASE \E resume, withInput \in BOOLEAN : Start(resume, withInput)
  BY <1>2, StartKeepsOpen
<1>3. CASE HydrateNext
  BY <1>3, LoadKeeps, MergeEventKeeps, FinishResumeKeeps DEF HydrateNext
<1>4. CASE SendTurnCommand \/ SendStatus \/ SendFails
  BY <1>4, SendStepsKeep
<1>5. CASE SendMessages
  BY <1>5, SendMessagesKeeps
<1>6. CASE SendPost
  BY <1>6, SendPostKeeps
<1>7. CASE \E p \in Permission : RespondPermission(p)
  BY <1>7, RespondPermissionKeeps
<1>8. CASE AbortTurn \/ HandleQuestion
  BY <1>8, AbortTurnKeeps, HandleQuestionKeeps
<1>9. CASE HandleEvent
  BY <1>9, HandleEventKeeps
<1>10. CASE QuiesceTurns \/ TurnTimesOut \/ Ends \/ UNCHANGED openCodeVars
  <2>1. /\ at' \in {at, "ended"} /\ halted' \in BOOLEAN
        /\ UNCHANGED <<sessionVars, stream, resumed, input, hydration, known, pending, responding,
                       turn, turns, historyVars, crossed, erred>>
    BY <1>10, ActorParts DEF QuiesceTurns, TurnTimesOut, Ends, openCodeVars, actorVars
  <2> QED
    BY <2>1, HaltKeeps
<1> QED
  BY <1>1, <1>2, <1>3, <1>4, <1>5, <1>6, <1>7, <1>8, <1>9, <1>10 DEF OpenCodeNext

(* No update of a message follows its removal: one event more, one less.    *)
LEMMA RemovalGrows ==
    ASSUME OpenCodeInv, RemovalInv, NEW e \in SseEvent, Send(<<e>>), gone \subseteq gone',
           e.type = "message" => e.id \notin gone, e.type = "removed" => e.id \in gone'
    PROVE  RemovalInv'
<1>0. stream \in Seq(SseEvent)
  BY SessionParts
<1>1. CASE at = "start"
  BY <1>1 DEF Send, RemovalInv
<1>2. CASE at # "start"
  <2> DEFINE x == <<e>>
  <2>1. stream' = stream \o x
    BY <1>2 DEF Send
  <2>2. /\ x \in Seq(SseEvent)
        /\ \A type, m : HasOf(x, type, m) <=> (e.type = type /\ e.id = m)
        /\ \A m : Before(x, "message", "removed", m)
    BY OneEvent
  <2> HIDE DEF x
  <2>3. /\ \A type, m : HasOf(stream', type, m) <=> HasOf(stream, type, m) \/ HasOf(x, type, m)
        /\ \A m : Before(stream, "message", "removed", m) /\ Before(x, "message", "removed", m)
                    /\ ~(HasOf(stream, "removed", m) /\ HasOf(x, "message", m))
                  => Before(stream', "message", "removed", m)
    BY <1>0, <2>1, <2>2, StreamGrows
  <2> QED
    BY <2>2, <2>3 DEF RemovalInv
<1> QED
  BY <1>1, <1>2

LEMMA RemovalShrinks ==
    ASSUME OpenCodeInv, RemovalInv, stream # <<>>, stream' = Tail(stream), gone' = gone
    PROVE  RemovalInv'
<1>1. stream \in Seq(SseEvent)
  BY SessionParts
<1>2. /\ \A type, m : HasOf(stream', type, m) => HasOf(stream, type, m)
      /\ \A m : Before(stream, "message", "removed", m) => Before(stream', "message", "removed", m)
  BY <1>1, StreamShrinks
<1> QED
  BY <1>2 DEF RemovalInv

LEMMA RemovalAborted ==
    ASSUME OpenCodeInv, RemovalInv, at # "start", Aborted \/ UNCHANGED <<sessionVars, stream>>
    PROVE  RemovalInv'
<1>1. CASE Aborted
  BY <1>1, AbortedFacts DEF RemovalInv
<1>2. CASE UNCHANGED <<sessionVars, stream>>
  BY <1>2 DEF RemovalInv, sessionVars, messageVars
<1> QED
  BY <1>1, <1>2

LEMMA RemovalSession ==
    ASSUME OpenCodeInv, RemovalInv, SessionNext
    PROVE  RemovalInv'
<1>0. gone \subseteq 1..messages /\ messages \in 0..MaxMessages /\ MaxMessages \in Nat
  BY SessionParts
<1>1. CASE OtherPrompt \/ Begin
  BY <1>1 DEF OtherPrompt, Begin, messageVars, RemovalInv
<1>2. CASE TellBusy \/ TellError \/ GoIdle
  <2>1. PICK type \in {"busy", "error", "idle"} : Send(<<[type |-> type]>>) /\ gone' = gone
    BY <1>2 DEF TellBusy, TellError, GoIdle, sessionVars, messageVars
  <2> DEFINE e == [type |-> type]
  <2>2. e \in SseEvent /\ e.type \notin {"message", "removed"}
    BY EventTyped
  <2>3. Send(<<e>>)
    BY <2>1
  <2> HIDE DEF e
  <2> QED
    BY <2>1, <2>2, <2>3, RemovalGrows
<1>3. CASE NewMessage \/ ChangeMessage
  <2>1. PICK m \in 1..MaxMessages : /\ Send(<<[type |-> "message", id |-> m]>>)
                                    /\ gone' = gone /\ m \notin gone
    <3>1. CASE NewMessage
      <4>1. messages + 1 \in 1..MaxMessages /\ messages + 1 \notin gone
        BY <1>0, <3>1 DEF NewMessage
      <4> QED
        BY <3>1, <4>1 DEF NewMessage
    <3>2. CASE ChangeMessage
      <4>1. messages \in 1..MaxMessages
        BY <1>0, <3>2, SessionParts DEF ChangeMessage
      <4> QED
        BY <3>2, <4>1 DEF ChangeMessage, sessionVars, messageVars
    <3> QED
      BY <1>3, <3>1, <3>2
  <2> DEFINE e == [type |-> "message", id |-> m]
  <2>2. e \in SseEvent /\ e.type = "message" /\ e.id = m
    BY EventTyped
  <2>3. Send(<<e>>)
    BY <2>1
  <2> HIDE DEF e
  <2> QED
    BY <2>1, <2>2, <2>3, RemovalGrows
<1>4. CASE \E m \in 1..MaxMessages : RemoveMessage(m)
  <2>1. PICK m \in 1..MaxMessages : Send(<<[type |-> "removed", id |-> m]>>) /\ gone' = gone \cup {m}
    BY <1>4 DEF RemoveMessage
  <2> DEFINE e == [type |-> "removed", id |-> m]
  <2>2. e \in SseEvent /\ e.type = "removed" /\ e.id = m
    BY EventTyped
  <2>3. Send(<<e>>)
    BY <2>1
  <2> HIDE DEF e
  <2> QED
    BY <2>1, <2>2, <2>3, RemovalGrows
<1>5. CASE \E p \in Permission : Ask(p) \/ SettleElsewhere(p)
  <2>1. PICK type \in {"asked", "replied"}, p \in Permission :
           Send(<<[type |-> type, id |-> p]>>) /\ gone' = gone
    BY <1>5 DEF Ask, SettleElsewhere, messageVars
  <2> DEFINE e == [type |-> type, id |-> p]
  <2>2. e \in SseEvent /\ e.type \notin {"message", "removed"}
    BY EventTyped
  <2>3. Send(<<e>>)
    BY <2>1
  <2> HIDE DEF e
  <2> QED
    BY <2>1, <2>2, <2>3, RemovalGrows
<1>6. CASE \E q \in Question : AskQuestion(q) \/ AnswerQuestion(q)
  <2>1. PICK type \in {"question", "answered"}, q \in Question :
           Send(<<[type |-> type, id |-> q]>>) /\ gone' = gone
    BY <1>6 DEF AskQuestion, AnswerQuestion, messageVars
  <2> DEFINE e == [type |-> type, id |-> q]
  <2>2. e \in SseEvent /\ e.type \notin {"message", "removed"}
    BY EventTyped
  <2>3. Send(<<e>>)
    BY <2>1
  <2> HIDE DEF e
  <2> QED
    BY <2>1, <2>2, <2>3, RemovalGrows
<1> QED
  BY <1>1, <1>2, <1>3, <1>4, <1>5, <1>6 DEF SessionNext, SessionStep

LEMMA RemovalNext ==
    OpenCodeInv /\ RemovalInv /\ [OpenCodeNext]_openCodeVars => RemovalInv'
<1> SUFFICES ASSUME OpenCodeInv, RemovalInv, [OpenCodeNext]_openCodeVars PROVE RemovalInv'
  OBVIOUS
<1>1. CASE SessionNext
  BY <1>1, RemovalSession
<1>2. CASE MergeEvent \/ HandleEvent
  BY <1>2, RemovalShrinks DEF MergeEvent, HandleEvent, sessionVars, messageVars
<1>3. CASE FinishResume \/ AbortTurn \/ HandleQuestion
  <2>1. at # "start" /\ (Aborted \/ UNCHANGED <<sessionVars, stream>>)
    BY <1>3 DEF FinishResume, AbortTurn, HandleQuestion
  <2> QED
    BY <2>1, RemovalAborted
<1>4. CASE \E p \in Permission : RespondPermission(p)
  <2>1. PICK p \in Permission : /\ gone' = gone
                                /\ stream' = stream \/ Send(<<[type |-> "replied", id |-> p]>>)
    BY <1>4 DEF RespondPermission, messageVars
  <2> DEFINE e == [type |-> "replied", id |-> p]
  <2>2. e \in SseEvent /\ e.type = "replied"
    BY EventTyped
  <2>3. stream' = stream \/ Send(<<e>>)
    BY <2>1
  <2> HIDE DEF e
  <2>4. CASE stream' = stream
    BY <2>1, <2>4 DEF RemovalInv
  <2>5. CASE Send(<<e>>)
    BY <2>1, <2>2, <2>5, RemovalGrows
  <2> QED
    BY <2>3, <2>4, <2>5
<1>5. CASE \/ \E resume, withInput \in BOOLEAN : Start(resume, withInput)
           \/ LoadStatus("status1", "permissions") \/ LoadPermissions \/ LoadQuestions
           \/ LoadMessages("messages1", "merge1") \/ MergeDone
           \/ LoadMessages("messages2", "status2") \/ LoadStatus("status2", "merge2")
  <2>1. UNCHANGED <<sessionVars, stream>>
    BY <1>5 DEF Start, LoadStatus, LoadPermissions, LoadQuestions, LoadMessages, MergeDone, Wait
  <2> QED
    BY <2>1 DEF RemovalInv, sessionVars, messageVars
<1>6. CASE \/ SendTurnCommand \/ SendStatus \/ SendMessages \/ SendFails \/ SendPost
           \/ QuiesceTurns \/ TurnTimesOut \/ Ends \/ UNCHANGED openCodeVars
  <2>1. gone' = gone /\ stream' = stream
    BY <1>6 DEF SendTurnCommand, SendStatus, SendMessages, SendFails, SendPost, QuiesceTurns,
                TurnTimesOut, Ends, openCodeVars, sessionVars, messageVars
  <2> QED
    BY <2>1 DEF RemovalInv
<1> QED
  BY <1>1, <1>2, <1>3, <1>4, <1>5, <1>6 DEF OpenCodeNext, HydrateNext

LEMMA OpenCodeInvHolds == OpenCodeSpec => [](OpenCodeInv /\ RemovalInv)
<1>1. OpenCodeInit => OpenCodeInv /\ RemovalInv
  BY OpenCodeInitHolds, StreamRest DEF OpenCodeInit, RemovalInv
<1>2. OpenCodeInv /\ RemovalInv /\ [OpenCodeNext]_openCodeVars => (OpenCodeInv /\ RemovalInv)'
  BY OpenCodeNextKeeps, RemovalNext
<1> QED
  BY <1>1, <1>2, PTL DEF OpenCodeSpec

(***************************************************************************)
(* What the OpenCode actor and its session hold is always of its type: at   *)
(* most one turn is open and only permissions that are pending are being    *)
(* responded to.                                                            *)
(***************************************************************************)
THEOREM OpenCodeTypeHolds == OpenCodeSpec => []OpenCodeTypeOK
<1>1. OpenCodeInv => OpenCodeTypeOK
  BY DEF OpenCodeInv
<1> QED
  BY <1>1, OpenCodeInvHolds, PTL

(***************************************************************************)
(* No event of an earlier turn ends the prompt the actor sent, however many *)
(* of them are still under way when it is sent: the turn is shown until the *)
(* session has done it, unless an error was reported, somebody else's turn  *)
(* was in the way, or an update was under way of a message that had been    *)
(* removed.  What is reported Completed was reported Working, and nothing   *)
(* is reported Working twice.                                               *)
(***************************************************************************)
THEOREM OwnTurnIsShownHolds == OpenCodeSpec => []OwnTurnIsShown
<1>1. OpenCodeInv => OwnTurnIsShown
  BY DEF OpenCodeInv, HistoryInv, WorkingFits, OutcomesFit, PromptInv, OwnIn, OwnTurnIsShown
<1> QED
  BY <1>1, OpenCodeInvHolds, PTL

(***************************************************************************)
(* When all events are received the actor agrees with the session, whatever *)
(* raced with the snapshots of a resume; a permission is answered at most   *)
(* once, and reported resolved only when it is settled.                     *)
(***************************************************************************)
THEOREM QuietAgreesHolds == OpenCodeSpec => []QuietAgrees
<1>1. ASSUME OpenCodeInv PROVE QuietAgrees
  <2>0. /\ SessionInv /\ HistoryInv /\ PermissionInv /\ TurnInv /\ asked \subseteq Permission
        /\ pending \subseteq Permission
    BY <1>1, SessionParts, ActorParts
  <2>1. resolved \subseteq settled /\ \A p \in Permission : posts[p] <= 1
    BY <2>0 DEF HistoryInv, PermissionInv
  <2>2. ASSUME at = "loop", stream = <<>> PROVE pending = asked /\ (prompts = <<>> => turn = {})
    <3>1. /\ \A type : ~Has(stream, type)
          /\ \A type, p : ~HasOf(stream, type, p)
          /\ \A k : ~Unknown(stream, k)
      BY <2>2, StreamRest
    <3>2. \A p \in Permission : p \in pending <=> p \in asked
      BY <2>0, <2>2, <3>1 DEF PermissionInv, Unasked
    <3>3. prompts = <<>> => ~Owed
      BY DEF Owed
    <3>4. prompts = <<>> => turn = {}
      BY <2>0, <2>2, <3>1, <3>3 DEF TurnInv
    <3> QED
      BY <2>0, <3>2, <3>4
  <2> QED
    BY <2>1, <2>2 DEF QuietAgrees
<1> QED
  BY <1>1, OpenCodeInvHolds, PTL

-----------------------------------------------------------------------------
(***************************************************************************)
(* The inductive invariant of EventSubscriptions.  A look is in the past:   *)
(* of an earlier moment than now, or just what the pane shows.  The hub     *)
(* holds the last events, numbered without a gap and with growing moments.  *)
(* What the client was told lies before every event it has not read; the    *)
(* look of the first probe is told only while nothing else was; and a       *)
(* snapshot that is compared is later than, or equal to, what was told.     *)
(***************************************************************************)
InPast(x, now, shown) == x.moment <= now /\ (x.moment = now => x = shown)
Past(x) == InPast(x, moment, Seen)

HubInv ==
    /\ Len(ring) = IF pushed < RingSize THEN pushed ELSE RingSize
    /\ \A k \in DOMAIN ring : /\ ring[k].seq = (pushed - Len(ring)) + k
                              /\ ring[k].kind = kinds[ring[k].seq]
    /\ \A k \in DOMAIN ring : ring[k].kind = "status" => Past(ring[k].what)
    /\ \A j, k \in DOMAIN ring :
         j < k /\ ring[j].kind = "status" /\ ring[k].kind = "status"
           => ring[j].what.moment < ring[k].what.moment

Unheard(k) == ring[k].kind = "status" /\ ring[k].seq > lastSequence

ToldInv ==
    /\ told # None =>
         /\ Past(told)
         /\ \A k \in DOMAIN ring : Unheard(k) => ring[k].what.moment > told.moment
    /\ initialEvent # None => told = None /\ Past(initialEvent)
    /\ stage \in {"idle", "probe", "events"} => initialEvent = None /\ told = None
    /\ stage \in {"get", "compare"} => initialEvent = None
    /\ stage = "compare" =>
         /\ snapshot \in Sight /\ Past(snapshot)
         /\ told # None => snapshot.moment > told.moment \/ snapshot = told

EventsInv == EventsTypeOK /\ HubInv /\ ToldInv

(***************************************************************************)
(* Why nothing is told twice: the look that a snapshot is compared with is  *)
(* the one that was told last, unless the pane has changed since.           *)
(***************************************************************************)
LastInv ==
    /\ told # None => lastLook = told.look \/ moment > told.moment
    /\ initialEvent # None /\ ~saw => lastLook = initialEvent.look
    /\ stage # "check" => ~saw
    /\ stage = "compare" /\ told # None =>
         snapshot.moment > told.moment \/ lastLook = snapshot.look

(* Every nonempty set of naturals has a least element.                      *)
LEMMA LeastNat ==
    ASSUME NEW S, S \subseteq Nat, S # {}
    PROVE  \E x \in S : \A y \in S : x <= y
<1> DEFINE R == OpToRel(<, Nat)
<1>1. IsWellFoundedOn(R, Nat)
  BY NatLessThanWellFounded
<1>2. \A x, y \in Nat : y < x => <<y, x>> \in R
  BY DEF OpToRel
<1> HIDE DEF R
<1>3. PICK x \in S : \A y \in S : ~(<<y, x>> \in R)
  BY <1>1, WFMin
<1>4. ASSUME NEW y \in S PROVE x <= y
  <2>1. x \in Nat /\ y \in Nat /\ ~(y < x)
    BY <1>2, <1>3
  <2> QED
    BY <2>1
<1> QED
  BY <1>4

(* What an event of the hub carries.                                        *)
LEMMA EventFields ==
    /\ \A e \in HubEvent : /\ e.seq \in 1..MaxPushed /\ e.kind \in {"status", "other"}
                           /\ e.kind = "status" => e.what \in Sight
    /\ \A s \in Sight : /\ s.look \in Look /\ s.moment \in 0..MaxMoments
                        /\ \A r \in Sight : s.look = r.look /\ s.moment = r.moment => s = r
    /\ MaxPushed \in Nat /\ MaxMoments \in Nat /\ RingSize \in Nat /\ RingSize > 0
  BY RingAssumption DEF HubEvent, Sight

(* The first and the last of some events of the hub.                        *)
LEMMA FirstLatest ==
    ASSUME NEW E \in SUBSET HubEvent, E # {}
    PROVE  /\ First(E) \in E /\ \A d \in E : First(E).seq <= d.seq
           /\ Latest(E) \in E /\ \A d \in E : d.seq <= Latest(E).seq
<1>1. \A e \in E : e.seq \in 1..MaxPushed
  BY EventFields
<1>2. MaxPushed \in Nat
  BY RingAssumption
<1>3. \E e \in E : \A d \in E : e.seq <= d.seq
  <2> DEFINE S == {e.seq : e \in E}
  <2>1. S \subseteq Nat /\ S # {}
    BY <1>1, <1>2
  <2>2. PICK x \in S : \A y \in S : x <= y
    BY <2>1, LeastNat
  <2> QED
    BY <2>2
<1>4. \E e \in E : \A d \in E : d.seq <= e.seq
  <2> DEFINE S == {MaxPushed - e.seq : e \in E}
  <2>1. S \subseteq Nat /\ S # {}
    BY <1>1, <1>2
  <2>2. PICK x \in S : \A y \in S : x <= y
    BY <2>1, LeastNat
  <2>3. PICK e \in E : x = MaxPushed - e.seq
    OBVIOUS
  <2>4. ASSUME NEW d \in E PROVE d.seq <= e.seq
    <3>1. MaxPushed - e.seq <= MaxPushed - d.seq
      BY <2>2, <2>3
    <3> QED
      BY <1>1, <1>2, <3>1
  <2> QED
    BY <2>4
<1> QED
  BY <1>3, <1>4 DEF First, Latest

(* A look stays in the past when time goes on or what is shown stays.       *)
LEMMA PastStays ==
    ASSUME NEW x \in Sight, Past(x), moment \in Nat,
           moment' = moment + 1 \/ (moment' = moment /\ Seen' = Seen)
    PROVE  InPast(x, moment', Seen')
<1>1. x.moment \in Nat
  BY EventFields
<1>2. CASE moment' = moment + 1
  BY <1>1, <1>2 DEF Past, InPast
<1>3. CASE moment' = moment /\ Seen' = Seen
  BY <1>3 DEF Past
<1> QED
  BY <1>2, <1>3

(* What push makes of the hub: the new event comes last, the first one goes *)
(* when the hub is full.                                                    *)
LEMMA PushFacts ==
    ASSUME EventsInv, NEW kind \in {"status", "other"}, NEW what,
           kind = "status" => what \in Sight, kind = "other" => what = None,
           push(kind, what)
    PROVE  /\ pushed' \in 0..MaxPushed /\ pushed' = pushed + 1
           /\ ring' \in Seq(HubEvent) /\ Len(ring') <= RingSize
           /\ kinds' \in Seq({"status", "other"}) /\ Len(kinds') = pushed'
           /\ Len(ring') = IF pushed' < RingSize THEN pushed' ELSE RingSize
           /\ \A k \in DOMAIN ring' : /\ ring'[k].seq = (pushed' - Len(ring')) + k
                                      /\ ring'[k].kind = kinds'[ring'[k].seq]
           /\ \A k \in DOMAIN ring' :
                \/ k = Len(ring') /\ ring'[k] = [seq |-> pushed + 1, kind |-> kind, what |-> what]
                \/ \E j \in DOMAIN ring : ring'[k] = ring[j]
<1> DEFINE new == [seq |-> pushed + 1, kind |-> kind, what |-> what]
           all == Append(ring, new)
           d == IF Len(all) > RingSize THEN 1 ELSE 0
<1>0. /\ pushed \in Nat /\ ring \in Seq(HubEvent) /\ kinds \in Seq({"status", "other"})
      /\ Len(ring) = (IF pushed < RingSize THEN pushed ELSE RingSize) /\ Len(kinds) = pushed
      /\ \A k \in DOMAIN ring : /\ ring[k].seq = (pushed - Len(ring)) + k
                                /\ ring[k].kind = kinds[ring[k].seq]
      /\ RingSize \in Nat /\ RingSize > 0 /\ MaxPushed \in Nat
  BY EventFields DEF EventsInv, EventsTypeOK, HubInv
<1>1. /\ pushed < MaxPushed /\ pushed' = pushed + 1 /\ kinds' = Append(kinds, kind)
      /\ ring' = IF Len(all) > RingSize THEN Tail(all) ELSE all
  BY DEF push
<1>2. new \in HubEvent /\ new.seq = pushed + 1 /\ new.kind = kind
  BY <1>0, <1>1 DEF HubEvent
<1> HIDE DEF new
<1>3. /\ all \in Seq(HubEvent) /\ Len(all) = Len(ring) + 1
      /\ \A k \in 1..Len(ring) : all[k] = ring[k]
      /\ all[Len(ring) + 1] = new
  BY <1>0, <1>2
<1> HIDE DEF all
<1>4. /\ ring' \in Seq(HubEvent) /\ Len(ring') = (Len(ring) + 1) - d
      /\ \A k \in 1..Len(ring') : ring'[k] = all[k + d]
      /\ d \in {0, 1}
  BY <1>0, <1>1, <1>3
<1>5. /\ Len(ring') = IF pushed' < RingSize THEN pushed' ELSE RingSize
      /\ pushed' \in 0..MaxPushed /\ Len(ring') <= RingSize
  BY <1>0, <1>1, <1>3, <1>4
<1> HIDE DEF d
<1>a. /\ d \in Nat /\ Len(ring) \in Nat /\ Len(ring) <= pushed /\ pushed \in Nat
      /\ Len(ring') = (Len(ring) + 1) - d /\ pushed' = pushed + 1
  BY <1>0, <1>1, <1>4
<1>6. /\ kinds' \in Seq({"status", "other"}) /\ Len(kinds') = pushed'
      /\ \A n \in 1..pushed : kinds'[n] = kinds[n]
      /\ kinds'[pushed + 1] = kind
  <2>1. /\ kinds \in Seq({"status", "other"}) /\ Len(kinds) = pushed /\ pushed \in Nat
        /\ kinds' = Append(kinds, kind) /\ pushed' = pushed + 1
    BY <1>0, <1>1
  <2> QED
    BY <2>1
<1>7. ASSUME NEW k \in DOMAIN ring'
      PROVE  \/ k = Len(ring') /\ ring'[k] = new
             \/ k + d \in DOMAIN ring /\ ring'[k] = ring[k + d]
  <2>1. k \in 1..Len(ring') /\ Len(ring) \in Nat /\ DOMAIN ring = 1..Len(ring)
    BY <1>0, <1>4
  <2>2. CASE k + d = Len(ring) + 1
    BY <1>3, <1>4, <2>1, <2>2
  <2>3. CASE k + d # Len(ring) + 1
    BY <1>3, <1>4, <2>1, <2>3
  <2> QED
    BY <2>2, <2>3
<1>8. ASSUME NEW k \in DOMAIN ring'
      PROVE  /\ ring'[k].seq = (pushed' - Len(ring')) + k
             /\ ring'[k].kind = kinds'[ring'[k].seq]
  <2>1. k \in 1..Len(ring') /\ Len(ring) \in Nat
    BY <1>0, <1>4
  <2>2. CASE k = Len(ring') /\ ring'[k] = new
    <3>1. ring'[k].seq = pushed + 1 /\ ring'[k].kind = kind
      BY <1>2, <2>2
    <3>2. (pushed' - Len(ring')) + k = pushed + 1
      BY <1>0, <1>1, <1>5, <2>1, <2>2
    <3> QED
      BY <1>6, <3>1, <3>2
  <2>3. CASE k + d \in DOMAIN ring /\ ring'[k] = ring[k + d]
    <3>1. ring[k + d].seq = (pushed - Len(ring)) + (k + d)
      BY <1>0, <2>3
    <3>2. ring[k + d].seq \in 1..pushed
      <4>1. k + d \in 1..Len(ring) /\ k \in Nat
        BY <1>0, <2>1, <2>3
      <4> QED
        BY <1>a, <3>1, <4>1
    <3>3. (pushed' - Len(ring')) + k = (pushed - Len(ring)) + (k + d)
      <4>1. k \in Nat
        BY <2>1
      <4> QED
        BY <1>a, <4>1
    <3>4. ring[k + d].kind = kinds[ring[k + d].seq]
      BY <1>0, <2>3
    <3> QED
      BY <1>6, <2>3, <3>1, <3>2, <3>3, <3>4
  <2> QED
    BY <1>7, <2>2, <2>3
<1> QED
  BY <1>1, <1>4, <1>5, <1>6, <1>7, <1>8 DEF new

(* What is told and compared stays in the past while the application works. *)
LEMMA ToldStays ==
    ASSUME EventsInv, UNCHANGED <<stage, pollVars>>,
           moment' = moment + 1 \/ (moment' = moment /\ Seen' = Seen),
           ring' \in Seq(HubEvent),
           \A k \in DOMAIN ring' :
             \/ ring'[k].kind = "status" => ring'[k].what \in Sight /\ ring'[k].what.moment = moment + 1
             \/ \E j \in DOMAIN ring : ring'[k] = ring[j]
    PROVE  ToldInv'
<1>0. /\ moment \in Nat /\ EventsTypeOK /\ ToldInv /\ ring \in Seq(HubEvent)
      /\ told \in Sight \cup {None} /\ initialEvent \in Sight \cup {None}
  BY RingAssumption DEF EventsInv, EventsTypeOK, SeenType
<1>1. ASSUME NEW x \in Sight, Past(x) PROVE InPast(x, moment', Seen')
  BY <1>0, <1>1, PastStays
<1>2. ASSUME told # None, NEW k \in DOMAIN ring', Unheard(k)'
      PROVE  ring'[k].what.moment > told.moment
  <2>1. told \in Sight /\ told.moment \in Nat /\ told.moment <= moment
    BY <1>0, <1>2, EventFields DEF ToldInv, Past, InPast
  <2>2. CASE ring'[k].kind = "status" => ring'[k].what \in Sight /\ ring'[k].what.moment = moment + 1
    BY <1>0, <1>2, <2>1, <2>2 DEF Unheard
  <2>3. CASE \E j \in DOMAIN ring : ring'[k] = ring[j]
    <3>1. PICK j \in DOMAIN ring : ring'[k] = ring[j]
      BY <2>3
    <3>2. Unheard(j)
      BY <1>2, <3>1 DEF Unheard, pollVars, client
    <3> QED
      BY <1>0, <1>2, <3>1, <3>2 DEF ToldInv
  <2> QED
    BY <2>2, <2>3
<1>3. UNCHANGED <<stage, told, initialEvent, snapshot, lastSequence>>
  BY DEF pollVars, client
<1>4. told # None => InPast(told, moment', Seen')
  BY <1>0, <1>1 DEF ToldInv
<1>5. initialEvent # None => told = None /\ InPast(initialEvent, moment', Seen')
  BY <1>0, <1>1 DEF ToldInv
<1>6. stage = "compare" => snapshot \in Sight /\ InPast(snapshot, moment', Seen')
  BY <1>0, <1>1 DEF ToldInv
<1>7. /\ told' # None => /\ Past(told)'
                         /\ \A k \in DOMAIN ring' : Unheard(k)' => ring'[k].what.moment > told'.moment
      /\ initialEvent' # None => told' = None /\ Past(initialEvent)'
  BY <1>2, <1>3, <1>4, <1>5 DEF Past
<1>8. stage' = "compare" =>
         /\ snapshot' \in Sight /\ Past(snapshot)'
         /\ told' # None => snapshot'.moment > told'.moment \/ snapshot' = told'
  BY <1>0, <1>3, <1>6 DEF ToldInv, Past
<1>9. /\ stage' \in {"idle", "probe", "events"} => initialEvent' = None /\ told' = None
      /\ stage' \in {"get", "compare"} => initialEvent' = None
  BY <1>0, <1>3 DEF ToldInv
<1> QED
  BY <1>7, <1>8, <1>9 DEF ToldInv

(* The invariant of the hub and of what is told through a push.             *)
LEMMA PushKeeps ==
    ASSUME EventsInv, NEW kind \in {"status", "other"}, NEW what, push(kind, what),
           kind = "other" => what = None,
           kind = "status" => what \in Sight /\ what = Seen' /\ what.moment = moment + 1,
           moment' = moment + 1 \/ (moment' = moment /\ Seen' = Seen),
           UNCHANGED <<stage, pollVars>>
    PROVE  HubInv' /\ ToldInv'
<1> DEFINE new == [seq |-> pushed + 1, kind |-> kind, what |-> what]
<1>0. /\ moment \in Nat /\ ring \in Seq(HubEvent)
      /\ \A k \in DOMAIN ring : ring[k] \in HubEvent
      /\ \A k \in DOMAIN ring : ring[k].kind = "status" => ring[k].what \in Sight
      /\ HubInv
  BY RingAssumption, EventFields DEF EventsInv, EventsTypeOK
<1>1. /\ ring' \in Seq(HubEvent)
      /\ Len(ring') = IF pushed' < RingSize THEN pushed' ELSE RingSize
      /\ \A k \in DOMAIN ring' : /\ ring'[k].seq = (pushed' - Len(ring')) + k
                                 /\ ring'[k].kind = kinds'[ring'[k].seq]
      /\ \A k \in DOMAIN ring' :
           \/ k = Len(ring') /\ ring'[k] = new
           \/ \E j \in DOMAIN ring : ring'[k] = ring[j]
      /\ pushed' = pushed + 1 /\ Len(ring') \in Nat /\ DOMAIN ring' = 1..Len(ring')
  BY PushFacts
<1>2. new.kind = kind /\ new.what = what /\ new.seq = pushed + 1
  OBVIOUS
<1> HIDE DEF new
<1>3. ToldInv'
  <2>1. \A k \in DOMAIN ring' :
          \/ ring'[k].kind = "status" => ring'[k].what \in Sight /\ ring'[k].what.moment = moment + 1
          \/ \E j \in DOMAIN ring : ring'[k] = ring[j]
    BY <1>1, <1>2
  <2> QED
    BY <1>1, <2>1, ToldStays
<1>4. ASSUME NEW k \in DOMAIN ring', ring'[k].kind = "status"
      PROVE  InPast(ring'[k].what, moment', Seen')
  <2>1. CASE ring'[k] = new
    <3>1. what = Seen' /\ what.moment = moment'
      BY <1>2, <1>4, <2>1 DEF Seen
    <3> QED
      BY <1>0, <1>2, <2>1, <3>1 DEF InPast
  <2>2. CASE \E j \in DOMAIN ring : ring'[k] = ring[j]
    <3>1. PICK j \in DOMAIN ring : ring'[k] = ring[j]
      BY <2>2
    <3>2. ring[j].what \in Sight /\ Past(ring[j].what)
      BY <1>0, <1>4, <3>1 DEF HubInv
    <3> QED
      BY <1>0, <3>1, <3>2, PastStays
  <2> QED
    BY <1>1, <2>1, <2>2
<1>5. ASSUME NEW j \in DOMAIN ring', NEW k \in DOMAIN ring', j < k,
             ring'[j].kind = "status", ring'[k].kind = "status"
      PROVE  ring'[j].what.moment < ring'[k].what.moment
  <2>1. j # Len(ring') /\ j \in Nat /\ k \in Nat
    BY <1>1, <1>5
  <2>2. PICK i \in DOMAIN ring : ring'[j] = ring[i]
    BY <1>1, <2>1
  <2>3. CASE k = Len(ring') /\ ring'[k] = new
    <3>1. ring[i].what.moment \in Nat /\ ring[i].what.moment <= moment
      BY <1>0, <1>5, <2>2, EventFields DEF HubInv, Past, InPast
    <3>2. ring'[k].what.moment = moment + 1
      BY <1>2, <1>5, <2>3
    <3> QED
      BY <1>0, <2>2, <3>1, <3>2
  <2>4. CASE \E m \in DOMAIN ring : ring'[k] = ring[m]
    <3>1. PICK m \in DOMAIN ring : ring'[k] = ring[m]
      BY <2>4
    <3>2. i \in Nat /\ m \in Nat /\ Len(ring) \in Nat /\ pushed \in Nat /\ pushed' \in Nat
      BY <1>0, <1>1 DEF EventsInv, EventsTypeOK
    <3>3. /\ ring[i].seq = (pushed - Len(ring)) + i /\ ring[m].seq = (pushed - Len(ring)) + m
          /\ ring[i].seq = (pushed' - Len(ring')) + j /\ ring[m].seq = (pushed' - Len(ring')) + k
      BY <1>0, <1>1, <2>2, <3>1 DEF HubInv
    <3>4. i < m
      <4>1. Len(ring') \in Nat /\ j \in Nat /\ k \in Nat /\ j < k
        BY <1>1, <1>5, <2>1
      <4> QED
        BY <3>2, <3>3, <4>1
    <3> QED
      BY <1>0, <1>5, <2>2, <3>1, <3>4 DEF HubInv
  <2> QED
    BY <1>1, <2>3, <2>4
<1> QED
  BY <1>1, <1>3, <1>4, <1>5 DEF HubInv, Past

(* Without a push the hub's invariant stays while what is shown does, or    *)
(* time goes on.                                                            *)
LEMMA HubStays ==
    ASSUME EventsInv, UNCHANGED hubVars,
           moment' = moment + 1 \/ (moment' = moment /\ Seen' = Seen)
    PROVE  HubInv'
<1>0. /\ moment \in Nat /\ ring \in Seq(HubEvent) /\ HubInv
      /\ ring' = ring /\ pushed' = pushed /\ kinds' = kinds
      /\ \A k \in DOMAIN ring : ring[k].kind = "status" => ring[k].what \in Sight
  BY RingAssumption, EventFields DEF EventsInv, EventsTypeOK, hubVars
<1>1. ASSUME NEW k \in DOMAIN ring, ring[k].kind = "status"
      PROVE  InPast(ring[k].what, moment', Seen')
  BY <1>0, <1>1, PastStays DEF HubInv
<1> QED
  BY <1>0, <1>1 DEF HubInv, Past

(* What the pane shows has its type.                                        *)
LEMMA SeenTyped ==
    /\ EventsTypeOK => PaneLook \in Look /\ Seen \in Sight /\ Seen.moment = moment
    /\ \A a \in AgentState, v \in BOOLEAN, t \in Title : LookOf(a, v, t) \in Look
<1>1. \A a \in AgentState, v \in BOOLEAN, t \in Title : LookOf(a, v, t) \in Look
  BY DEF LookOf, Look, pane_agent_status, Status
<1>2. EventsTypeOK => PaneLook \in Look
  BY <1>1 DEF EventsTypeOK, PaneLook
<1> QED
  BY <1>1, <1>2 DEF EventsTypeOK, Seen, Sight

LEMMA UpdatePaneKeeps ==
    ASSUME EventsInv, NEW state \in AgentState, NEW shown \in Title,
           NEW active \in BOOLEAN, NEW labelKept \in BOOLEAN,
           UpdatePane(state, shown, active, labelKept)
    PROVE  EventsInv' /\ UNCHANGED <<stage, pollVars>>
<1> DEFINE v == IF state # "Idle" THEN TRUE
                ELSE IF Completion(agent, state, labelKept) THEN active ELSE viewed
           look == LookOf(state, v, shown)
<1>0. EventsTypeOK /\ moment \in 0..MaxMoments /\ moment \in Nat
  BY RingAssumption DEF EventsInv, EventsTypeOK
<1>1. /\ agent' = state /\ title' = shown /\ viewed' = v
      /\ emit_pane_state_update(look)
      /\ UNCHANGED <<stage, pollVars, fixed>>
  BY DEF UpdatePane
<1>2. v \in BOOLEAN
  BY <1>0 DEF EventsTypeOK
<1>3. look = PaneLook' /\ look \in Look
  BY <1>1, <1>2, SeenTyped DEF PaneLook
<1> HIDE DEF v, look
<1>4. CASE look # PaneLook
  <2> DEFINE what == [look |-> look, moment |-> moment + 1]
  <2>1. /\ moment < MaxMoments /\ moment' = moment + 1
        /\ push("status", what)
    BY <1>1, <1>4 DEF emit_pane_state_update
  <2>2. what \in Sight /\ what = Seen' /\ what.moment = moment + 1
    BY <1>0, <1>3, <2>1, RingAssumption DEF Sight, Seen
  <2> HIDE DEF what
  <2>3. HubInv' /\ ToldInv'
    <3>1. moment' = moment + 1 \/ (moment' = moment /\ Seen' = Seen)
      BY <2>1
    <3>2. UNCHANGED <<stage, pollVars>>
      BY <1>1
    <3> QED
      BY <2>1, <2>2, <3>1, <3>2, PushKeeps
  <2>4. /\ pushed' \in 0..MaxPushed /\ pushed' = pushed + 1
        /\ ring' \in Seq(HubEvent) /\ Len(ring') <= RingSize
        /\ kinds' \in Seq({"status", "other"}) /\ Len(kinds') = pushed'
    BY <2>1, <2>2, PushFacts
  <2>5. moment' \in 0..MaxMoments /\ lastSequence' \in 0..pushed'
    <3>1. lastSequence \in 0..pushed /\ lastSequence' = lastSequence /\ pushed \in Nat
      BY <1>0, <1>1, RingAssumption DEF EventsTypeOK, pollVars, client
    <3> QED
      BY <1>0, <2>1, <2>4, <3>1, RingAssumption
  <2>6. EventsTypeOK'
    BY <1>0, <1>1, <1>2, <2>4, <2>5 DEF EventsTypeOK, pollVars, client, fixed
  <2> QED
    BY <1>1, <2>3, <2>6 DEF EventsInv
<1>5. CASE look = PaneLook
  <2>1. UNCHANGED <<moment, hubVars>>
    BY <1>1, <1>5 DEF emit_pane_state_update
  <2>2. moment' = moment /\ Seen' = Seen
    BY <1>3, <1>5, <2>1 DEF Seen
  <2>3. ring' = ring /\ ring \in Seq(HubEvent)
    BY <1>0, <2>1 DEF hubVars, EventsTypeOK
  <2>4. HubInv' /\ ToldInv'
    BY <1>1, <2>1, <2>2, <2>3, HubStays, ToldStays
  <2>5. EventsTypeOK'
    BY <1>0, <1>1, <1>2, <2>1 DEF EventsTypeOK, pollVars, client, fixed, hubVars
  <2> QED
    BY <1>1, <2>4, <2>5 DEF EventsInv
<1> QED
  BY <1>4, <1>5

LEMMA MarkSeenKeeps ==
    ASSUME EventsInv, MarkSeen
    PROVE  EventsInv' /\ UNCHANGED <<stage, pollVars>>
<1>0. EventsTypeOK /\ moment \in 0..MaxMoments /\ MaxMoments \in Nat /\ ring \in Seq(HubEvent)
  BY RingAssumption DEF EventsInv, EventsTypeOK
<1>1. /\ moment < MaxMoments /\ moment' = moment + 1 /\ viewed' = TRUE
      /\ UNCHANGED <<agent, title, hubVars, stage, pollVars, fixed>>
  BY DEF MarkSeen
<1>2. ring' = ring
  BY <1>1 DEF hubVars
<1>3. HubInv' /\ ToldInv'
  <2>1. moment' = moment + 1 \/ (moment' = moment /\ Seen' = Seen)
    BY <1>1
  <2>2. UNCHANGED <<stage, pollVars>> /\ UNCHANGED hubVars
    BY <1>1
  <2>3. HubInv'
    BY <2>1, <2>2, HubStays
  <2> QED
    BY <1>0, <1>2, <2>1, <2>2, <2>3, ToldStays
<1>4. moment' \in 0..MaxMoments
  BY <1>0, <1>1
<1>5. EventsTypeOK'
  BY <1>0, <1>1, <1>4 DEF EventsTypeOK, pollVars, client, fixed, hubVars
<1> QED
  BY <1>1, <1>3, <1>5 DEF EventsInv

LEMMA EmitOtherKeeps ==
    ASSUME EventsInv, EmitOther
    PROVE  EventsInv' /\ UNCHANGED <<stage, pollVars>>
<1>0. EventsTypeOK
  BY DEF EventsInv
<1>1. push("other", None) /\ UNCHANGED <<paneVars, stage, pollVars, fixed>>
  BY DEF EmitOther
<1>2. moment' = moment /\ Seen' = Seen
  BY <1>1 DEF paneVars, Seen, PaneLook
<1>3. HubInv' /\ ToldInv'
  <2>1. "other" # "status"
    OBVIOUS
  <2> QED
    BY <1>1, <1>2, <2>1, PushKeeps
<1>4. /\ pushed' \in 0..MaxPushed /\ pushed' = pushed + 1
      /\ ring' \in Seq(HubEvent) /\ Len(ring') <= RingSize
      /\ kinds' \in Seq({"status", "other"}) /\ Len(kinds') = pushed'
  <2>1. "other" # "status"
    OBVIOUS
  <2> QED
    BY <1>1, <2>1, PushFacts
<1>5. lastSequence' \in 0..pushed'
  <2>1. lastSequence \in 0..pushed /\ lastSequence' = lastSequence /\ pushed \in Nat
    BY <1>0, <1>1, RingAssumption DEF EventsTypeOK, pollVars, client
  <2> QED
    BY <1>4, <2>1
<1>6. EventsTypeOK'
  BY <1>0, <1>1, <1>4, <1>5 DEF EventsTypeOK, paneVars, pollVars, client, fixed
<1> QED
  BY <1>1, <1>3, <1>6 DEF EventsInv

(* The subscriber's own steps leave the pane and the hub as they are.       *)
LEMMA ReaderStep ==
    ASSUME EventsInv, UNCHANGED <<paneVars, hubVars>>
    PROVE  /\ UNCHANGED <<agent, viewed, title, moment, pushed, ring, kinds>>
           /\ Seen' = Seen /\ HubInv'
<1>1. UNCHANGED <<agent, viewed, title, moment, pushed, ring, kinds>>
  BY DEF paneVars, hubVars
<1>2. Seen' = Seen
  BY <1>1 DEF Seen, PaneLook
<1> QED
  BY <1>1, <1>2, HubStays

LEMMA SubscribeKeeps ==
    ASSUME EventsInv, NEW w \in BOOLEAN, NEW f \in Status \cup {None}, Subscribe(w, f)
    PROVE  EventsInv' /\ told' = told
<1>1. /\ stage = "idle" /\ stage' = "probe" /\ wait' = w /\ wanted' = f /\ lastSequence' = pushed
      /\ UNCHANGED <<paneVars, hubVars, lastLook, initialEvent, saw, snapshot, base, told,
                     tells>>
  BY DEF Subscribe, client
<1>2. /\ UNCHANGED <<agent, viewed, title, moment, pushed, ring, kinds>>
      /\ Seen' = Seen /\ HubInv'
  BY <1>1, ReaderStep
<1>3. EventsTypeOK' /\ told = None /\ initialEvent = None
  BY <1>1, <1>2, RingAssumption DEF EventsInv, EventsTypeOK, ToldInv
<1>4. ToldInv'
  BY <1>1, <1>3 DEF ToldInv
<1> QED
  BY <1>1, <1>2, <1>3, <1>4 DEF EventsInv

LEMMA ProbeKeeps ==
    ASSUME EventsInv, Probe
    PROVE  EventsInv' /\ told' = told
<1>1. /\ stage = "probe" /\ stage' = "top" /\ base' = PaneLook /\ lastLook' = PaneLook
      /\ initialEvent' \in {Seen, None}
      /\ UNCHANGED <<paneVars, hubVars, lastSequence, saw, snapshot, told, tells, wait, wanted>>
  BY DEF Probe, client
<1>2. /\ UNCHANGED <<agent, viewed, title, moment, pushed, ring, kinds>>
      /\ Seen' = Seen /\ HubInv'
  BY <1>1, ReaderStep
<1>3. PaneLook \in Look /\ Seen \in Sight /\ told = None /\ Seen.moment = moment /\ moment \in Nat
  BY <1>1, SeenTyped, RingAssumption DEF EventsInv, EventsTypeOK, ToldInv
<1>4. EventsTypeOK'
  BY <1>1, <1>2, <1>3 DEF EventsInv, EventsTypeOK, SeenType
<1>5. initialEvent' # None => Past(initialEvent)'
  BY <1>1, <1>2, <1>3 DEF Past, InPast
<1>6. ToldInv'
  BY <1>1, <1>3, <1>5 DEF ToldInv
<1> QED
  BY <1>1, <1>2, <1>4, <1>6 DEF EventsInv

(* What a step of the subscriber may tell.                                  *)
Forward == told # None /\ told' # told => told'.moment > told.moment

(* The events a poll is given.                                              *)
LEMMA BatchFacts ==
    ASSUME EventsInv
    PROVE  /\ events_after(lastSequence) \subseteq HubEvent
           /\ \A e \in events_after(lastSequence) :
                /\ e.seq \in 1..pushed /\ e.seq > lastSequence
                /\ \E k \in DOMAIN ring : ring[k] = e
           /\ \A k \in DOMAIN ring :
                ring[k].seq > lastSequence => ring[k] \in events_after(lastSequence)
           /\ \A k \in DOMAIN ring : ring[k].seq \in 1..pushed /\ k \in Nat
<1>0. /\ ring \in Seq(HubEvent) /\ pushed \in Nat /\ RingSize \in Nat
      /\ Len(ring) = (IF pushed < RingSize THEN pushed ELSE RingSize)
      /\ \A k \in DOMAIN ring : ring[k].seq = (pushed - Len(ring)) + k
  BY RingAssumption DEF EventsInv, EventsTypeOK, HubInv
<1>1. \A k \in DOMAIN ring : ring[k] \in HubEvent /\ k \in 1..Len(ring)
  BY <1>0
<1>2. \A k \in DOMAIN ring : ring[k].seq \in 1..pushed
  BY <1>0, <1>1
<1> QED
  BY <1>1, <1>2 DEF events_after

(* A later event of the hub shows a later moment.                           *)
LEMMA LaterIsLater ==
    ASSUME EventsInv, NEW j \in DOMAIN ring, NEW k \in DOMAIN ring,
           ring[j].kind = "status", ring[k].kind = "status", ring[k].seq > ring[j].seq
    PROVE  ring[k].what.moment > ring[j].what.moment
<1>0. /\ ring \in Seq(HubEvent) /\ pushed \in Nat /\ Len(ring) \in Nat
      /\ ring[j].seq = (pushed - Len(ring)) + j /\ ring[k].seq = (pushed - Len(ring)) + k
      /\ j \in Nat /\ k \in Nat
      /\ ring[j].what \in Sight /\ ring[k].what \in Sight
  BY RingAssumption, EventFields DEF EventsInv, EventsTypeOK, HubInv
<1>1. j < k
  BY <1>0
<1>2. ring[j].what.moment < ring[k].what.moment
  BY <1>1 DEF EventsInv, HubInv
<1>3. ring[j].what.moment \in Nat /\ ring[k].what.moment \in Nat
  BY <1>0, EventFields
<1> QED
  BY <1>2, <1>3

LEMMA DrainEventsKeeps ==
    ASSUME EventsInv, DrainEvents
    PROVE  EventsInv' /\ Forward
<1> DEFINE batch == events_after(lastSequence)
           ours == {e \in batch : e.kind = "status"}
           hits == {e \in ours : Wants(e.what.look)}
<1>0. /\ EventsTypeOK /\ ToldInv /\ HubInv /\ pushed \in Nat /\ stage = "top"
      /\ lastSequence \in 0..pushed
  BY RingAssumption DEF EventsInv, EventsTypeOK, DrainEvents
<1>1. UNCHANGED <<paneVars, hubVars, fixed, snapshot>>
  BY DEF DrainEvents, Advance, Tell
<1>2. /\ UNCHANGED <<agent, viewed, title, moment, pushed, ring, kinds>>
      /\ Seen' = Seen /\ HubInv'
  BY <1>1, ReaderStep
<1>3. CASE hits # {}
  <2> DEFINE hit == First(hits)
  <2>1. /\ lastSequence' = hit.seq /\ lastLook' = hit.what.look /\ initialEvent' = None
        /\ saw' = FALSE /\ told' = hit.what /\ tells' = tells + 1 /\ stage' \in {"done", "top"}
    BY <1>3 DEF DrainEvents, Tell, Advance
  <2>2. hit \in hits /\ hits \subseteq HubEvent /\ hit \in batch /\ hit.kind = "status"
    <3>1. hits \subseteq HubEvent
      BY BatchFacts
    <3>2. hit \in hits
      BY <1>3, <3>1, FirstLatest
    <3> QED
      BY <3>1, <3>2
  <2>3. PICK h \in DOMAIN ring : ring[h] = hit
    BY <2>2, BatchFacts
  <2>4. hit.what \in Sight /\ hit.seq \in 1..pushed /\ hit.seq > lastSequence
    BY <2>2, BatchFacts, EventFields
  <2> HIDE DEF hit, hits, ours, batch
  <2>5. Forward
    BY <1>0, <2>1, <2>2, <2>3, <2>4 DEF Forward, ToldInv, Unheard
  <2>6. EventsTypeOK'
    <3>1. hit.what.look \in Look
      BY <2>4, EventFields
    <3>2. /\ lastSequence' \in 0..pushed' /\ stage' \in {"done", "top"} /\ saw' \in BOOLEAN
          /\ lastLook' \in Look \cup {None} /\ told' \in SeenType /\ initialEvent' \in SeenType
          /\ snapshot' = snapshot /\ wait' = wait /\ wanted' = wanted /\ base' = base
          /\ tells' \in Nat
      <4>1. lastSequence' \in 0..pushed'
        BY <1>0, <1>2, <2>1, <2>4
      <4>2. tells' \in Nat
        BY <1>0, <2>1 DEF EventsTypeOK
      <4> QED
        BY <1>1, <2>1, <2>4, <3>1, <4>1, <4>2 DEF fixed, SeenType
    <3> QED
      BY <1>0, <1>2, <3>2 DEF EventsTypeOK
  <2>7. Past(told)'
    <3>1. Past(hit.what)
      BY <1>0, <2>2, <2>3 DEF HubInv
    <3> QED
      BY <1>2, <2>1, <3>1 DEF Past
  <2>8. ASSUME NEW k \in DOMAIN ring', Unheard(k)'
        PROVE  ring'[k].what.moment > told'.moment
    BY <1>2, <2>1, <2>2, <2>3, <2>8, LaterIsLater DEF Unheard
  <2>9. ToldInv'
    BY <2>1, <2>7, <2>8 DEF ToldInv
  <2> QED
    BY <1>2, <2>5, <2>6, <2>9 DEF EventsInv
<1>4. CASE hits = {}
  <2>1. /\ lastSequence' = IF batch = {} THEN lastSequence ELSE Latest(batch).seq
        /\ lastLook' = IF ours = {} THEN lastLook ELSE Latest(ours).what.look
        /\ saw' = (ours # {})
        /\ UNCHANGED <<initialEvent, snapshot, told, tells>>
        /\ stage' = "check"
    BY <1>4 DEF DrainEvents, Advance, client
  <2>2. lastSequence' \in 0..pushed /\ lastSequence' >= lastSequence
    <3>1. CASE batch = {}
      BY <1>0, <2>1, <3>1
    <3>2. CASE batch # {}
      <4>1. Latest(batch) \in batch
        BY <3>2, BatchFacts, FirstLatest
      <4>2. Latest(batch).seq \in 1..pushed /\ Latest(batch).seq > lastSequence
        BY <4>1, BatchFacts
      <4> HIDE DEF batch
      <4> QED
        BY <1>0, <2>1, <3>2, <4>2
    <3> QED
      BY <3>1, <3>2
  <2>3. lastLook' \in Look \cup {None}
    <3>1. CASE ours = {}
      BY <1>0, <2>1, <3>1 DEF EventsTypeOK
    <3>2. CASE ours # {}
      <4>1. ours \subseteq HubEvent
        BY BatchFacts
      <4>2. Latest(ours) \in ours
        BY <3>2, <4>1, FirstLatest
      <4>3. Latest(ours) \in HubEvent /\ Latest(ours).kind = "status"
        BY <4>1, <4>2
      <4>4. Latest(ours).what.look \in Look
        BY <4>3, EventFields
      <4> QED
        BY <2>1, <3>2, <4>4
    <3> QED
      BY <3>1, <3>2
  <2> HIDE DEF hits, ours, batch
  <2>4. EventsTypeOK'
    <3>1. saw' \in BOOLEAN
      BY <2>1
    <3> QED
      BY <1>0, <1>1, <1>2, <2>1, <2>2, <2>3, <3>1 DEF EventsTypeOK, fixed
  <2>5. ASSUME NEW k \in DOMAIN ring', Unheard(k)' PROVE Unheard(k)
    <3>1. ring[k].seq \in 1..pushed /\ ring[k].kind = "status" /\ ring[k].seq > lastSequence'
      BY <1>2, <2>5, BatchFacts DEF Unheard
    <3> QED
      BY <1>0, <2>2, <3>1 DEF Unheard
  <2>6. ToldInv'
    BY <1>0, <1>2, <2>1, <2>5 DEF ToldInv, Past
  <2> QED
    BY <1>2, <2>1, <2>4, <2>6 DEF EventsInv, Forward
<1> QED
  BY <1>3, <1>4

(* With all events read, whatever is of the past may be told.               *)
LEMMA NothingUnread ==
    ASSUME EventsInv, pushed = lastSequence
    PROVE  \A k \in DOMAIN ring : ~Unheard(k)
<1>1. pushed \in Nat
  BY RingAssumption DEF EventsInv, EventsTypeOK
<1> QED
  BY <1>1, BatchFacts DEF Unheard

LEMMA CheckHubKeeps ==
    ASSUME EventsInv, CheckHub
    PROVE  EventsInv' /\ Forward
<1>0. EventsTypeOK /\ ToldInv /\ stage = "check"
  BY DEF EventsInv, CheckHub
<1>1. UNCHANGED <<paneVars, hubVars, fixed, lastLook, lastSequence, snapshot>> /\ saw' = FALSE
  BY DEF CheckHub, Advance, Tell
<1>2. /\ UNCHANGED <<agent, viewed, title, moment, pushed, ring, kinds>>
      /\ Seen' = Seen /\ HubInv'
  BY <1>1, ReaderStep
<1>3. CASE /\ UNCHANGED <<told, tells>> /\ initialEvent' \in {initialEvent, None} /\ stage' \in {"get", "top"}
           /\ stage' = "get" => initialEvent' = None
  <2>1. EventsTypeOK'
    BY <1>0, <1>1, <1>2, <1>3 DEF EventsTypeOK, fixed, SeenType
  <2>2. \A k \in DOMAIN ring' : Unheard(k)' => Unheard(k)
    BY <1>1, <1>2 DEF Unheard
  <2>3. ToldInv'
    BY <1>0, <1>1, <1>2, <1>3, <2>2 DEF ToldInv, Past
  <2> QED
    BY <1>2, <1>3, <2>1, <2>3 DEF EventsInv, Forward
<1>4. CASE /\ pushed = lastSequence /\ initialEvent # None /\ initialEvent' = None
           /\ told' = initialEvent /\ tells' = tells + 1 /\ stage' \in {"done", "top"}
  <2>1. told = None /\ Past(initialEvent)
    BY <1>0, <1>4 DEF ToldInv
  <2>2. EventsTypeOK'
    <3>1. tells' \in Nat
      BY <1>0, <1>4 DEF EventsTypeOK
    <3>2. /\ told' \in SeenType /\ initialEvent' \in SeenType
          /\ stage' \in {"done", "top"} /\ saw' \in BOOLEAN
      BY <1>0, <1>1, <1>4 DEF EventsTypeOK, SeenType
    <3> QED
      BY <1>0, <1>1, <1>2, <3>1, <3>2 DEF EventsTypeOK, fixed
  <2>3. \A k \in DOMAIN ring' : ~Unheard(k)'
    BY <1>1, <1>2, <1>4, NothingUnread DEF Unheard
  <2>4. Past(told)'
    BY <1>2, <1>4, <2>1 DEF Past
  <2>5. ToldInv'
    BY <1>4, <2>3, <2>4 DEF ToldInv
  <2> QED
    BY <1>2, <2>1, <2>2, <2>5 DEF EventsInv, Forward
<1> QED
  BY <1>3, <1>4 DEF CheckHub, Advance, Tell, client

LEMMA PaneGetKeeps ==
    ASSUME EventsInv, PaneGet
    PROVE  EventsInv' /\ Forward
<1>0. EventsTypeOK /\ ToldInv /\ stage = "get" /\ moment \in Nat
  BY RingAssumption DEF EventsInv, EventsTypeOK, PaneGet
<1>1. /\ UNCHANGED <<paneVars, hubVars, fixed, lastLook, lastSequence, initialEvent, saw, told,
                     tells>>
      /\ snapshot' = Seen /\ stage' = "compare"
  BY DEF PaneGet, Advance, client
<1>2. /\ UNCHANGED <<agent, viewed, title, moment, pushed, ring, kinds>>
      /\ Seen' = Seen /\ HubInv'
  BY <1>1, ReaderStep
<1>3. Seen \in Sight /\ Seen.moment = moment
  BY <1>0, SeenTyped
<1>4. EventsTypeOK'
  BY <1>0, <1>1, <1>2, <1>3 DEF EventsTypeOK, fixed, SeenType
<1>5. snapshot' \in Sight /\ Past(snapshot)'
  BY <1>0, <1>1, <1>2, <1>3 DEF Past, InPast
<1>6. told # None => Seen.moment > told.moment \/ Seen = told
  <2>1. told # None => /\ told.moment \in Nat /\ told.moment <= moment
                       /\ told.moment = moment => told = Seen
    BY <1>0, EventFields DEF ToldInv, Past, InPast, EventsTypeOK, SeenType
  <2> QED
    BY <1>0, <1>3, <2>1
<1>7. \A k \in DOMAIN ring' : Unheard(k)' => Unheard(k)
  BY <1>1, <1>2 DEF Unheard
<1>8. ToldInv'
  BY <1>0, <1>1, <1>2, <1>5, <1>6, <1>7 DEF ToldInv, Past
<1> QED
  BY <1>1, <1>2, <1>4, <1>8 DEF EventsInv, Forward

LEMMA CompareKeeps ==
    ASSUME EventsInv, Compare
    PROVE  EventsInv' /\ Forward
<1>0. EventsTypeOK /\ ToldInv /\ stage = "compare" /\ snapshot \in Sight
  BY DEF EventsInv, Compare, ToldInv
<1>1. /\ UNCHANGED <<paneVars, hubVars, fixed, lastSequence, initialEvent, saw>>
      /\ snapshot' = None /\ lastLook' \in {lastLook, snapshot.look} /\ stage' \in {"top", "done"}
  BY DEF Compare, Advance, Tell
<1>2. /\ UNCHANGED <<agent, viewed, title, moment, pushed, ring, kinds>>
      /\ Seen' = Seen /\ HubInv'
  BY <1>1, ReaderStep
<1>3. /\ told' = told \/ (told' = snapshot /\ pushed = lastSequence)
      /\ tells' = tells \/ tells' = tells + 1
  BY DEF Compare, Advance, Tell, client
<1>4. EventsTypeOK'
  BY <1>0, <1>1, <1>2, <1>3, EventFields DEF EventsTypeOK, fixed, SeenType
<1>5. CASE told' = told
  <2>1. \A k \in DOMAIN ring' : Unheard(k)' => Unheard(k)
    BY <1>1, <1>2 DEF Unheard
  <2>2. ToldInv'
    BY <1>0, <1>1, <1>2, <1>5, <2>1 DEF ToldInv, Past
  <2> QED
    BY <1>2, <1>4, <1>5, <2>2 DEF EventsInv, Forward
<1>6. CASE told' = snapshot /\ pushed = lastSequence
  <2>1. \A k \in DOMAIN ring' : ~Unheard(k)'
    BY <1>1, <1>2, <1>6, NothingUnread DEF Unheard
  <2>2. Past(told)' /\ initialEvent' = None
    BY <1>0, <1>1, <1>2, <1>6 DEF ToldInv, Past
  <2>3. ToldInv'
    BY <1>1, <2>1, <2>2 DEF ToldInv
  <2>4. Forward
    BY <1>0, <1>6 DEF Forward, ToldInv
  <2> QED
    BY <1>2, <1>4, <2>3, <2>4 DEF EventsInv
<1> QED
  BY <1>3, <1>5, <1>6

(* A poll that returns nothing, or the end of the subscription.             *)
LEMMA IdlePollKeeps ==
    ASSUME EventsInv, PaneGetFails \/ Leave \/ SubscribeEvents
    PROVE  EventsInv' /\ Forward
<1>0. EventsTypeOK /\ ToldInv
  BY DEF EventsInv
<1>1. /\ UNCHANGED <<paneVars, hubVars, fixed, lastLook, lastSequence, initialEvent, saw, told,
                     tells, snapshot>>
      /\ stage' \in {"top", "done", "events"}
      /\ stage' = "events" => stage = "idle"
  BY DEF PaneGetFails, Leave, SubscribeEvents, Advance, pollVars, client
<1>2. /\ UNCHANGED <<agent, viewed, title, moment, pushed, ring, kinds>>
      /\ Seen' = Seen /\ HubInv'
  BY <1>1, ReaderStep
<1>3. EventsTypeOK'
  BY <1>0, <1>1, <1>2 DEF EventsTypeOK, fixed
<1>4. \A k \in DOMAIN ring' : Unheard(k)' => Unheard(k)
  BY <1>1, <1>2 DEF Unheard
<1>5. ToldInv'
  BY <1>0, <1>1, <1>2, <1>4 DEF ToldInv, Past
<1> QED
  BY <1>1, <1>2, <1>3, <1>5 DEF EventsInv, Forward

LEMMA Between ==
    ASSUME NEW a \in Nat, NEW b \in Nat, NEW p \in Nat, b <= p, NEW n \in (a + 1)..(b - 1)
    PROVE  n \in Nat /\ n > a /\ n < b /\ n < p /\ n > 0
  OBVIOUS

(* A subscriber to other events takes the next one the hub holds.           *)
LEMMA PollEventsKeeps ==
    ASSUME EventsInv, PollEvents
    PROVE  /\ EventsInv' /\ told' = told
           /\ \A n \in (lastSequence + 1)..(lastSequence' - 1) :
                kinds[n] = "other" => n + RingSize <= pushed
<1> DEFINE batch == events_after(lastSequence)
           hits == {e \in batch : e.kind = "other"}
<1>0. /\ EventsTypeOK /\ ToldInv /\ HubInv /\ pushed \in Nat /\ stage = "events"
      /\ lastSequence \in 0..pushed /\ lastSequence \in Nat /\ RingSize \in Nat
      /\ ring \in Seq(HubEvent)
  BY RingAssumption DEF EventsInv, EventsTypeOK, PollEvents
<1>1. /\ UNCHANGED <<paneVars, hubVars, stage, fixed, lastLook, initialEvent, saw, snapshot, told,
                     tells>>
      /\ batch # {}
      /\ lastSequence' = IF hits = {} THEN Latest(batch).seq ELSE First(hits).seq
  BY DEF PollEvents, client
<1>2. /\ UNCHANGED <<agent, viewed, title, moment, pushed, ring, kinds>>
      /\ Seen' = Seen /\ HubInv'
  BY <1>1, ReaderStep
<1>3. /\ batch \subseteq HubEvent /\ hits \subseteq HubEvent
      /\ \A e \in batch : e.seq \in 1..pushed
  BY BatchFacts
<1>4. lastSequence' \in 1..pushed /\ \A e \in hits : lastSequence' <= e.seq
  <2>1. CASE hits = {}
    BY <1>1, <1>3, <2>1, FirstLatest
  <2>2. CASE hits # {}
    <3>1. First(hits) \in hits /\ \A d \in hits : First(hits).seq <= d.seq
      BY <1>3, <2>2, FirstLatest
    <3> QED
      BY <1>1, <1>3, <2>2, <3>1
  <2> QED
    BY <2>1, <2>2
<1>5. ASSUME NEW n, n \in (lastSequence + 1)..(lastSequence' - 1), kinds[n] = "other"
      PROVE  n + RingSize <= pushed
  <2>0. n \in Nat /\ n > lastSequence /\ n < lastSequence' /\ n < pushed /\ n > 0
    <3>1. lastSequence \in Nat /\ pushed \in Nat /\ lastSequence' \in Nat /\ lastSequence' <= pushed
      BY <1>0, <1>4
    <3> QED
      BY <1>5, <3>1, Between
  <2>1. CASE n > pushed - Len(ring)
    <3> DEFINE k == n - (pushed - Len(ring))
    <3>1. Len(ring) \in Nat /\ DOMAIN ring = 1..Len(ring)
      BY <1>0
    <3>2. k \in DOMAIN ring /\ (pushed - Len(ring)) + k = n
      BY <1>0, <2>0, <2>1, <3>1
    <3> HIDE DEF k
    <3>3. ring[k].seq = n /\ ring[k].kind = "other"
      BY <1>0, <1>5, <3>2 DEF HubInv
    <3>4. ring[k] \in hits
      BY <2>0, <3>2, <3>3, BatchFacts
    <3>5. lastSequence' <= n
      BY <1>4, <3>3, <3>4
    <3> QED
      BY <1>4, <2>0, <3>5
  <2>2. CASE ~(n > pushed - Len(ring))
    <3>1. Len(ring) = IF pushed < RingSize THEN pushed ELSE RingSize
      BY <1>0 DEF HubInv
    <3> QED
      BY <1>0, <2>0, <2>2, <3>1
  <2> QED
    BY <2>1, <2>2
<1> HIDE DEF hits, batch
<1>6. EventsTypeOK'
  BY <1>0, <1>1, <1>2, <1>4 DEF EventsTypeOK, fixed
<1>7. ToldInv'
  BY <1>0, <1>1 DEF ToldInv
<1> QED
  BY <1>1, <1>2, <1>5, <1>6, <1>7 DEF EventsInv

LEMMA EventsInitHolds == EventsInit => EventsInv
<1> SUFFICES ASSUME EventsInit PROVE EventsInv
  OBVIOUS
<1>1. EventsTypeOK
  <2>1. /\ moment \in 0..MaxMoments /\ pushed \in 0..MaxPushed /\ lastSequence \in 0..pushed
        /\ Len(ring) <= RingSize /\ Len(kinds) = pushed
    BY RingAssumption DEF EventsInit
  <2>2. ring \in Seq(HubEvent) /\ kinds \in Seq({"status", "other"})
    BY DEF EventsInit
  <2> QED
    BY <2>1, <2>2, AgentStateAssumption DEF EventsInit, EventsTypeOK, SeenType
<1>2. HubInv /\ ToldInv
  BY RingAssumption DEF EventsInit, HubInv, ToldInv
<1> QED
  BY <1>1, <1>2 DEF EventsInv

(* What a step may skip.                                                    *)
SkipsDropped ==
    stage = "events" =>
      \A n \in (lastSequence + 1)..(lastSequence' - 1) :
        kinds[n] = "other" => n + RingSize <= pushed

LEMMA EventsNextKeeps ==
    ASSUME EventsInv, [EventsNext]_eventVars
    PROVE  EventsInv' /\ Forward /\ SkipsDropped
<1>0. lastSequence \in Nat
  BY RingAssumption DEF EventsInv, EventsTypeOK
<1>1. ASSUME Forward, EventsInv', stage = "events" => lastSequence' = lastSequence
      PROVE  EventsInv' /\ Forward /\ SkipsDropped
  <2>1. lastSequence' = lastSequence => (lastSequence + 1)..(lastSequence' - 1) = {}
    BY <1>0
  <2> QED
    BY <1>1, <2>1 DEF SkipsDropped
<1>2. CASE UNCHANGED eventVars
  <2>1. UNCHANGED <<paneVars, hubVars, stage, pollVars, fixed>>
    BY <1>2 DEF eventVars
  <2>2. /\ UNCHANGED <<agent, viewed, title, moment, pushed, ring, kinds>>
        /\ Seen' = Seen /\ HubInv'
    BY <2>1, ReaderStep
  <2>3. EventsTypeOK'
    BY <2>1, <2>2 DEF EventsInv, EventsTypeOK, pollVars, client, fixed
  <2>4. ToldInv'
    BY <2>1, <2>2, ToldStays DEF EventsInv, EventsTypeOK
  <2> QED
    BY <1>1, <2>1, <2>2, <2>3, <2>4 DEF EventsInv, Forward, pollVars, client
<1>3. CASE \E a \in AgentState, t \in Title, active, kept \in BOOLEAN : UpdatePane(a, t, active, kept)
  BY <1>1, <1>3, UpdatePaneKeeps DEF Forward, pollVars, client
<1>4. CASE MarkSeen
  BY <1>1, <1>4, MarkSeenKeeps DEF Forward, pollVars, client
<1>5. CASE EmitOther
  BY <1>1, <1>5, EmitOtherKeeps DEF Forward, pollVars, client
<1>6. CASE \E w \in BOOLEAN, f \in Status \cup {None} : Subscribe(w, f)
  <2>1. stage = "idle"
    BY <1>6 DEF Subscribe
  <2> QED
    BY <1>1, <1>6, <2>1, SubscribeKeeps DEF Forward
<1>7. CASE Probe
  <2>1. stage = "probe"
    BY <1>7 DEF Probe
  <2> QED
    BY <1>1, <1>7, <2>1, ProbeKeeps DEF Forward
<1>8. CASE DrainEvents
  <2>1. stage = "top"
    BY <1>8 DEF DrainEvents
  <2> QED
    BY <1>1, <1>8, <2>1, DrainEventsKeeps
<1>9. CASE CheckHub \/ PaneGet \/ Compare
  <2>1. stage # "events"
    BY <1>9 DEF CheckHub, PaneGet, Compare
  <2> QED
    BY <1>1, <1>9, <2>1, CheckHubKeeps, PaneGetKeeps, CompareKeeps
<1>10. CASE PaneGetFails \/ Leave \/ SubscribeEvents
  <2>1. stage # "events"
    BY <1>10 DEF PaneGetFails, Leave, SubscribeEvents
  <2> QED
    BY <1>1, <1>10, <2>1, IdlePollKeeps
<1>11. CASE PollEvents
  BY <1>11, PollEventsKeeps DEF Forward, SkipsDropped
<1> QED
  BY <1>2, <1>3, <1>4, <1>5, <1>6, <1>7, <1>8, <1>9, <1>10, <1>11 DEF EventsNext, SubscriberWorks

(***************************************************************************)
(* The hub, the pane and the subscriber keep their types, however the       *)
(* application's changes fall between the steps of a poll.                  *)
(***************************************************************************)
THEOREM EventsTypeHolds == EventsSpec => []EventsTypeOK
<1>1. EventsInv => EventsTypeOK
  BY DEF EventsInv
<1>2. EventsInv /\ [EventsNext]_eventVars => EventsInv'
  BY EventsNextKeeps
<1> QED
  BY <1>1, <1>2, EventsInitHolds, PTL DEF EventsSpec

(* What a step tells differs from what was told before.                     *)
Fresh == told # None /\ tells' # tells => told' # told

(* Time goes on: what was told is the last look or of the past.             *)
LEMMA LastStays ==
    ASSUME EventsInv, LastInv, UNCHANGED <<stage, pollVars>>,
           moment' = moment \/ moment' = moment + 1
    PROVE  LastInv' /\ Fresh
<1>1. /\ UNCHANGED <<stage, told, tells, lastLook, initialEvent, saw, snapshot>>
      /\ moment \in Nat
      /\ told # None => told.moment \in Nat
  BY RingAssumption, EventFields DEF EventsInv, EventsTypeOK, SeenType, pollVars, client
<1>2. told # None /\ moment > told.moment => moment' > told.moment
  BY <1>1
<1> QED
  BY <1>1, <1>2 DEF LastInv, Fresh

(* A hit is the next thing told; events that are not wanted are newer than  *)
(* what was told.                                                           *)
LEMMA DrainEventsLast ==
    ASSUME EventsInv, LastInv, DrainEvents
    PROVE  LastInv' /\ Fresh
<1> DEFINE batch == events_after(lastSequence)
           ours == {e \in batch : e.kind = "status"}
           hits == {e \in ours : Wants(e.what.look)}
<1>0. /\ EventsTypeOK /\ ToldInv /\ HubInv /\ stage = "top" /\ moment \in Nat /\ ~saw
      /\ moment' = moment
      /\ told # None => told.moment \in Nat
  BY RingAssumption, EventFields
     DEF EventsInv, EventsTypeOK, SeenType, DrainEvents, Advance, Tell, paneVars, LastInv
<1>1. \A e \in ours :
         /\ e.what \in Sight /\ e.what.moment \in Nat /\ e.what.moment <= moment
         /\ told # None => e.what.moment > told.moment
  <2> SUFFICES ASSUME NEW e \in ours
               PROVE  /\ e.what \in Sight /\ e.what.moment \in Nat /\ e.what.moment <= moment
                      /\ told # None => e.what.moment > told.moment
    OBVIOUS
  <2>1. PICK k \in DOMAIN ring : ring[k] = e
    BY BatchFacts
  <2>2. e \in HubEvent /\ e.kind = "status" /\ e.seq > lastSequence
    BY BatchFacts
  <2>3. Past(e.what) /\ Unheard(k)
    BY <1>0, <2>1, <2>2 DEF HubInv, Unheard
  <2> QED
    BY <1>0, <2>1, <2>2, <2>3, EventFields DEF ToldInv, Past, InPast
<1>2. CASE hits # {}
  <2>1. First(hits) \in hits
    <3>1. hits \subseteq HubEvent
      BY BatchFacts
    <3> QED
      BY <1>2, <3>1, FirstLatest
  <2>2. /\ lastLook' = First(hits).what.look /\ told' = First(hits).what
        /\ initialEvent' = None /\ saw' = FALSE /\ stage' \in {"done", "top"}
    BY <1>2 DEF DrainEvents, Tell, Advance
  <2>3. told # None => told' # told
    <3>1. PICK h \in ours : told' = h.what
      BY <2>1, <2>2
    <3>2. told # None => h.what.moment > told.moment
      BY <1>1, <3>1
    <3> QED
      BY <1>0, <3>1, <3>2
  <2> QED
    BY <2>2, <2>3 DEF LastInv, Fresh
<1>3. CASE hits = {}
  <2>1. /\ lastLook' = IF ours = {} THEN lastLook ELSE Latest(ours).what.look
        /\ saw' = (ours # {})
        /\ UNCHANGED <<initialEvent, snapshot, told, tells>> /\ stage' = "check"
    BY <1>3 DEF DrainEvents, Advance, client
  <2>2. CASE ours = {}
    BY <1>0, <2>1, <2>2 DEF LastInv, Fresh
  <2>3. CASE ours # {}
    <3>1. told # None => moment > told.moment
      <4>1. PICK h \in ours : TRUE
        BY <2>3
      <4>2. /\ h.what.moment \in Nat /\ h.what.moment <= moment
            /\ told # None => h.what.moment > told.moment
        BY <1>1, <4>1
      <4> HIDE DEF hits, ours, batch
      <4> QED
        BY <1>0, <4>2
    <3> QED
      BY <1>0, <2>1, <2>3, <3>1 DEF LastInv, Fresh
  <2> QED
    BY <2>2, <2>3
<1> QED
  BY <1>2, <1>3

LEMMA CheckHubLast ==
    ASSUME EventsInv, LastInv, CheckHub
    PROVE  LastInv' /\ Fresh
<1>0. /\ ToldInv /\ stage = "check"
      /\ moment' = moment /\ lastLook' = lastLook /\ saw' = FALSE /\ stage' # "compare"
  BY DEF EventsInv, CheckHub, Advance, Tell, paneVars
<1>1. CASE UNCHANGED <<told, tells>> /\ initialEvent' \in {initialEvent, None}
           /\ (saw => initialEvent' = None)
  BY <1>0, <1>1 DEF LastInv, Fresh
<1>2. CASE ~saw /\ initialEvent # None /\ initialEvent' = None /\ told' = initialEvent
  <2>1. told = None
    BY <1>0, <1>2 DEF ToldInv
  <2> QED
    BY <1>0, <1>2, <2>1 DEF LastInv, Fresh
<1> QED
  BY <1>1, <1>2 DEF CheckHub, Advance, Tell, client

(* A snapshot of the moment that was told shows the last look.              *)
LEMMA PaneGetLast ==
    ASSUME EventsInv, LastInv, PaneGet
    PROVE  LastInv' /\ Fresh
<1>0. /\ ToldInv /\ moment \in Nat /\ stage = "get" /\ ~saw /\ saw' = saw
      /\ Seen.moment = moment
      /\ told # None => told.moment \in Nat
  BY RingAssumption, EventFields, SeenTyped
     DEF EventsInv, EventsTypeOK, SeenType, PaneGet, LastInv
<1>1. /\ moment' = moment /\ UNCHANGED <<told, tells, lastLook, initialEvent>>
      /\ snapshot' = Seen /\ stage' = "compare"
  BY DEF PaneGet, Advance, paneVars, client
<1>2. told # None => Seen.moment > told.moment \/ lastLook = Seen.look
  <2>1. told # None => told.moment <= moment /\ (told.moment = moment => told = Seen)
    BY <1>0 DEF ToldInv, Past, InPast
  <2>2. CASE told # None /\ told.moment = moment
    BY <1>0, <2>1, <2>2 DEF LastInv
  <2>3. CASE told # None /\ told.moment # moment
    BY <1>0, <2>1, <2>3
  <2> QED
    BY <2>2, <2>3
<1> QED
  BY <1>0, <1>1, <1>2 DEF LastInv, Fresh

LEMMA CompareLast ==
    ASSUME EventsInv, LastInv, Compare
    PROVE  LastInv' /\ Fresh
<1>0. /\ ToldInv /\ moment \in Nat /\ stage = "compare" /\ ~saw /\ saw' = saw
      /\ snapshot \in Sight /\ snapshot.moment \in Nat /\ snapshot.moment <= moment
      /\ initialEvent = None /\ initialEvent' = None
      /\ told # None => told.moment \in Nat
      /\ moment' = moment /\ stage' \in {"top", "done"}
  BY RingAssumption, EventFields
     DEF EventsInv, EventsTypeOK, SeenType, Compare, LastInv, ToldInv, Past, InPast, Advance,
         Tell, paneVars
<1>1. CASE UNCHANGED <<told, tells, lastLook>>
  BY <1>0, <1>1 DEF LastInv, Fresh
<1>2. CASE UNCHANGED <<told, tells>> /\ lastLook' = snapshot.look
  <2>1. told # None => snapshot = told \/ moment > told.moment
    BY <1>0 DEF ToldInv
  <2> QED
    BY <1>0, <1>2, <2>1 DEF LastInv, Fresh
<1>3. CASE lastLook' = snapshot.look /\ told' = snapshot /\ snapshot.look # lastLook
  <2>1. told # None => snapshot.moment > told.moment
    BY <1>0, <1>3 DEF LastInv
  <2>2. told # None => snapshot # told
    BY <1>0, <2>1
  <2> QED
    BY <1>0, <1>3, <2>2 DEF LastInv, Fresh
<1> QED
  BY <1>1, <1>2, <1>3 DEF Compare, Advance, Tell, client

LEMMA LastNextKeeps ==
    ASSUME EventsInv, LastInv, [EventsNext]_eventVars
    PROVE  LastInv' /\ Fresh
<1>1. CASE UNCHANGED eventVars
  BY <1>1, LastStays DEF eventVars, paneVars
<1>2. CASE \E a \in AgentState, t \in Title, active, kept \in BOOLEAN : UpdatePane(a, t, active, kept)
  <2>1. UNCHANGED <<stage, pollVars>> /\ (moment' = moment \/ moment' = moment + 1)
    BY <1>2 DEF UpdatePane, emit_pane_state_update
  <2> QED
    BY <2>1, LastStays
<1>3. CASE MarkSeen \/ EmitOther
  <2>1. UNCHANGED <<stage, pollVars>> /\ (moment' = moment \/ moment' = moment + 1)
    BY <1>3 DEF MarkSeen, EmitOther, paneVars
  <2> QED
    BY <2>1, LastStays
<1>4. CASE \E w \in BOOLEAN, f \in Status \cup {None} : Subscribe(w, f)
  <2>1. /\ stage = "idle" /\ stage' = "probe" /\ UNCHANGED <<told, tells, initialEvent, saw>>
    BY <1>4 DEF Subscribe, client
  <2> QED
    BY <2>1 DEF EventsInv, ToldInv, LastInv, Fresh
<1>5. CASE Probe
  <2>1. /\ stage = "probe" /\ stage' = "top" /\ UNCHANGED <<told, tells, saw>>
        /\ lastLook' = PaneLook /\ initialEvent' \in {Seen, None}
    BY <1>5 DEF Probe, client
  <2>2. told = None /\ ~saw /\ Seen.look = PaneLook
    BY <2>1 DEF EventsInv, ToldInv, LastInv, Seen
  <2> QED
    BY <2>1, <2>2 DEF LastInv, Fresh
<1>6. CASE DrainEvents \/ CheckHub \/ PaneGet \/ Compare
  BY <1>6, DrainEventsLast, CheckHubLast, PaneGetLast, CompareLast
<1>7. CASE PaneGetFails \/ Leave \/ SubscribeEvents \/ PollEvents
  <2>1. /\ UNCHANGED <<moment, told, tells, lastLook, initialEvent, saw>>
        /\ stage # "check" /\ stage' \notin {"check", "compare"}
    BY <1>7 DEF PaneGetFails, Leave, SubscribeEvents, PollEvents, Advance, paneVars, pollVars,
                client
  <2> QED
    BY <2>1 DEF LastInv, Fresh
<1> QED
  BY <1>1, <1>2, <1>3, <1>4, <1>5, <1>6, <1>7 DEF EventsNext, SubscriberWorks

(***************************************************************************)
(* For every size of the hub and every sequence of changes, whatever a      *)
(* client is told of a pane is later than what it was told before, so that  *)
(* no look is told twice, and a subscriber to other events skips only what  *)
(* the hub had dropped.                                                     *)
(***************************************************************************)
THEOREM ToldInOrderHolds == EventsSpec => ToldInOrder
<1> DEFINE Inv == EventsInv /\ LastInv
           Step == /\ told # None /\ tells' # tells => told'.moment > told.moment
                   /\ SkipsDropped
<1>1. EventsInit => Inv
  BY EventsInitHolds DEF EventsInit, LastInv
<1>2. Inv /\ [EventsNext]_eventVars => Inv' /\ [Step]_eventVars
  BY EventsNextKeeps, LastNextKeeps DEF Forward, Fresh
<1> QED
  BY <1>1, <1>2, PTL DEF EventsSpec, ToldInOrder, SkipsDropped
=============================================================================
