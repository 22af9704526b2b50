---------------------------- MODULE ClaudeAdapter ----------------------------
(***************************************************************************)
(* The actor that drives one Claude Code process for the server             *)
(* (src/src/managed_provider/claude.rs).  It takes commands from the owner  *)
(* of its handle, frames from the process and deadlines from the clock,     *)
(* whichever select! finds ready, and reports ProviderEvents.               *)
(*                                                                          *)
(* Process and owner are external.  The process may send any frame at any   *)
(* time once it has answered initialize: what it means by them does not     *)
(* matter, only what the actor makes of them.  Of a frame the model keeps   *)
(* what the handlers look at.  The owner may send any command, a response   *)
(* only to a request it was shown.  A rejected command is a step without    *)
(* effect; a write that fails leaves its number used up.                    *)
(*                                                                          *)
(* A frame is read in pieces.  The pieces of an unfinished frame belong to  *)
(* the future of read_bounded_frame and are lost when a command wins the    *)
(* select!; the rest of the line is then no JSON.                           *)
(***************************************************************************)
EXTENDS Option, Naturals, FiniteSets

CONSTANTS
    SessionId,     \* session ids
    ControlId,     \* request ids the process may use
    MaxTurn,       \* bound: turns begun
    MaxControl,    \* bound: control requests sent
    MaxFrames      \* bound: frames read

ASSUME ClaudeAssumption ==
    /\ MaxTurn \in Nat \ {0} /\ MaxControl \in Nat \ {0} /\ MaxFrames \in Nat
    /\ None \notin SessionId

VARIABLES
    mode,          \* "waiting" for the start, "running" or "ended"
    start,         \* the StartOrResume command
    session,       \* session_id
    nextControl,   \* next_control_id
    nextTurn,      \* next_turn_id
    controls,      \* pending_controls, each with its kind
    attentions,    \* pending_attentions
    current,       \* current_turn
    armed,         \* turn_deadline is set
    quiesced,      \* quiesced
    piece,         \* the read future holds the beginning of a frame
    cut,           \* the beginning of the next frame is lost
    frames,        \* frames read, bounded by MaxFrames
    \* history
    announced,     \* sessions reported Ready
    worked,        \* turns reported Working
    finished,      \* turns reported TurnCompleted
    offered,       \* requests reported AttentionRequested, with their turn
    written        \* request -> answers written to the process

reported == <<announced, worked, finished, offered, written>>
reading == <<piece, cut, frames>>
claudeVars == <<mode, start, session, nextControl, nextTurn, controls, attentions,
                current, armed, quiesced, reading, reported>>

StartCommand == [resume: SessionId \cup {None}, input: BOOLEAN, readOnly: BOOLEAN]
CurrentTurn == [id: Nat, working: BOOLEAN, interrupted: BOOLEAN]
PendingControl == (1..MaxControl) \X {"Initialize", "Interrupt"}

ASSUME NoTurnAssumption == None \notin CurrentTurn

(***************************************************************************)
(* What the process can say.  "valid" stands for the checks of a frame's    *)
(* own contents: the tool list of a read-only session, the flags of a       *)
(* replay, the subtype of a result, the success of a control response.      *)
(***************************************************************************)
Frame ==
    [type: {"init", "assistant", "user", "result"}, session: SessionId, valid: BOOLEAN]
      \cup [type: {"control_request"}, request: ControlId, question: BOOLEAN]
      \cup [type: {"control_cancel_request"}, request: ControlId]
      \cup [type: {"control_response"}, control: 1..MaxControl, valid: BOOLEAN]
      \cup [type: {"system", "other", "malformed"}]

-----------------------------------------------------------------------------
(* refresh_turn_deadline, over the turn and the requests a handler leaves.  *)
Refreshed(turn, asked) == turn # None /\ asked = {}

(* emit_working_if_needed                                                   *)
Working(turn, s) ==
    IF turn = None \/ s = None THEN turn
    ELSE [id |-> turn.id, working |-> TRUE, interrupted |-> turn.interrupted]

NowWorked(turn, s) == IF turn = None \/ s = None THEN {} ELSE {turn.id}

(* CommandRejected is reported and the actor goes on.                       *)
Reject ==
    UNCHANGED <<mode, start, session, nextControl, nextTurn, controls, attentions,
                current, armed, quiesced, reported>>

(* A failure that ends the actor and its process.                           *)
Die ==
    /\ mode' = "ended"
    /\ UNCHANGED <<start, session, nextControl, nextTurn, controls, attentions, current,
                   armed, quiesced, reported>>

(* begin_turn, when the input can be written                                *)
BeginTurn(s) ==
    LET turn == [id |-> nextTurn, working |-> FALSE, interrupted |-> FALSE] IN
    /\ nextTurn' = nextTurn + 1
    /\ current' = Working(turn, s)
    /\ worked' = worked \cup NowWorked(turn, s)
    /\ armed' = Refreshed(current', attentions)

(* send_control_request                                                     *)
SendControl(kind) ==
    /\ nextControl <= MaxControl
    /\ nextControl' = nextControl + 1
    /\ controls' = controls \cup {<<nextControl, kind>>}

-----------------------------------------------------------------------------
(***************************************************************************)
(* Actor::run before the process is there.  A start fails to spawn, or its  *)
(* first write fails, or the actor waits for the answer to initialize.      *)
(***************************************************************************)
StartOrResume(cmd) ==
    /\ mode = "waiting"
    /\ start' = cmd
    /\ \/ mode' = "running" /\ SendControl("Initialize")
       \/ mode' = "ended" /\ UNCHANGED <<nextControl, controls>>
    /\ UNCHANGED <<session, nextTurn, attentions, current, armed, quiesced, reading, reported>>

RejectEarly == mode = "waiting" /\ Reject /\ UNCHANGED reading

(* Shutdown or the end of the handle before there is a process.             *)
LeaveEarly ==
    /\ mode = "waiting" /\ mode' = "ended"
    /\ UNCHANGED <<start, session, nextControl, nextTurn, controls, attentions, current,
                   armed, quiesced, reading, reported>>

-----------------------------------------------------------------------------
(***************************************************************************)
(* Actor::handle_command.                                                   *)
(***************************************************************************)
(* A command is taken: the read future and what it holds are dropped.       *)
TakeCommand ==
    /\ mode = "running"
    /\ cut' = (cut \/ piece) /\ piece' = FALSE
    /\ UNCHANGED frames

MaySendTurn == ~quiesced /\ session # None /\ current = None /\ attentions = {}

SendTurn ==
    /\ TakeCommand
    /\ \/ /\ MaySendTurn /\ nextTurn <= MaxTurn
          /\ BeginTurn(session)
          /\ UNCHANGED <<mode, start, session, nextControl, controls, attentions, quiesced,
                         announced, finished, offered, written>>
       \/ /\ MaySendTurn /\ nextTurn <= MaxTurn        \* the input is not written
          /\ nextTurn' = nextTurn + 1
          /\ UNCHANGED <<mode, start, session, nextControl, controls, attentions, current,
                         armed, quiesced, reported>>
       \/ Reject

(* Mutant of respond: the deadline is not started again. *)
respondUntimed(r) ==
    /\ written' = [written EXCEPT ![r] = @ + 1]
    /\ attentions' = attentions \ {r}
    /\ UNCHANGED <<mode, start, session, nextControl, nextTurn, controls, current, armed,
                   quiesced, announced, worked, finished, offered>>

(* The answer to a pending request is written and reported resolved.        *)
respond(r) ==
    /\ written' = [written EXCEPT ![r] = @ + 1]
    /\ attentions' = attentions \ {r}
    /\ armed' = IF attentions' = {} THEN Refreshed(current, {}) ELSE armed
    /\ UNCHANGED <<mode, start, session, nextControl, nextTurn, controls, current,
                   quiesced, announced, worked, finished, offered>>

Respond(r) ==
    /\ TakeCommand
    /\ \E o \in offered : o[1] = r
    /\ \/ r \in attentions /\ respond(r)
       \/ Reject

Interrupt ==
    /\ TakeCommand
    /\ \/ /\ current # None /\ \A c \in controls : c[2] # "Interrupt"
          /\ SendControl("Interrupt")
          /\ current' = [id |-> current.id, working |-> current.working, interrupted |-> TRUE]
          /\ UNCHANGED <<mode, start, session, nextTurn, attentions, armed, quiesced,
                         reported>>
       \/ /\ current # None /\ nextControl <= MaxControl  \* the request is not written
          /\ \A c \in controls : c[2] # "Interrupt"
          /\ nextControl' = nextControl + 1
          /\ UNCHANGED <<mode, start, session, nextTurn, controls, attentions, current,
                         armed, quiesced, reported>>
       \/ Reject

Quiesce ==
    /\ TakeCommand
    /\ quiesced' = TRUE
    /\ UNCHANGED <<mode, start, session, nextControl, nextTurn, controls, attentions, current,
                   armed, reported>>

RejectStart == TakeCommand /\ Reject

(* Shutdown, which also reports Stopped, and the end of the handle.         *)
Shutdown ==
    /\ mode = "running" /\ mode' = "ended"
    /\ UNCHANGED <<start, session, nextControl, nextTurn, controls, attentions, current,
                   armed, quiesced, reading, reported>>

-----------------------------------------------------------------------------
(***************************************************************************)
(* The handlers of frames: for each the condition under which it returns    *)
(* Ok and what it then does.                                                *)
(***************************************************************************)
(* require_current_session                                                  *)
OfSession(f) == session # None /\ f.session = session

InitOk(f) ==
    /\ start.readOnly => f.valid
    /\ start.resume # None => f.session = start.resume
    /\ session # None => f.session = session

(* Mutant of InitFrame: a turn that waited for the session is not reported. *)
InitFrameSilent(f) ==
    /\ session' = f.session
    /\ announced' = announced \cup (IF announced = {} THEN {f.session} ELSE {})
    /\ armed' = Refreshed(current, attentions)
    /\ UNCHANGED <<nextControl, nextTurn, controls, attentions, current, worked, finished,
                   offered, written>>

(* handle_system                                                            *)
InitFrame(f) ==
    /\ session' = f.session
    /\ announced' = announced \cup (IF announced = {} THEN {f.session} ELSE {})
    /\ current' = Working(current, f.session)
    /\ worked' = worked \cup NowWorked(current, f.session)
    /\ armed' = Refreshed(current, attentions)
    /\ UNCHANGED <<nextControl, nextTurn, controls, attentions, finished, offered, written>>

(* handle_user_replay                                                       *)
Replay ==
    /\ current' = Working(current, session)
    /\ worked' = worked \cup NowWorked(current, session)
    /\ armed' = Refreshed(current, attentions)
    /\ UNCHANGED <<session, nextControl, nextTurn, controls, attentions, announced, finished,
                   offered, written>>

(* Mutant of ResultOk: a result ends the turn although a question is open. *)
ResultOkAsking(f) == OfSession(f) /\ f.valid /\ current # None

(* handle_result                                                            *)
ResultOk(f) == OfSession(f) /\ attentions = {} /\ f.valid /\ current # None

Result ==
    /\ finished' = finished \cup {current.id}
    /\ current' = None
    /\ armed' = FALSE
    /\ UNCHANGED <<session, nextControl, nextTurn, controls, attentions, announced, worked,
                   offered, written>>

(* handle_control_request                                                   *)
RequestOk(f) ==
    /\ start.readOnly => f.question
    /\ session # None /\ current # None
    /\ f.request \notin attentions

Request(f) ==
    /\ attentions' = attentions \cup {f.request}
    /\ armed' = FALSE
    /\ offered' = offered \cup {<<f.request, current.id>>}
    /\ written' = [written EXCEPT ![f.request] = 0]
    /\ UNCHANGED <<session, nextControl, nextTurn, controls, current, announced, worked, finished>>

(* handle_control_response                                                  *)
ResponseOk(f) ==
    /\ f.valid
    /\ \E c \in controls : c[1] = f.control
    /\ <<f.control, "Initialize">> \in controls /\ start.input => current = None

InitializeResponse(f) ==
    LET s == IF start.resume # None THEN start.resume ELSE session IN
    /\ session' = s
    /\ announced' = announced \cup (IF start.resume # None /\ announced = {} THEN {s} ELSE {})
    /\ IF start.input THEN BeginTurn(s)
       ELSE armed' = FALSE /\ UNCHANGED <<nextTurn, current, worked>>

Response(f) ==
    /\ controls' = {c \in controls : c[1] # f.control}
    /\ IF <<f.control, "Initialize">> \in controls THEN InitializeResponse(f)
       ELSE /\ armed' = Refreshed(current, attentions)
            /\ UNCHANGED <<session, nextTurn, current, announced, worked>>
    /\ UNCHANGED <<nextControl, attentions, finished, offered, written>>

(* Response, when the initial input cannot be written: Ready may be out.    *)
InitialInputFails(f) ==
    /\ f.type = "control_response" /\ f.valid /\ start.input
    /\ <<f.control, "Initialize">> \in controls
    /\ mode' = "ended"
    /\ IF start.resume # None
       THEN /\ session' = start.resume
            /\ announced' = announced \cup (IF announced = {} THEN {session'} ELSE {})
       ELSE UNCHANGED <<session, announced>>
    /\ UNCHANGED <<start, nextControl, nextTurn, controls, attentions, current, armed,
                   quiesced, worked, finished, offered, written>>

(* handle_control_cancel: nobody is told.                                   *)
Cancel(f) ==
    /\ attentions' = attentions \ {f.request}
    /\ armed' = Refreshed(current, attentions')
    /\ UNCHANGED <<session, nextControl, nextTurn, controls, current, reported>>

Unread ==
    UNCHANGED <<session, nextControl, nextTurn, controls, attentions, current, armed, reported>>

Refresh ==
    /\ armed' = Refreshed(current, attentions)
    /\ UNCHANGED <<session, nextControl, nextTurn, controls, attentions, current, reported>>

(* handle_frame: does it return Ok, and what does it do                     *)
FrameOk(f) ==
    CASE f.type = "init" -> InitOk(f)
      [] f.type = "assistant" -> OfSession(f) /\ f.valid /\ current # None
      [] f.type = "user" -> OfSession(f) /\ f.valid
      [] f.type = "result" -> ResultOk(f)
      [] f.type = "control_request" -> RequestOk(f)
      [] f.type = "control_response" -> ResponseOk(f)
      [] f.type = "control_cancel_request" -> f.request \in attentions
      [] f.type = "malformed" -> FALSE
      [] OTHER -> TRUE

handle_frame(f) ==
    \/ f.type = "init" /\ InitFrame(f)
    \/ f.type \in {"system", "assistant"} /\ Refresh
    \/ f.type = "user" /\ Replay
    \/ f.type = "result" /\ Result
    \/ f.type = "control_request" /\ Request(f)
    \/ f.type = "control_response" /\ Response(f)
    \/ f.type = "control_cancel_request" /\ Cancel(f)
    \/ f.type = "other" /\ Unread

-----------------------------------------------------------------------------
(***************************************************************************)
(* read_bounded_frame and the branches of select!.                          *)
(***************************************************************************)
ReadPiece ==
    /\ mode = "running" /\ ~piece /\ ~cut /\ frames < MaxFrames
    /\ piece' = TRUE
    /\ UNCHANGED <<mode, start, session, nextControl, nextTurn, controls, attentions,
                   current, armed, quiesced, cut, frames, reported>>

ReadFrame(f) ==
    /\ mode = "running" /\ ~cut /\ frames < MaxFrames
    /\ (\E c \in controls : c[2] = "Initialize")
          => f.type \in {"control_response", "system", "other", "malformed"}
    /\ frames' = frames + 1
    /\ piece' = FALSE /\ UNCHANGED cut
    /\ \/ FrameOk(f) /\ handle_frame(f) /\ UNCHANGED <<mode, start, quiesced>>
       \/ InitialInputFails(f)
       \/ ~FrameOk(f) /\ Die

(* The rest of a frame whose beginning was lost, or the end of the stream.  *)
ReadFails ==
    /\ mode = "running"
    /\ Die /\ UNCHANGED reading

TimesOut ==
    /\ mode = "running"
    /\ armed \/ controls # {}
    /\ Die /\ UNCHANGED reading

ClaudeInit ==
    /\ mode = "waiting" /\ start = None /\ session = None
    /\ nextControl = 1 /\ nextTurn = 1
    /\ controls = {} /\ attentions = {} /\ current = None
    /\ armed = FALSE /\ quiesced = FALSE
    /\ piece = FALSE /\ cut = FALSE /\ frames = 0
    /\ announced = {} /\ worked = {} /\ finished = {} /\ offered = {}
    /\ written = [r \in ControlId |-> 0]

Command ==
    \/ \E cmd \in StartCommand : StartOrResume(cmd)
    \/ RejectEarly \/ LeaveEarly
    \/ SendTurn \/ Interrupt \/ Quiesce \/ RejectStart \/ Shutdown
    \/ \E r \in ControlId : Respond(r)

ClaudeNext ==
    \/ Command
    \/ ReadPiece \/ ReadFails \/ TimesOut
    \/ \E f \in Frame : ReadFrame(f)

ClaudeSpec == ClaudeInit /\ [][ClaudeNext]_claudeVars

(***************************************************************************)
(* The clock runs: a deadline that stays set passes.                        *)
(***************************************************************************)
ClaudeFairness == WF_claudeVars(TimesOut)

-----------------------------------------------------------------------------
(***************************************************************************)
(* Types of the actor's fields and of the history.                          *)
(***************************************************************************)
ClaudeTypeOK ==
    /\ mode \in {"waiting", "running", "ended"}
    /\ start \in StartCommand \cup {None}
    /\ session \in SessionId \cup {None}
    /\ nextControl \in 1..(MaxControl + 1) /\ nextTurn \in 1..(MaxTurn + 1)
    /\ controls \subseteq PendingControl /\ attentions \subseteq ControlId
    /\ current \in CurrentTurn \cup {None}
    /\ armed \in BOOLEAN /\ quiesced \in BOOLEAN
    /\ piece \in BOOLEAN /\ cut \in BOOLEAN /\ frames \in 0..MaxFrames
    /\ announced \subseteq SessionId
    /\ worked \subseteq 1..MaxTurn /\ finished \subseteq 1..MaxTurn
    /\ offered \subseteq ControlId \X (1..MaxTurn)
    /\ written \in [ControlId -> Nat]

(***************************************************************************)
(* What handle_provider_event of the server relies on: Ready comes before   *)
(* every other report of the run, for one session only, which is the one to *)
(* resume if there is one; and a turn is reported Working before it asks or *)
(* ends, and ends once, in whatever order replays, inits and results come.  *)
(***************************************************************************)
ReportsInOrder ==
    /\ worked # {} \/ finished # {} \/ offered # {} => announced # {}
    /\ announced \subseteq {session}
    /\ announced # {} /\ start.resume # None => announced = {start.resume}
    /\ finished \subseteq worked
    /\ \A o \in offered : o[2] \in worked
    /\ current # None => \A t \in finished : t < current.id

(***************************************************************************)
(* A request that can still be answered belongs to the turn that runs, is   *)
(* not answered yet and stops the turn's clock: no answer of the user       *)
(* reaches a later turn or is written twice, no turn is over with a request *)
(* on offer, and none times out while the user is asked.                    *)
(***************************************************************************)
RequestsOfTurn ==
    /\ \A r \in attentions : current # None /\ <<r, current.id>> \in offered /\ written[r] = 0
    /\ \A r \in ControlId : written[r] <= 1
    /\ attentions # {} => ~armed

(***************************************************************************)
(* A turn that waits for nobody ends, asks or is given up: whatever frames, *)
(* answers and withdrawals came before, its deadline is running.            *)
(***************************************************************************)
TurnEnds ==
    (mode = "running" /\ current # None /\ attentions = {})
        ~> (mode = "ended" \/ current = None \/ attentions # {})
=============================================================================
