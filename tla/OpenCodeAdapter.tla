--------------------------- MODULE OpenCodeAdapter ---------------------------
(***************************************************************************)
(* The actor that drives an OpenCode server for one session                 *)
(* (src/src/managed_provider/opencode.rs).  It learns of the session in two *)
(* ways that race: requests it waits for, which tell how things are, and a  *)
(* stream of events, which tells how they were.  While it waits for an      *)
(* answer the session goes on and events pile up in the stream.             *)
(*                                                                          *)
(* The OpenCode server is external.  Its session has turns, which make      *)
(* messages, ask for permissions and ask questions, and a session that is   *)
(* resumed may have turns nobody asked for here.  A message may be removed  *)
(* at any time.  Assumed of the server: a message is updated by the turn    *)
(* that made it, so not after the idle that ends the turn, and not once it  *)
(* is removed; its requests have names of their own.  The texts of          *)
(* messages, whose pieces are passed on as output, are left out: a piece    *)
(* that does not fit ends the actor, as does the end of the stream.         *)
(***************************************************************************)
EXTENDS Naturals, Sequences, FiniteSets

CONSTANTS
    Permission,    \* permissions the server may ask for
    Question,      \* questions the server may ask
    MaxMessages,   \* bound: messages of the session
    MaxTurns,      \* bound: turns the actor opens
    MaxStream      \* bound: events under way

ASSUME OpenCodeAssumption == MaxMessages \in Nat /\ MaxTurns \in Nat /\ MaxStream \in Nat

VARIABLES
    \* the session in the OpenCode server
    prompts,       \* turns to be done, the first is the one that runs; "own" or "other"
    busy,          \* a turn runs
    said,          \* messages of the turn that runs
    messages,      \* messages of the session, numbered from 1
    gone,          \* those that were removed
    asked,         \* permissions it waits for
    settled,       \* permissions that are granted or refused
    question,      \* questions it waits for
    closed,        \* questions that are answered or rejected
    stream,        \* events the actor has not received
    \* the actor
    at,            \* what it waits for: "start", an answer, "loop", or "ended"
    resumed,       \* follow_external_turns
    input,         \* initialize has an input to send
    phase,         \* hydration.phase is not Idle
    asks,          \* hydration.questions
    known,         \* message_roles
    pending,       \* pending_permissions
    responding,    \* those being responded to
    turn,          \* current_turn, at most one
    turns,         \* turns opened: next_turn_id - 1
    halted,        \* quiesced
    \* history
    readied,       \* Ready was reported
    working,       \* turn -> times it was reported Working
    outcomes,      \* turns reported TurnCompleted, with the outcome
    posts,         \* permission -> replies the server may have applied
    resolved,      \* permissions reported ResponseResolved
    crossed,       \* when a prompt was sent somebody else's turn was to be done, or
                   \* an update was under way of a message that is removed
    erred          \* the server reported an error

messageVars == <<said, messages, gone>>
requestVars == <<asked, settled, question, closed>>
sessionVars == <<prompts, busy, messageVars, requestVars>>
hydration == <<phase, asks>>
actorVars == <<resumed, input, hydration, known, pending, responding, turn, turns, halted>>
historyVars == <<readied, working, outcomes, posts, resolved>>
openCodeVars == <<sessionVars, stream, at, actorVars, historyVars, crossed, erred>>

SseEvent ==
    [type: {"busy", "idle", "error"}]
      \cup [type: {"message", "removed"}, id: 1..MaxMessages]
      \cup [type: {"asked", "replied"}, id: Permission]
      \cup [type: {"question", "answered"}, id: Question]

OpenTurn == [id: 1..MaxTurns, armed: BOOLEAN, shown: BOOLEAN, interrupted: BOOLEAN]
NewTurn(n) == [id |-> n, armed |-> FALSE, shown |-> FALSE, interrupted |-> FALSE]
Sending == {"sendStatus", "sendMessages", "sendPost"}

-----------------------------------------------------------------------------
(***************************************************************************)
(* The session.  Its events reach the actor in order once open_sse has      *)
(* opened the stream.                                                       *)
(***************************************************************************)
Send(s) ==
    IF at = "start" THEN UNCHANGED stream
    ELSE Len(stream) + Len(s) <= MaxStream /\ stream' = stream \o s

SessionStep(A) == at # "ended" /\ A /\ UNCHANGED <<at, actorVars, historyVars>>

(* A turn that was not asked for here, of a session that was resumed.       *)
OtherPrompt ==
    /\ at # "start" => resumed
    /\ \A i \in DOMAIN prompts : prompts[i] # "other"
    /\ prompts' = Append(prompts, "other")
    /\ UNCHANGED <<busy, messageVars, requestVars, stream, crossed, erred>>

Begin ==
    /\ prompts # <<>> /\ ~busy
    /\ busy' = TRUE /\ said' = 0
    /\ crossed' = (crossed \/ at \in Sending)
    /\ UNCHANGED <<prompts, messages, gone, requestVars, stream, erred>>

TellBusy ==
    /\ busy
    /\ Send(<<[type |-> "busy"]>>)
    /\ UNCHANGED <<sessionVars, crossed, erred>>

NewMessage ==
    /\ busy /\ messages < MaxMessages
    /\ messages' = messages + 1 /\ said' = said + 1
    /\ Send(<<[type |-> "message", id |-> messages + 1]>>)
    /\ UNCHANGED <<prompts, busy, gone, requestVars, crossed, erred>>

(* The latest message changes once more.                                    *)
ChangeMessage ==
    /\ busy /\ said > 0 /\ messages \notin gone
    /\ Send(<<[type |-> "message", id |-> messages]>>)
    /\ UNCHANGED <<sessionVars, crossed, erred>>

(* A message is removed, as a session that is reverted does.                *)
RemoveMessage(m) ==
    /\ m \in (1..messages) \ gone
    /\ gone' = gone \cup {m}
    /\ Send(<<[type |-> "removed", id |-> m]>>)
    /\ UNCHANGED <<prompts, busy, said, messages, requestVars, crossed, erred>>

Ask(p) ==
    /\ busy /\ p \notin asked \cup settled
    /\ asked' = asked \cup {p}
    /\ Send(<<[type |-> "asked", id |-> p]>>)
    /\ UNCHANGED <<prompts, busy, messageVars, settled, question, closed, crossed, erred>>

(* A permission is settled without the actor, as one granted for good is.   *)
SettleElsewhere(p) ==
    /\ p \in asked
    /\ asked' = asked \ {p} /\ settled' = settled \cup {p}
    /\ Send(<<[type |-> "replied", id |-> p]>>)
    /\ UNCHANGED <<prompts, busy, messageVars, question, closed, crossed, erred>>

AskQuestion(q) ==
    /\ busy /\ q \notin question \cup closed
    /\ question' = question \cup {q}
    /\ Send(<<[type |-> "question", id |-> q]>>)
    /\ UNCHANGED <<prompts, busy, messageVars, asked, settled, closed, crossed, erred>>

(* A question is answered or rejected by somebody else.                     *)
AnswerQuestion(q) ==
    /\ q \in question
    /\ question' = question \ {q} /\ closed' = closed \cup {q}
    /\ Send(<<[type |-> "answered", id |-> q]>>)
    /\ UNCHANGED <<prompts, busy, messageVars, asked, settled, crossed, erred>>

TellError ==
    /\ busy
    /\ erred' = TRUE
    /\ Send(<<[type |-> "error"]>>)
    /\ UNCHANGED <<sessionVars, crossed>>

GoIdle ==
    /\ busy /\ said > 0 /\ asked = {} /\ question = {}
    /\ busy' = FALSE /\ said' = 0 /\ prompts' = Tail(prompts)
    /\ Send(<<[type |-> "idle"]>>)
    /\ UNCHANGED <<messages, gone, requestVars, crossed, erred>>

(* What POST /session/{id}/abort does when it is acknowledged.  That it     *)
(* rejects the questions is told too, which nobody reads: the actor ends or *)
(* is in its loop, where question.rejected is skipped.                      *)
Aborted ==
    /\ prompts' = <<>> /\ busy' = FALSE /\ said' = 0
    /\ question' = {} /\ closed' = closed \cup question
    /\ \E order \in [1..Cardinality(asked) -> asked] :
          /\ \A p \in asked : \E i \in DOMAIN order : order[i] = p
          /\ Send([i \in DOMAIN order |-> [type |-> "replied", id |-> order[i]]]
                    \o <<[type |-> "idle"]>>)
    /\ asked' = {} /\ settled' = settled \cup asked
    /\ UNCHANGED <<messages, gone>>

SessionNext ==
    SessionStep(\/ OtherPrompt \/ Begin \/ TellBusy \/ NewMessage \/ ChangeMessage
                \/ \E m \in 1..MaxMessages : RemoveMessage(m)
                \/ \E p \in Permission : Ask(p) \/ SettleElsewhere(p)
                \/ \E q \in Question : AskQuestion(q) \/ AnswerQuestion(q)
                \/ TellError \/ GoIdle)

-----------------------------------------------------------------------------
(***************************************************************************)
(* Actor::run and initialize: the process, the session, the stream.  Any    *)
(* failure ends the actor.                                                  *)
(***************************************************************************)
Start(resume, withInput) ==
    /\ at = "start"
    /\ ~resume => prompts = <<>> /\ messages = 0
    /\ resumed' = resume /\ input' = withInput
    /\ at' = (IF resume THEN "status1" ELSE IF withInput THEN "sendStatus" ELSE "loop")
    /\ readied' = ~resume
    /\ UNCHANGED <<sessionVars, stream, hydration, known, pending, responding, turn, turns,
                   halted, working, outcomes, posts, resolved, crossed, erred>>

(* The stream or a request fails, a message does not fit, the command       *)
(* channel closes or says Shutdown.                                         *)
Ends ==
    /\ at # "ended"
    /\ at' = "ended"
    /\ UNCHANGED <<sessionVars, stream, actorVars, historyVars, crossed, erred>>

(* hydrate_resume: six requests, between which the session goes on.         *)
Wait(now, next) ==
    /\ at = now /\ at' = next
    /\ UNCHANGED <<sessionVars, stream, resumed, input, responding, turn, turns, halted,
                   historyVars, crossed, erred>>

LoadStatus(now, next) ==
    /\ Wait(now, next)
    /\ phase' = busy
    /\ UNCHANGED <<asks, known, pending>>

LoadPermissions ==
    /\ Wait("permissions", "questions")
    /\ pending' = asked
    /\ UNCHANGED <<hydration, known>>

LoadQuestions ==
    /\ Wait("questions", "messages1")
    /\ asks' = question
    /\ UNCHANGED <<phase, known, pending>>

LoadMessages(now, next) ==
    /\ Wait(now, next)
    /\ known' = (1..messages) \ gone
    /\ UNCHANGED <<hydration, pending>>

(* Mutant of MergeEvent: replies that race with the snapshot are dropped. *)
MergeEventUnreplied ==
    /\ at \in {"merge1", "merge2"} /\ stream # <<>>
    /\ stream' = Tail(stream)
    /\ LET e == Head(stream) IN
         /\ phase' = IF e.type \in {"busy", "idle"} THEN e.type = "busy" ELSE phase
         /\ asks' = IF e.type = "question" THEN asks \cup {e.id}
                    ELSE IF e.type = "answered" THEN asks \ {e.id} ELSE asks
         /\ known' = IF e.type = "message" THEN known \cup {e.id}
                     ELSE IF e.type = "removed" THEN known \ {e.id} ELSE known
         /\ pending' = IF e.type = "asked" THEN pending \cup {e.id} ELSE pending
         /\ at' = IF e.type = "error" THEN "ended" ELSE at
    /\ UNCHANGED <<sessionVars, resumed, input, responding, turn, turns, halted, historyVars,
                   crossed, erred>>

(* merge_initial_event, for the next event that has arrived.                *)
MergeEvent ==
    /\ at \in {"merge1", "merge2"} /\ stream # <<>>
    /\ stream' = Tail(stream)
    /\ LET e == Head(stream) IN
         /\ phase' = IF e.type \in {"busy", "idle"} THEN e.type = "busy" ELSE phase
         /\ asks' = IF e.type = "question" THEN asks \cup {e.id}
                    ELSE IF e.type = "answered" THEN asks \ {e.id} ELSE asks
         /\ known' = IF e.type = "message" THEN known \cup {e.id}
                     ELSE IF e.type = "removed" THEN known \ {e.id} ELSE known
         /\ pending' = IF e.type = "asked" THEN pending \cup {e.id}
                       ELSE IF e.type = "replied" THEN pending \ {e.id} ELSE pending
         /\ at' = IF e.type = "error" THEN "ended" ELSE at
    /\ UNCHANGED <<sessionVars, resumed, input, responding, turn, turns, halted, historyVars,
                   crossed, erred>>

(* Nothing more has arrived.                                                *)
MergeDone ==
    /\ Wait("merge1", "messages2")
    /\ UNCHANGED <<hydration, known, pending>>

(* arm_current_turn: the turn can end from now on, and is reported Working  *)
(* unless it was.                                                           *)
Arm(T) == {[t EXCEPT !.armed = TRUE, !.shown = TRUE] : t \in T}

TellWorking(T) ==
    [n \in 1..MaxTurns |->
       IF \E t \in T : t.id = n /\ ~t.shown THEN working[n] + 1 ELSE working[n]]

(* initialize after hydration.  A question cannot be answered here: the     *)
(* turn is aborted and the actor ends.  An input is sent only to an idle    *)
(* session.                                                                 *)
FinishResume ==
    /\ at = "merge2"
    /\ readied' = TRUE
    /\ phase => turns < MaxTurns
    /\ turns' = turns + (IF phase THEN 1 ELSE 0)
    /\ LET opened == IF phase THEN {NewTurn(turns')} ELSE {} IN
         turn' = Arm(opened) /\ working' = TellWorking(opened)
    /\ at' = IF asks # {} \/ (input /\ phase) THEN "ended"
             ELSE IF input THEN "sendStatus" ELSE "loop"
    /\ IF asks # {} THEN Aborted \/ UNCHANGED <<sessionVars, stream>>
       ELSE UNCHANGED <<sessionVars, stream>>
    /\ UNCHANGED <<resumed, input, hydration, known, pending, responding, halted, outcomes,
                   posts, resolved, crossed, erred>>

-----------------------------------------------------------------------------
(***************************************************************************)
(* send_turn, for the first input or a SendTurn: a look at the status, the  *)
(* messages there are, and the prompt.                                      *)
(***************************************************************************)
SendTurnCommand ==
    /\ at = "loop" /\ ~halted /\ turn = {}
    /\ at' = "sendStatus"
    /\ UNCHANGED <<sessionVars, stream, actorVars, historyVars, crossed, erred>>

(* A failure of the first input ends the actor, a later one is reported and *)
(* the actor goes on.                                                       *)
Refused == IF input THEN "ended" ELSE "loop"

SendStatus ==
    /\ at = "sendStatus"
    /\ at' \in {Refused} \cup (IF busy THEN {} ELSE {"sendMessages"})
    /\ UNCHANGED <<sessionVars, stream, actorVars, historyVars, crossed, erred>>

SendFails ==
    /\ at = "sendMessages" /\ at' = Refused
    /\ UNCHANGED <<sessionVars, stream, actorVars, historyVars, crossed, erred>>

(* An update is under way of a message that is removed: the messages there  *)
(* are do not tell that it is old.                                          *)
Withdrawn == \E i \in DOMAIN stream : stream[i].type = "message" /\ stream[i].id \in gone

(* Mutant of SendMessages: the messages there are stay unknown. *)
SendMessagesUnread ==
    /\ at = "sendMessages" /\ turns < MaxTurns
    /\ at' = "sendPost"
    /\ turns' = turns + 1
    /\ turn' = {NewTurn(turns')}
    /\ crossed' = (crossed \/ Withdrawn)
    /\ UNCHANGED <<sessionVars, stream, resumed, input, hydration, known, pending, responding,
                   halted, historyVars, erred>>

SendMessages ==
    /\ at = "sendMessages" /\ turns < MaxTurns
    /\ at' = "sendPost"
    /\ known' = (1..messages) \ gone
    /\ turns' = turns + 1
    /\ turn' = {NewTurn(turns')}
    /\ crossed' = (crossed \/ Withdrawn)
    /\ UNCHANGED <<sessionVars, stream, resumed, input, hydration, pending, responding, halted,
                   historyVars, erred>>

(* The prompt is accepted; it is refused; nobody knows.                     *)
SendPost ==
    /\ at = "sendPost"
    /\ \/ /\ at' = "loop" /\ input' = FALSE
          /\ prompts' = Append(prompts, "own")
          /\ crossed' = (crossed \/ prompts # <<>>)
          /\ UNCHANGED turn
       \/ /\ at' = Refused /\ turn' = {}
          /\ UNCHANGED <<prompts, input, crossed>>
       \/ /\ at' = "ended"
          /\ prompts' \in {prompts, Append(prompts, "own")}
          /\ UNCHANGED <<turn, input, crossed>>
    /\ UNCHANGED <<busy, messageVars, requestVars, stream, resumed, hydration, known, pending,
                   responding, turns, halted, historyVars, erred>>

-----------------------------------------------------------------------------
(***************************************************************************)
(* handle_command, the other commands.                                      *)
(***************************************************************************)
(* respond_permission: the reply is taken; it is refused, as one that was   *)
(* settled otherwise is; nobody knows, and the actor ends.                  *)
RespondPermission(p) ==
    /\ at = "loop" /\ p \in pending \ responding
    /\ \/ /\ p \in asked
          /\ asked' = asked \ {p} /\ settled' = settled \cup {p}
          /\ Send(<<[type |-> "replied", id |-> p]>>)
          /\ responding' = responding \cup {p}
          /\ posts' = [posts EXCEPT ![p] = @ + 1]
          /\ UNCHANGED at
       \/ UNCHANGED <<asked, settled, stream, responding, posts, at>>
       \/ /\ at' = "ended"
          /\ responding' = responding \cup {p}
          /\ posts' = [posts EXCEPT ![p] = @ + 1]
          /\ UNCHANGED <<asked, settled, stream>>
    /\ UNCHANGED <<prompts, busy, messageVars, question, closed, resumed, input, hydration, known,
                   pending, turn, turns, halted, readied, working, outcomes, resolved, crossed,
                   erred>>

(* abort_current_turn; without a turn to abort, or with one that is being   *)
(* aborted, the actor ends.                                                 *)
AbortTurn ==
    /\ at = "loop"
    /\ \/ \E t \in turn :
            /\ ~t.interrupted
            /\ turn' = {[t EXCEPT !.armed = TRUE, !.interrupted = TRUE]}
            /\ Aborted /\ UNCHANGED at
       \/ /\ at' = "ended"
          /\ UNCHANGED <<sessionVars, stream, turn>>
    /\ UNCHANGED <<resumed, input, hydration, known, pending, responding, turns, halted,
                   historyVars, crossed, erred>>

QuiesceTurns ==
    /\ at = "loop"
    /\ halted' = TRUE
    /\ UNCHANGED <<sessionVars, stream, at, resumed, input, hydration, known, pending,
                   responding, turn, turns, historyVars, crossed, erred>>

-----------------------------------------------------------------------------
(***************************************************************************)
(* handle_event and handle_protocol_event.                                  *)
(***************************************************************************)
Outcome(t) == IF t.interrupted THEN "Interrupted" ELSE "Completed"

(* session.status idle: only an armed turn is over.                         *)
HandleIdle ==
    LET over == {t \in turn : t.armed} IN
    /\ outcomes' = outcomes \cup {<<t.id, Outcome(t)>> : t \in over}
    /\ turn' = turn \ over
    /\ known' = IF over = {} THEN known ELSE {}
    /\ UNCHANGED <<pending, responding, turns, working, resolved>>

(* handle_session_error                                                     *)
HandleError ==
    /\ outcomes' = outcomes \cup {<<t.id, "Failed">> : t \in turn}
    /\ turn' = {}
    /\ known' = IF turn = {} THEN known ELSE {}
    /\ UNCHANGED <<pending, responding, turns, working, resolved>>

(* handle_message_updated: a new message arms the turn, and opens one if    *)
(* turns of others are followed.                                            *)
HandleMessage(m) ==
    LET opens == m \notin known /\ turn = {} /\ resumed
        opened == IF opens THEN {NewTurn(turns + 1)} ELSE turn
    IN
    /\ opens => turns < MaxTurns
    /\ turns' = turns + (IF opens THEN 1 ELSE 0)
    /\ turn' = IF m \in known THEN turn ELSE Arm(opened)
    /\ working' = IF m \in known THEN working ELSE TellWorking(opened)
    /\ known' = known \cup {m}
    /\ UNCHANGED <<pending, responding, outcomes, resolved>>

(* handle_message_removed                                                   *)
HandleRemoved(m) ==
    /\ known' = known \ {m}
    /\ UNCHANGED <<pending, responding, turn, turns, working, outcomes, resolved>>

(* handle_permission_asked                                                  *)
HandleAsked(p) ==
    /\ pending' = pending \cup {p}
    /\ UNCHANGED <<known, responding, turn, turns, working, outcomes, resolved>>

(* handle_permission_replied                                                *)
HandleReplied(p) ==
    /\ pending' = pending \ {p} /\ responding' = responding \ {p}
    /\ resolved' = resolved \cup ({p} \cap pending)
    /\ UNCHANGED <<known, turn, turns, working, outcomes>>

HandleEvent ==
    /\ at = "loop" /\ stream # <<>>
    /\ stream' = Tail(stream)
    /\ LET e == Head(stream) IN
         \/ /\ e.type \in {"busy", "answered"}
            /\ UNCHANGED <<known, pending, responding, turn, turns, working, outcomes, resolved>>
         \/ e.type = "idle" /\ HandleIdle
         \/ e.type = "error" /\ HandleError
         \/ e.type = "message" /\ HandleMessage(e.id)
         \/ e.type = "removed" /\ HandleRemoved(e.id)
         \/ e.type = "asked" /\ HandleAsked(e.id)
         \/ e.type = "replied" /\ HandleReplied(e.id)
    /\ UNCHANGED <<sessionVars, at, resumed, input, hydration, halted, readied, posts, crossed,
                   erred>>

(* handle_unsupported_question: reported, the turn aborted, the actor ends. *)
HandleQuestion ==
    /\ at = "loop" /\ stream # <<>> /\ Head(stream).type = "question"
    /\ at' = "ended"
    /\ Aborted \/ UNCHANGED <<sessionVars, stream>>
    /\ UNCHANGED <<actorVars, historyVars, crossed, erred>>

TurnTimesOut ==
    /\ at = "loop" /\ turn # {} /\ pending = {}
    /\ at' = "ended"
    /\ UNCHANGED <<sessionVars, stream, actorVars, historyVars, crossed, erred>>

-----------------------------------------------------------------------------
OpenCodeInit ==
    /\ prompts = <<>> /\ busy = FALSE /\ said = 0 /\ messages = 0 /\ gone = {}
    /\ asked = {} /\ settled = {} /\ question = {} /\ closed = {}
    /\ stream = <<>>
    /\ at = "start" /\ resumed = FALSE /\ input = FALSE
    /\ phase = FALSE /\ asks = {}
    /\ known = {} /\ pending = {} /\ responding = {}
    /\ turn = {} /\ turns = 0 /\ halted = FALSE
    /\ readied = FALSE /\ working = [n \in 1..MaxTurns |-> 0] /\ outcomes = {}
    /\ posts = [p \in Permission |-> 0] /\ resolved = {}
    /\ crossed = FALSE /\ erred = FALSE

HydrateNext ==
    \/ LoadStatus("status1", "permissions") \/ LoadPermissions \/ LoadQuestions
    \/ LoadMessages("messages1", "merge1") \/ MergeEvent \/ MergeDone
    \/ LoadMessages("messages2", "status2") \/ LoadStatus("status2", "merge2")
    \/ FinishResume

OpenCodeNext ==
    \/ SessionNext
    \/ \E resume, withInput \in BOOLEAN : Start(resume, withInput)
    \/ HydrateNext
    \/ SendTurnCommand \/ SendStatus \/ SendMessages \/ SendFails \/ SendPost
    \/ \E p \in Permission : RespondPermission(p)
    \/ AbortTurn \/ QuiesceTurns \/ HandleEvent \/ HandleQuestion
    \/ TurnTimesOut \/ Ends

OpenCodeSpec == OpenCodeInit /\ [][OpenCodeNext]_openCodeVars

-----------------------------------------------------------------------------
(***************************************************************************)
(* Types of the session, the actor and the history.                         *)
(***************************************************************************)
OpenCodeTypeOK ==
    /\ prompts \in Seq({"own", "other"}) /\ busy \in BOOLEAN
    /\ said \in 0..messages /\ messages \in 0..MaxMessages /\ gone \subseteq 1..messages
    /\ asked \subseteq Permission /\ settled \subseteq Permission
    /\ question \subseteq Question /\ closed \subseteq Question
    /\ stream \in Seq(SseEvent)
    /\ at \in {"start", "status1", "permissions", "questions", "messages1", "merge1",
               "messages2", "status2", "merge2", "loop", "ended"} \cup Sending
    /\ resumed \in BOOLEAN /\ input \in BOOLEAN /\ phase \in BOOLEAN /\ asks \subseteq Question
    /\ known \subseteq 1..MaxMessages
    /\ pending \subseteq Permission /\ responding \subseteq pending
    /\ turn \subseteq OpenTurn /\ Cardinality(turn) <= 1 /\ turns \in 0..MaxTurns
    /\ halted \in BOOLEAN /\ readied \in BOOLEAN
    /\ working \in [1..MaxTurns -> Nat]
    /\ outcomes \subseteq (1..MaxTurns) \X {"Completed", "Interrupted", "Failed"}
    /\ posts \in [Permission -> Nat] /\ resolved \subseteq Permission
    /\ crossed \in BOOLEAN /\ erred \in BOOLEAN

(***************************************************************************)
(* No event of an earlier turn ends the prompt that was sent: while it is   *)
(* to be done or is being done, its turn is on show.  The messages there    *)
(* are, which the actor asks for before it sends, tell the old events from  *)
(* the new ones: that fails, and an old idle may end the prompt, when an    *)
(* error is reported, when somebody else's turn is in its way, or when a    *)
(* message was removed whose update the actor has yet to receive            *)
(* (crossed).  A turn reported Completed was reported Working before, no    *)
(* turn is reported Working twice, and none before Ready.                   *)
(***************************************************************************)
OwnTurnIsShown ==
    /\ at = "loop" /\ ~crossed /\ ~erred /\ (\E i \in DOMAIN prompts : prompts[i] = "own")
         => turn # {}
    /\ (\E n \in 1..MaxTurns : working[n] > 0) \/ outcomes # {} \/ resolved # {} => readied
    /\ \A n \in 1..MaxTurns : working[n] <= 1
    /\ \A o \in outcomes : o[2] = "Completed" => working[o[1]] = 1
    /\ \A o \in outcomes, t \in turn : o[1] < t.id

(***************************************************************************)
(* Once all events are received the actor agrees with the session, whatever *)
(* the snapshots of a resume and the events that raced with them said: it   *)
(* offers the permissions the server waits for, and shows no turn of an     *)
(* idle session (which rests on the server updating no message once the     *)
(* turn that made it is idle).  A permission is answered at most once and   *)
(* reported resolved only when the server has settled it.                   *)
(***************************************************************************)
QuietAgrees ==
    /\ at = "loop" /\ stream = <<>> =>
         /\ pending = asked
         /\ prompts = <<>> => turn = {}
    /\ resolved \subseteq settled
    /\ \A p \in Permission : posts[p] <= 1
=============================================================================
