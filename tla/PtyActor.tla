------------------------------ MODULE PtyActor ------------------------------
(***************************************************************************)
(* The thread that owns a pane's terminal and its handle in the server     *)
(* (pty/actor/unix.rs).  User input passes a gate and a bounded channel;   *)
(* control calls (quiesce, duplicate, roll back, release) pass a second    *)
(* channel and wait for a reply with a timeout, so that a reply may come   *)
(* after its caller has given up.  One thread makes the control calls, any *)
(* number of tasks write.                                                  *)
(*                                                                         *)
(* An input is Size bytes, so that a write may stop in the middle of one.  *)
(* A resize or a read may make the emulator answer: that answer is written *)
(* behind what is pending.                                                 *)
(***************************************************************************)
EXTENDS Naturals, Sequences, FiniteSets, SequencesExt

CONSTANTS
  Input,       \* pieces of user input, each written once
  Answer,      \* an answer of the emulator
  Size,        \* bytes of a piece
  Capacity,    \* ACTOR_COMMAND_BUFFER
  MaxCalls,    \* bound on the control calls
  MaxAnswers   \* bound on the resizes and reads with an answer

ASSUME AnswerAssumption == Answer \notin Input
ASSUME SizeAssumption ==
  /\ Size \in Nat \ {0} /\ Capacity \in Nat \ {0}
  /\ MaxCalls \in Nat /\ MaxAnswers \in Nat

VARIABLES
  accepting,   \* UserWriteGate
  checked,     \* inputs whose writer passed the gate and waits for capacity
  permits,     \* inputs whose writer holds a permit of the channel
  refused,     \* inputs returned to their writers
  accepted,    \* inputs put into the channel, in order
  data,        \* the data channel
  control,     \* the control channel
  call,        \* the number of control calls; a reply names its call
  waiting,     \* what the control thread waits for
  reply,       \* the reply to the call it waits for
  paused,      \* the last begin_handoff succeeded and was not rolled back
  resize,      \* SharedPtyControls holds a resize
  answers,     \* resizes and reads so far
  step,        \* where the actor is in its loop
  state,       \* ActorState
  pending,     \* pending_writes
  offset,      \* current_write_offset
  out,         \* bytes that reached the terminal
  faulted      \* a write to the terminal failed

gate == <<accepting, checked, permits, refused, accepted>>
caller == <<control, call, waiting, reply, paused>>
actor == <<step, state, pending, offset, out, faulted>>
ptyVars == <<gate, data, caller, resize, answers, actor>>

Running == step # "exit"
Fresh(i) == i \notin checked \cup permits \cup refused \cup Range(accepted)
Bytes(i) == [k \in 1..Size |-> <<i, k>>]

\* An actor of an import server starts quiesced with its gate shut.
PtyInit ==
  /\ paused \in BOOLEAN
  /\ accepting = ~paused
  /\ checked = {} /\ permits = {} /\ refused = {}
  /\ accepted = <<>> /\ data = <<>>
  /\ control = <<>> /\ call = 0 /\ waiting = "none" /\ reply = "none"
  /\ resize = FALSE /\ answers = 0
  /\ step = "control"
  /\ state = IF paused THEN "Quiesced" ELSE "Running"
  /\ pending = <<>> /\ offset = 0 /\ out = <<>> /\ faulted = FALSE

(***************************************************************************)
(* Writers.  The gate is read under its lock; with a permit the input goes *)
(* into the channel under the same lock that closed the gate.              *)
(***************************************************************************)
Refuse(i) == refused' = refused \cup {i}

Send(i) ==
  /\ data' = Append(data, i)
  /\ accepted' = Append(accepted, i)

HasCapacity == Len(data) + Cardinality(permits) < Capacity

TryWriteUserInput(i) ==
  /\ Fresh(i)
  /\ IF accepting /\ HasCapacity /\ Running
     THEN Send(i) /\ UNCHANGED refused
     ELSE Refuse(i) /\ UNCHANGED <<data, accepted>>
  /\ UNCHANGED <<accepting, checked, permits, caller, resize, answers, actor>>

CheckGate(i) ==
  /\ Fresh(i)
  /\ IF accepting
     THEN checked' = checked \cup {i} /\ UNCHANGED refused
     ELSE Refuse(i) /\ UNCHANGED checked
  /\ UNCHANGED <<accepting, permits, accepted, data, caller, resize, answers,
                 actor>>

Reserve(i) ==
  /\ i \in checked
  /\ checked' = checked \ {i}
  /\ \/ /\ Running /\ HasCapacity
        /\ permits' = permits \cup {i}
        /\ UNCHANGED refused
     \/ /\ ~Running
        /\ Refuse(i)
        /\ UNCHANGED permits
  /\ UNCHANGED <<accepting, accepted, data, caller, resize, answers, actor>>

\* Mutant of SendReserved: the gate is not read again.
SendReservedBlindly(i) ==
  /\ i \in permits
  /\ permits' = permits \ {i}
  /\ Send(i)
  /\ UNCHANGED <<accepting, checked, refused, caller, resize, answers, actor>>

SendReserved(i) ==
  /\ i \in permits
  /\ permits' = permits \ {i}
  /\ IF accepting
     THEN Send(i) /\ UNCHANGED refused
     ELSE Refuse(i) /\ UNCHANGED <<data, accepted>>
  /\ UNCHANGED <<accepting, checked, caller, resize, answers, actor>>

(***************************************************************************)
(* Control calls.                                                          *)
(***************************************************************************)
Call(kind) ==
  /\ control' = Append(control, [kind |-> kind, call |-> call + 1])
  /\ call' = call + 1
  /\ waiting' = kind
  /\ reply' = "none"

Return == waiting' = "none" /\ reply' = "none" /\ UNCHANGED <<control, call>>

CallsLeft == waiting = "none" /\ call < MaxCalls

\* A send to an actor that has ended opens the gate again.
BeginHandoff ==
  /\ CallsLeft
  /\ \/ /\ Running
        /\ accepting' = FALSE
        /\ Call("begin")
     \/ /\ ~Running
        /\ accepting' = TRUE
        /\ UNCHANGED <<control, call, waiting, reply>>
  /\ UNCHANGED <<checked, permits, refused, accepted, data, paused, resize,
                 answers, actor>>

BeginReturns ==
  /\ waiting = "begin"
  /\ reply = "ok"
  /\ Return
  /\ paused' = TRUE
  /\ UNCHANGED <<gate, data, resize, answers, actor>>

\* An error or the timeout: the handle asks for a rollback itself.
BeginFails ==
  /\ waiting = "begin"
  /\ reply # "ok"
  /\ IF Running THEN Call("rollback") ELSE Return
  /\ UNCHANGED <<gate, data, paused, resize, answers, actor>>

RollbackHandoff ==
  /\ CallsLeft /\ paused /\ Running
  /\ Call("rollback")
  /\ UNCHANGED <<gate, data, paused, resize, answers, actor>>

\* Only a reply opens the gate; after the timeout it stays shut.
RollbackReturns ==
  /\ waiting = "rollback"
  /\ paused' = FALSE
  /\ accepting' = (accepting \/ reply = "ok")
  /\ Return
  /\ UNCHANGED <<checked, permits, refused, accepted, data, resize, answers,
                 actor>>

DuplicateForHandoff ==
  /\ CallsLeft /\ paused /\ Running
  /\ Call("duplicate")
  /\ UNCHANGED <<gate, data, paused, resize, answers, actor>>

\* The runtime is consumed by its release and by its shutdown: no call follows.
ReleaseAfterCommit ==
  /\ CallsLeft /\ paused /\ Running
  /\ accepting' = FALSE
  /\ Call("release")
  /\ UNCHANGED <<checked, permits, refused, accepted, data, paused, resize,
                 answers, actor>>

DuplicateReturns ==
  /\ waiting = "duplicate"
  /\ Return
  /\ UNCHANGED <<gate, data, paused, resize, answers, actor>>

Shutdown ==
  /\ CallsLeft
  /\ accepting' = FALSE
  /\ control' = Append(control, [kind |-> "shutdown", call |-> call + 1])
  /\ call' = call + 1
  /\ waiting' = "shutdown"
  /\ UNCHANGED <<checked, permits, refused, accepted, data, reply, paused,
                 resize, answers, actor>>

\* The server resizes a pane between its control calls.
Resize ==
  /\ waiting = "none"
  /\ answers < MaxAnswers
  /\ resize' = TRUE
  /\ answers' = answers + 1
  /\ UNCHANGED <<gate, data, caller, actor>>

(***************************************************************************)
(* The actor's loop: control, data, controls, flush, poll.                 *)
(***************************************************************************)
Reply(c, result) ==
  reply' = IF c.call = call /\ waiting # "none" THEN result ELSE reply

Received == Head(control)
NextControl ==
  control' = Tail(control) /\ UNCHANGED <<call, waiting, paused>>

TakeControl(kind) ==
  /\ step = "control"
  /\ control # <<>>
  /\ Received.kind = kind

\* Mutant of StartDraining: input still in the channel is left there.
StartDrainingPending ==
  /\ TakeControl("begin")
  /\ pending' = pending \o (IF resize THEN <<Answer>> ELSE <<>>)
  /\ resize' = FALSE
  /\ step' = "drain"
  /\ UNCHANGED <<gate, data, caller, answers, state, offset, out, faulted>>

\* begin_handoff: what was accepted is made pending, then written out.
StartDraining ==
  /\ TakeControl("begin")
  /\ data' = <<>>
  /\ pending' = pending \o data \o (IF resize THEN <<Answer>> ELSE <<>>)
  /\ resize' = FALSE
  /\ step' = "drain"
  /\ UNCHANGED <<gate, caller, answers, state, offset, out, faulted>>

Quiesce ==
  /\ step = "drain"
  /\ pending = <<>>
  /\ state' = "Quiesced"
  /\ Reply(Received, "ok")
  /\ NextControl
  /\ step' = "control"
  /\ UNCHANGED <<gate, data, resize, answers, pending, offset, out, faulted>>

\* HANDOFF_DRAIN_TIMEOUT
DrainTimesOut ==
  /\ step = "drain"
  /\ pending # <<>>
  /\ Reply(Received, "error")
  /\ NextControl
  /\ step' = "control"
  /\ UNCHANGED <<gate, data, resize, answers, state, pending, offset, out,
                 faulted>>

HandleRollback ==
  /\ TakeControl("rollback")
  /\ state' = "Running"
  /\ Reply(Received, "ok")
  /\ NextControl
  /\ UNCHANGED <<gate, data, resize, answers, step, pending, offset, out,
                 faulted>>

HandleDuplicate ==
  /\ TakeControl("duplicate")
  /\ Reply(Received, IF state = "Quiesced" THEN "ok" ELSE "error")
  /\ NextControl
  /\ UNCHANGED <<gate, data, resize, answers, actor>>

HandleRelease ==
  /\ TakeControl("release")
  /\ state' = "Released"
  /\ pending' = <<>>
  /\ Reply(Received, "ok")
  /\ NextControl
  /\ step' = "exit"
  /\ UNCHANGED <<gate, data, resize, answers, offset, out, faulted>>

HandleShutdown ==
  /\ TakeControl("shutdown")
  /\ NextControl
  /\ step' = "exit"
  /\ UNCHANGED <<gate, data, resize, answers, reply, state, pending, offset,
                 out, faulted>>

\* Mutant of ControlDone: the data channel is never drained.
ControlDoneOnly ==
  /\ step = "control"
  /\ control = <<>>
  /\ step' = "flush"
  /\ UNCHANGED <<gate, data, caller, resize, answers, state, pending, offset,
                 out, faulted>>

ControlDone ==
  /\ step = "control"
  /\ control = <<>>
  /\ step' = "data"
  /\ UNCHANGED <<gate, data, caller, resize, answers, state, pending, offset,
                 out, faulted>>

\* drain_data_commands; input that meets a quiesced actor is dropped.
HandleData ==
  /\ step = "data"
  /\ data # <<>>
  /\ data' = Tail(data)
  /\ pending' = IF state = "Running" THEN Append(pending, Head(data)) ELSE pending
  /\ UNCHANGED <<gate, caller, resize, answers, step, state, offset, out, faulted>>

\* The end of the data, and apply_pending_controls.
ApplyControls ==
  /\ step = "data"
  /\ data = <<>>
  /\ pending' = IF resize THEN Append(pending, Answer) ELSE pending
  /\ resize' = FALSE
  /\ step' = "flush"
  /\ UNCHANGED <<gate, data, caller, answers, state, offset, out, faulted>>

(***************************************************************************)
(* flush_pending_writes_once, also inside begin_handoff: bytes are written *)
(* until the terminal takes no more (FlushDone) or fails.                  *)
(***************************************************************************)
WriteByte ==
  /\ step \in {"flush", "drain"}
  /\ pending # <<>>
  /\ out' = Append(out, Bytes(Head(pending))[offset + 1])
  /\ IF offset + 1 >= Size
     THEN offset' = 0 /\ pending' = Tail(pending)
     ELSE offset' = offset + 1 /\ UNCHANGED pending
  /\ UNCHANGED <<gate, data, caller, resize, answers, step, state, faulted>>

WriteFails ==
  /\ step \in {"flush", "drain"}
  /\ pending # <<>>
  /\ pending' = <<>>
  /\ offset' = 0
  /\ faulted' = TRUE
  /\ UNCHANGED <<gate, data, caller, resize, answers, step, state, out>>

FlushDone ==
  /\ step = "flush"
  /\ step' = "poll"
  /\ UNCHANGED <<gate, data, caller, resize, answers, state, pending, offset,
                 out, faulted>>

\* poll returns with a wake, room to write (those bytes are the last ones of the
\* flush before it) or, only while running, something to read.
Poll ==
  /\ step = "poll"
  /\ step' = "control"
  /\ \/ UNCHANGED <<answers, pending>>
     \/ /\ state = "Running"
        /\ answers < MaxAnswers
        /\ answers' = answers + 1
        /\ pending' = Append(pending, Answer)
  /\ UNCHANGED <<gate, data, caller, resize, state, offset, out, faulted>>

\* End of file or an error of the terminal.
ReadFails ==
  /\ step = "poll"
  /\ state = "Running"
  /\ step' = "exit"
  /\ faulted' = TRUE
  /\ UNCHANGED <<gate, data, caller, resize, answers, state, pending, offset, out>>

WriterNext ==
  \E i \in Input :
    TryWriteUserInput(i) \/ CheckGate(i) \/ Reserve(i) \/ SendReserved(i)

CallerNext ==
  \/ BeginHandoff \/ BeginReturns \/ BeginFails \/ RollbackHandoff
  \/ RollbackReturns \/ DuplicateForHandoff \/ ReleaseAfterCommit
  \/ DuplicateReturns \/ Shutdown \/ Resize

ActorNext ==
  \/ StartDraining \/ Quiesce \/ DrainTimesOut \/ HandleRollback
  \/ HandleDuplicate \/ HandleRelease \/ HandleShutdown \/ ControlDone
  \/ HandleData \/ ApplyControls \/ WriteByte \/ WriteFails \/ FlushDone
  \/ Poll \/ ReadFails

PtyNext == WriterNext \/ CallerNext \/ ActorNext
PtySpec == PtyInit /\ [][PtyNext]_ptyVars

(***************************************************************************)
(* The actor's thread runs and the terminal keeps taking bytes, as long as *)
(* the program in the pane reads its input; writers with a permit go on.   *)
(***************************************************************************)
LivePtySpec ==
  /\ PtySpec
  /\ WF_ptyVars(ActorNext)
  /\ SF_ptyVars(WriteByte)

(***************************************************************************)
(* Properties.                                                             *)
(***************************************************************************)
Commands == {"begin", "rollback", "duplicate", "release", "shutdown"}

\* The variables have their types, and an offset is inside the first pending
\* piece.
PtyTypeOK ==
  /\ accepting \in BOOLEAN
  /\ checked \subseteq Input /\ permits \subseteq Input /\ refused \subseteq Input
  /\ accepted \in Seq(Input) /\ data \in Seq(Input)
  /\ control \in Seq([kind : Commands, call : 1..MaxCalls + 1])
  /\ call \in 0..MaxCalls + 1
  /\ waiting \in {"none"} \cup Commands
  /\ reply \in {"none", "ok", "error"}
  /\ paused \in BOOLEAN /\ resize \in BOOLEAN /\ answers \in 0..MaxAnswers
  /\ step \in {"control", "drain", "data", "flush", "poll", "exit"}
  /\ state \in {"Running", "Quiesced", "Released"}
  /\ pending \in Seq(Input \cup {Answer})
  /\ offset \in 0..Size - 1
  /\ out \in Seq((Input \cup {Answer}) \X (1..Size))
  /\ faulted \in BOOLEAN

\* The line of bytes to the terminal: those it took, then those of the pieces
\* that are pending, the first of them from its offset on, or in the channel.
Queue == pending \o data
Taken(b) == \E n \in DOMAIN out : out[n] = b
Awaits(b, p) == p \in DOMAIN Queue /\ Queue[p] = b[1] /\ (p = 1 => offset < b[2])
InLine(b) == Taken(b) \/ \E p \in DOMAIN Queue : Awaits(b, p)
Ahead(b, c) ==
  \/ \E n, m \in DOMAIN out : n < m /\ out[n] = b /\ out[m] = c
  \/ Taken(b) /\ \E p \in DOMAIN Queue : Awaits(c, p)
  \/ \E p, q \in DOMAIN Queue : p < q /\ Awaits(b, p) /\ Awaits(c, q)

\* Byte b was accepted before byte c.
Before(b, c) ==
  \/ b[1] = c[1] /\ b[2] < c[2]
  \/ \E x, y \in DOMAIN accepted : x < y /\ accepted[x] = b[1] /\ accepted[y] = c[1]

\* Every input the handle accepted reaches the terminal whole, once and in the
\* order of acceptance, or is still queued, across quiescing, rollback and
\* release; only a failing terminal loses any.  That is: the bytes in line are
\* those of the accepted pieces, and they stand in the order of acceptance (a
\* byte in two places would be ahead of itself).
InputDelivered ==
  ~faulted =>
    /\ \A b \in Input \X (1..Size) : InLine(b) <=> b[1] \in Range(accepted)
    /\ \A b, c \in Input \X (1..Size) : Ahead(b, c) => Before(b, c)

\* When begin_handoff has succeeded, all input accepted so far is in the
\* terminal, so that a release of the actor loses none.  And while the gate is
\* open the actor runs and nothing that stops it is on its way, however late a
\* reply to an earlier call was: accepted input cannot meet a quiesced actor.
QuiescedIsDrained ==
  /\ paused => data = <<>> /\ \A k \in 1..Len(pending) : pending[k] = Answer
  /\ accepting /\ Running =>
       /\ state = "Running"
       /\ step # "drain"
       /\ \A k \in 1..Len(control) : control[k].kind \in {"rollback", "duplicate"}

\* Accepted input is written in the end, unless the terminal or the actor goes.
AcceptedIsWritten ==
  \A i \in Input :
    i \in Range(accepted) ~> <<i, Size>> \in Range(out) \/ faulted \/ ~Running
=============================================================================
