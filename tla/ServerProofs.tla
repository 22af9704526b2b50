---------------------------- MODULE ServerProofs ----------------------------
(***************************************************************************)
(* The handoff of a running server and the actor of a pane's terminal, for  *)
(* any number of panes, attempts and inputs.                                *)
(***************************************************************************)
EXTENDS LiveHandoff, PtyActor, TLAPS

(***************************************************************************)
(* The inductive invariant of LiveHandoff: what each process is and has at  *)
(* each of its steps.  The two sides never see each other's state; they are *)
(* tied by the lock of the store, by the public sockets, which nobody binds *)
(* while another listens, and by the line "owned", which is in the old      *)
(* server's inbox only when its import server is past the point of failing. *)
(***************************************************************************)
Preparing == {"spawn", "duplicate", "accept", "validate", "restored", "ready"}
Released == {"commit", "ack", "terminate", "revert"}
Handing == {"pause", "commit", "ack", "terminate"} \cup Preparing
Settled == {"assume", "unpause", "run"}

OldState ==
  /\ pc[Old] = "pause" => own[Old] = "owned"
  /\ pc[Old] \in Preparing => own[Old] = "prepared"
  /\ pc[Old] \in Released => own[Old] = "released"
  /\ pc[Old] = "rollback" => own[Old] \in {"owned", "prepared", "released"}
  /\ pc[Old] \in {"idle", "restore"} /\ quit = "no" => own[Old] = "owned"
  /\ pc[Old] \notin {"idle", "restore", "exit"} => quit = "no" /\ attempt \in New
  /\ IF quit = "no" THEN holds[Old] ELSE reads[Old] = {}
  /\ reads[Old] # {} => own[Old] = "owned"

NewState(n) ==
  /\ pc[n] \in {"none", "connect", "manifest", "fds", "observe", "exit"} => own[n] = "none"
  /\ pc[n] \in {"close", "bind", "committed", "acquire"} => own[n] = "observing"
  /\ pc[n] \in {"report"} \cup Settled => own[n] = "owned"
  /\ reads[n] # {} => pc[n] \in {"unpause", "run"}
  /\ pc[n] \in {"observe", "close", "bind", "committed", "acquire", "report"} \cup Settled
       => holds[n]
  /\ killer[n] => pc[n] \in {"unpause", "run", "exit"}
  /\ pc[n] \in {"committed", "acquire", "report"} \cup Settled => public = {n}
  /\ attempt < n => pc[n] = "none"
  /\ n = attempt /\ pc[Old] \in {"pause", "spawn"} => pc[n] = "none"

NewStates == \A n \in New : NewState(n)

OneLock == \A p, q \in Process : p # q => ~(Locks(p) /\ Locks(q))

Says(lines, line) == \E i \in 1..Len(lines) : lines[i] = line

OwnedLine ==
  pc[Old] \in Handing /\ Says(inbox[Old], "owned") => pc[attempt] \in Settled

PanesLive ==
  /\ quit # "uncertain" => alive
  /\ quit = "handedOff" => \E n \in New : pc[n] \in Settled

HandoffInv ==
  HandoffTypeOK /\ OldState /\ NewStates /\ OneLock /\ OwnedLine /\ PanesLive

USE DEF Old

LEMMA ProcessFacts ==
    /\ MaxAttempts \in Nat
    /\ Old \in Process /\ Old \notin New
    /\ \A n \in New : n \in Process /\ n # Old /\ n \in Nat
    /\ \A p \in Process : p = Old \/ p \in New
    /\ \A a \in 0..MaxAttempts : a \in Process
  BY AttemptsAssumption DEF New, Process

(* A line that is read or written, and what is said then.                   *)
LEMMA SaysTail ==
    ASSUME NEW lines \in Seq(Line), lines # <<>>, NEW line
    PROVE  /\ Tail(lines) \in Seq(Line)
           /\ Says(Tail(lines), line) => Says(lines, line)
           /\ Head(lines) = line => Says(lines, line)
  BY DEF Says

LEMMA SaysAppend ==
    ASSUME NEW lines \in Seq(Line), NEW new \in Line, NEW line
    PROVE  /\ Append(lines, new) \in Seq(Line)
           /\ Says(Append(lines, new), line) => Says(lines, line) \/ line = new
  BY DEF Says

LEMMA SaysNothing == ASSUME NEW line PROVE ~Says(<<>>, line)
  BY DEF Says

(* One reader and no loss, from the invariant.                              *)
LEMMA HandoffInvImplies == HandoffInv => OneReader /\ NothingLost
<1> SUFFICES ASSUME HandoffInv PROVE OneReader /\ NothingLost
  OBVIOUS
<1>1. \A p \in Process : reads[p] # {} => own[p] = "owned"
  BY ProcessFacts DEF HandoffInv, OldState, NewStates, NewState, Settled
<1>2. OneReader
  BY <1>1 DEF OneReader, HandoffInv, OneLock, Locks
<1>3. NothingLost
  <2>1. quit = "handedOff" => \E n \in New : own[n] = "owned" /\ holds[n]
    BY DEF HandoffInv, PanesLive, NewStates, NewState
  <2>2. ASSUME NEW n \in New, own[n] = "owned"
        PROVE  public = {n}
    BY <2>2 DEF HandoffInv, HandoffTypeOK, NewStep, NewStates, NewState, Settled
  <2> QED
    BY <2>1, <2>2 DEF NothingLost, HandoffInv, PanesLive
<1> QED
  BY <1>2, <1>3

(***************************************************************************)
(* Steps that only move the program counters and the lines.                 *)
(***************************************************************************)
LEMMA BeginKeeps == HandoffInv /\ Begin => HandoffInv'
<1> SUFFICES ASSUME HandoffInv, Begin PROVE HandoffInv'
  OBVIOUS
<1> USE ProcessFacts
<1>0. /\ pc[Old] = "idle" /\ quit = "no" /\ attempt \in 0..MaxAttempts
      /\ attempt' = attempt + 1 /\ attempt' \in New
      /\ pc' = [pc EXCEPT ![Old] = "pause"]
      /\ inbox' = [inbox EXCEPT ![Old] = <<>>]
      /\ UNCHANGED <<own, fence, head, reads, holds, killer, public, quit, alive>>
  BY DEF Begin, Goto, memory, HandoffInv, HandoffTypeOK, New
<1>1. HandoffTypeOK'
  BY <1>0 DEF HandoffInv, HandoffTypeOK, OldStep, New
<1>2. OldState'
  BY <1>0 DEF HandoffInv, HandoffTypeOK, OldState, Preparing, Released
<1>3. NewStates'
  BY <1>0 DEF HandoffInv, HandoffTypeOK, NewStates, NewState
<1>4. OneLock' /\ PanesLive'
  BY <1>0 DEF HandoffInv, HandoffTypeOK, OneLock, Locks, PanesLive
<1>5. OwnedLine'
  BY <1>0, SaysNothing DEF HandoffInv, HandoffTypeOK, OwnedLine
<1> QED
  BY <1>1, <1>2, <1>3, <1>4, <1>5 DEF HandoffInv

LEMMA PauseKeeps == ASSUME NEW p \in Panes, HandoffInv, Pause(p) PROVE HandoffInv'
<1> USE ProcessFacts
<1>0. /\ pc[Old] = "pause"
      /\ \/ reads' = [reads EXCEPT ![Old] = @ \ {p}] /\ pc' = pc
         \/ reads' = reads /\ pc' = [pc EXCEPT ![Old] = "rollback"]
      /\ UNCHANGED <<attempt, own, fence, head, holds, killer, public, inbox, quit, alive>>
  BY DEF Pause, Goto
<1>1. HandoffTypeOK'
  BY <1>0 DEF HandoffInv, HandoffTypeOK, OldStep
<1>2. OldState'
  BY <1>0 DEF HandoffInv, HandoffTypeOK, OldState, Preparing, Released
<1>3. NewStates'
  BY <1>0 DEF HandoffInv, HandoffTypeOK, NewStates, NewState
<1>4. OneLock' /\ PanesLive'
  BY <1>0 DEF HandoffInv, HandoffTypeOK, OneLock, Locks, PanesLive
<1>5. OwnedLine'
  BY <1>0 DEF HandoffInv, HandoffTypeOK, OwnedLine, Handing, Preparing, OldState
<1> QED
  BY <1>1, <1>2, <1>3, <1>4, <1>5 DEF HandoffInv

LEMMA PrepareKeeps == HandoffInv /\ Prepare => HandoffInv'
<1> SUFFICES ASSUME HandoffInv, Prepare PROVE HandoffInv'
  OBVIOUS
<1> USE ProcessFacts
<1>0. /\ pc[Old] = "pause" /\ reads[Old] = {}
      /\ \/ /\ own[Old] = "owned" /\ own' = [own EXCEPT ![Old] = "prepared"]
            /\ fence' = head /\ pc' = [pc EXCEPT ![Old] = "spawn"]
         \/ UNCHANGED <<own, fence>> /\ pc' = [pc EXCEPT ![Old] = "rollback"]
      /\ UNCHANGED <<attempt, head, reads, holds, killer, public, inbox, quit, alive>>
  BY DEF Prepare, Goto
<1>1. HandoffTypeOK'
  BY ZenonT(40), <1>0 DEF HandoffInv, HandoffTypeOK, OldStep, Ownership
<1>2. OldState'
  BY <1>0 DEF HandoffInv, HandoffTypeOK, OldState, Preparing, Released
<1>3. NewStates'
  BY <1>0 DEF HandoffInv, HandoffTypeOK, NewStates, NewState
<1>4. OneLock' /\ PanesLive'
  BY <1>0 DEF HandoffInv, HandoffTypeOK, OneLock, Locks, PanesLive
<1>5. OwnedLine'
  BY <1>0 DEF HandoffInv, HandoffTypeOK, OwnedLine, Handing, Preparing, OldState
<1> QED
  BY <1>1, <1>2, <1>3, <1>4, <1>5 DEF HandoffInv

LEMMA SpawnKeeps == HandoffInv /\ Spawn => HandoffInv'
<1> SUFFICES ASSUME HandoffInv, Spawn PROVE HandoffInv'
  OBVIOUS
<1> USE ProcessFacts
<1>0. /\ pc[Old] = "spawn" /\ attempt \in New /\ pc[attempt] = "none"
      /\ \/ pc' = [pc EXCEPT ![Old] = "duplicate", ![attempt] = "connect"]
         \/ pc' = [pc EXCEPT ![Old] = "rollback"]
      /\ UNCHANGED <<attempt, inbox, own, fence, head, reads, holds, killer, public, quit, alive>>
  BY DEF Spawn, Goto, memory, HandoffInv, HandoffTypeOK, OldState, NewStates, NewState, New
<1>1. HandoffTypeOK'
  BY <1>0 DEF HandoffInv, HandoffTypeOK, OldStep, NewStep
<1>2. OldState'
  BY <1>0 DEF HandoffInv, HandoffTypeOK, OldState, Preparing, Released
<1>3. NewStates'
  BY <1>0 DEF HandoffInv, HandoffTypeOK, NewStates, NewState, Settled
<1>4. OneLock' /\ PanesLive'
  BY <1>0 DEF HandoffInv, HandoffTypeOK, OneLock, Locks, PanesLive, OldState
<1>5. OwnedLine'
  BY <1>0 DEF HandoffInv, HandoffTypeOK, OwnedLine, Handing, Preparing, Settled
<1> QED
  BY <1>1, <1>2, <1>3, <1>4, <1>5 DEF HandoffInv

(* Lines written and read: what the old server's inbox says then.           *)
LEMMA WriteOld ==
    ASSUME HandoffInv, NEW l \in Line,
           inbox' = [inbox EXCEPT ![Old] = Append(inbox[Old], l)]
    PROVE  /\ inbox' \in [Process -> Seq(Line)]
           /\ Says(inbox'[Old], "owned") => Says(inbox[Old], "owned") \/ l = "owned"
<1>1. inbox \in [Process -> Seq(Line)] /\ Old \in Process /\ inbox[Old] \in Seq(Line)
  BY ProcessFacts DEF HandoffInv, HandoffTypeOK
<1>2. /\ Append(inbox[Old], l) \in Seq(Line)
      /\ Says(Append(inbox[Old], l), "owned") => Says(inbox[Old], "owned") \/ l = "owned"
  BY <1>1, SaysAppend
<1> HIDE DEF Old
<1> QED
  BY <1>1, <1>2

LEMMA ReadNew ==
    ASSUME HandoffInv, NEW n \in New, inbox[n] # <<>>,
           inbox' = [inbox EXCEPT ![n] = Tail(inbox[n])]
    PROVE  inbox' \in [Process -> Seq(Line)] /\ inbox'[Old] = inbox[Old]
<1>1. /\ inbox \in [Process -> Seq(Line)] /\ Old \in Process /\ n \in Process /\ n # Old
      /\ inbox[n] \in Seq(Line)
  BY ProcessFacts DEF HandoffInv, HandoffTypeOK
<1>2. Tail(inbox[n]) \in Seq(Line)
  BY <1>1, SaysTail
<1> HIDE DEF Old
<1> QED
  BY <1>1, <1>2

(* The old server reads a line of its inbox or is told nothing, and goes on. *)
LEMMA ReadLine ==
    ASSUME HandoffInv, inbox[Old] # <<>>
    PROVE  /\ Tail(inbox[Old]) \in Seq(Line)
           /\ \A l \in Line : Says(Tail(inbox[Old]), l) => Says(inbox[Old], l)
<1>1. inbox[Old] \in Seq(Line)
  BY ProcessFacts DEF HandoffInv, HandoffTypeOK
<1> QED
  BY <1>1, SaysTail

LEMMA TalkKeeps ==
    ASSUME HandoffInv, Accept \/ SendFds
    PROVE  HandoffInv'
<1> USE ProcessFacts
<1>0. /\ pc[Old] \in {"accept", "validate"} /\ attempt \in New /\ inbox[Old] # <<>>
      /\ pc' = [pc EXCEPT ![Old] = IF pc[Old] = "accept" THEN "validate" ELSE "restored"]
      /\ \E l \in Line :
           inbox' = [inbox EXCEPT ![Old] = Tail(@), ![attempt] = Append(@, l)]
      /\ UNCHANGED <<attempt, own, fence, head, reads, holds, killer, public, quit, alive>>
  BY DEF Accept, SendFds, Receives, Goto, memory, HandoffInv, OldState, Line
<1>a. /\ inbox'[Old] = Tail(inbox[Old]) /\ inbox' \in [Process -> Seq(Line)]
  <2>1. /\ inbox \in [Process -> Seq(Line)] /\ Tail(inbox[Old]) \in Seq(Line)
        /\ inbox[attempt] \in Seq(Line)
    BY <1>0, ReadLine DEF HandoffInv, HandoffTypeOK
  <2>2. PICK l \in Line :
          inbox' = [inbox EXCEPT ![Old] = Tail(@), ![attempt] = Append(@, l)]
    BY <1>0
  <2>3. Append(inbox[attempt], l) \in Seq(Line)
    BY <2>1, SaysAppend
  <2> QED
    BY <1>0, <2>1, <2>2, <2>3
<1>1. HandoffTypeOK'
  BY <1>0, <1>a DEF HandoffInv, HandoffTypeOK, OldStep
<1>2. OldState'
  BY <1>0 DEF HandoffInv, HandoffTypeOK, OldState, Preparing, Released
<1>3. NewStates'
  BY <1>0 DEF HandoffInv, HandoffTypeOK, NewStates, NewState
<1>4. OneLock' /\ PanesLive'
  BY <1>0 DEF HandoffInv, HandoffTypeOK, OneLock, Locks, PanesLive
<1>5. OwnedLine'
  BY <1>0, <1>a, ReadLine DEF HandoffInv, HandoffTypeOK, OwnedLine, OldState, Handing, Preparing, Line
<1> QED
  BY <1>1, <1>2, <1>3, <1>4, <1>5 DEF HandoffInv

LEMMA UnlinkKeeps == HandoffInv /\ Unlink => HandoffInv'
<1> SUFFICES ASSUME HandoffInv, Unlink PROVE HandoffInv'
  OBVIOUS
<1> USE ProcessFacts
<1>0. /\ pc[Old] = "restored" /\ inbox[Old] # <<>>
      /\ pc' = [pc EXCEPT ![Old] = "ready"]
      /\ inbox' = [inbox EXCEPT ![Old] = Tail(inbox[Old])]
      /\ public' = public \ {Old}
      /\ UNCHANGED <<attempt, own, fence, head, reads, holds, killer, quit, alive>>
  BY DEF Unlink, Receives, Consume, Goto
<1>a. /\ inbox'[Old] = Tail(inbox[Old]) /\ inbox' \in [Process -> Seq(Line)]
  BY <1>0, ReadLine DEF HandoffInv, HandoffTypeOK
<1>1. HandoffTypeOK'
  BY <1>0, <1>a DEF HandoffInv, HandoffTypeOK, OldStep
<1>2. OldState'
  BY <1>0 DEF HandoffInv, HandoffTypeOK, OldState, Preparing, Released
<1>3. NewStates'
  BY <1>0 DEF HandoffInv, HandoffTypeOK, NewStates, NewState
<1>4. OneLock' /\ PanesLive'
  BY <1>0 DEF HandoffInv, HandoffTypeOK, OneLock, Locks, PanesLive
<1>5. OwnedLine'
  BY <1>0, <1>a, ReadLine DEF HandoffInv, HandoffTypeOK, OwnedLine, OldState, Handing, Preparing, Line
<1> QED
  BY <1>1, <1>2, <1>3, <1>4, <1>5 DEF HandoffInv

LEMMA RelinquishKeeps == HandoffInv /\ Relinquish => HandoffInv'
<1> SUFFICES ASSUME HandoffInv, Relinquish PROVE HandoffInv'
  OBVIOUS
<1> USE ProcessFacts
<1>0. /\ pc[Old] = "ready" /\ inbox[Old] # <<>>
      /\ pc' = [pc EXCEPT ![Old] = "commit"]
      /\ inbox' = [inbox EXCEPT ![Old] = Tail(inbox[Old])]
      /\ own' = [own EXCEPT ![Old] = "released"]
      /\ UNCHANGED <<attempt, fence, head, reads, holds, killer, public, quit, alive>>
  BY DEF Relinquish, Receives, Consume, Goto
<1>a. /\ inbox'[Old] = Tail(inbox[Old]) /\ inbox' \in [Process -> Seq(Line)]
  BY <1>0, ReadLine DEF HandoffInv, HandoffTypeOK
<1>1. HandoffTypeOK'
  BY <1>0, <1>a DEF HandoffInv, HandoffTypeOK, OldStep, Ownership
<1>2. OldState'
  BY <1>0 DEF HandoffInv, HandoffTypeOK, OldState, Preparing, Released
<1>3. NewStates'
  BY <1>0 DEF HandoffInv, HandoffTypeOK, NewStates, NewState
<1>4. OneLock' /\ PanesLive'
  BY <1>0 DEF HandoffInv, HandoffTypeOK, OneLock, Locks, PanesLive
<1>5. OwnedLine'
  BY <1>0, <1>a, ReadLine DEF HandoffInv, HandoffTypeOK, OwnedLine, OldState, Handing, Preparing, Line
<1> QED
  BY <1>1, <1>2, <1>3, <1>4, <1>5 DEF HandoffInv

LEMMA ReportCommittedKeeps == HandoffInv /\ ReportCommitted => HandoffInv'
<1> SUFFICES ASSUME HandoffInv, ReportCommitted PROVE HandoffInv'
  OBVIOUS
<1> USE ProcessFacts
<1>0. /\ pc[Old] = "commit" /\ attempt \in New
      /\ pc' = [pc EXCEPT ![Old] = "ack"]
      /\ inbox' = [inbox EXCEPT ![attempt] = Append(inbox[attempt], "committed")]
      /\ UNCHANGED <<attempt, own, fence, head, reads, holds, killer, public, quit, alive>>
  BY DEF ReportCommitted, Write, Goto, memory, HandoffInv, OldState
<1>1. HandoffTypeOK'
  BY <1>0 DEF HandoffInv, HandoffTypeOK, OldStep, Line
<1>2. OldState'
  BY <1>0 DEF HandoffInv, HandoffTypeOK, OldState, Preparing, Released
<1>3. NewStates'
  BY <1>0 DEF HandoffInv, HandoffTypeOK, NewStates, NewState
<1>4. OneLock' /\ PanesLive'
  BY <1>0 DEF HandoffInv, HandoffTypeOK, OneLock, Locks, PanesLive
<1>5. OwnedLine'
  BY <1>0 DEF HandoffInv, HandoffTypeOK, OwnedLine, OldState, Handing, Preparing
<1> QED
  BY <1>1, <1>2, <1>3, <1>4, <1>5 DEF HandoffInv

(* The old server steps on without touching anything else.                  *)
LEMMA OldMovesKeeps ==
    ASSUME HandoffInv,
           \/ pc[Old] = "duplicate" /\ pc' = [pc EXCEPT ![Old] = "accept"]
           \/ pc[Old] = "ack" /\ pc' = [pc EXCEPT ![Old] = "terminate"]
           \/ /\ pc[Old] \in {"duplicate", "accept", "validate", "restored", "ready", "commit"}
              /\ pc' = [pc EXCEPT ![Old] = "rollback"],
           UNCHANGED <<attempt, inbox, memory>>
    PROVE  HandoffInv'
<1> USE ProcessFacts
<1>0. UNCHANGED <<attempt, inbox, own, fence, head, reads, holds, killer, public, quit, alive>>
  BY DEF memory
<1>1. HandoffTypeOK'
  BY <1>0 DEF HandoffInv, HandoffTypeOK, OldStep
<1>2. OldState'
  BY <1>0 DEF HandoffInv, HandoffTypeOK, OldState, Preparing, Released
<1>3. NewStates'
  BY <1>0 DEF HandoffInv, HandoffTypeOK, NewStates, NewState
<1>4. OneLock' /\ PanesLive'
  BY <1>0 DEF HandoffInv, HandoffTypeOK, OneLock, Locks, PanesLive
<1>5. OwnedLine'
  BY <1>0 DEF HandoffInv, HandoffTypeOK, OwnedLine, OldState, Handing, Preparing
<1> QED
  BY <1>1, <1>2, <1>3, <1>4, <1>5 DEF HandoffInv

(* The import server is killed: the old server still holds the terminals.   *)
LEMMA KilledKeeps ==
    ASSUME HandoffInv,
           \/ /\ pc[Old] \in {"duplicate", "accept", "validate", "restored", "ready", "commit"}
              /\ pc' = [pc EXCEPT ![Old] = "rollback", ![attempt] = "exit"]
           \/ pc[Old] = "terminate" /\ pc' = [pc EXCEPT ![Old] = "revert", ![attempt] = "exit"],
           Killed(attempt), UNCHANGED inbox
    PROVE  HandoffInv'
<1> USE ProcessFacts
<1>0. /\ attempt \in New /\ quit = "no" /\ holds[Old] /\ alive
      /\ own' = [own EXCEPT ![attempt] = "none"]
      /\ reads' = [reads EXCEPT ![attempt] = {}]
      /\ holds' = [holds EXCEPT ![attempt] = FALSE]
      /\ public' = public \ {attempt}
      /\ UNCHANGED <<attempt, fence, head, killer, quit, inbox>>
  BY DEF HandoffInv, OldState, PanesLive, Killed, End
<1>a. alive' = TRUE
  <2>1. alive' = (alive /\ ~(FALSE /\ killer[attempt] /\ holds[attempt])
                     /\ \E q \in Process \ {attempt} : holds[q])
    BY DEF Killed, End
  <2>2. \E q \in Process \ {attempt} : holds[q]
    BY <1>0
  <2> QED
    BY <1>0, <2>1, <2>2
<1>1. HandoffTypeOK'
  BY ZenonT(40), <1>0, <1>a DEF HandoffInv, HandoffTypeOK, OldStep, NewStep, Ownership
<1>2. OldState'
  BY <1>0 DEF HandoffInv, HandoffTypeOK, OldState, Preparing, Released
<1>3. NewStates'
  BY <1>0 DEF HandoffInv, HandoffTypeOK, NewStates, NewState, Settled
<1>4. OneLock' /\ PanesLive'
  BY <1>0, <1>a DEF HandoffInv, HandoffTypeOK, OneLock, Locks, PanesLive
<1>5. OwnedLine'
  BY <1>0 DEF HandoffInv, HandoffTypeOK, OwnedLine, OldState, Handing, Preparing
<1> QED
  BY <1>1, <1>2, <1>3, <1>4, <1>5 DEF HandoffInv

LEMMA CleanupKeeps == HandoffInv /\ (Duplicate \/ Fail \/ AckFails) => HandoffInv'
<1> SUFFICES ASSUME HandoffInv, Duplicate \/ Fail \/ AckFails PROVE HandoffInv'
  OBVIOUS
<1>1. CASE AckFails
  BY <1>1, OldMovesKeeps DEF AckFails, Goto
<1>2. CASE Duplicate
  BY <1>2, OldMovesKeeps, KilledKeeps DEF Duplicate, CleanupFailed, Goto
<1>3. CASE Fail
  BY <1>3, OldMovesKeeps, KilledKeeps DEF Fail, CleanupFailed, Goto
<1> QED
  BY <1>1, <1>2, <1>3

(* The acknowledgement: the line says that the import server has settled,   *)
(* and so holds the terminals the old server closes.                        *)
LEMMA OwnedAckKeeps == HandoffInv /\ OwnedAck => HandoffInv'
<1> SUFFICES ASSUME HandoffInv, OwnedAck PROVE HandoffInv'
  OBVIOUS
<1> USE ProcessFacts
<1>0. /\ pc[Old] = "ack" /\ inbox[Old] # <<>> /\ attempt \in New
      /\ quit = "no" /\ alive
      /\ pc' = [pc EXCEPT ![Old] = "idle"]
      /\ inbox' = [inbox EXCEPT ![Old] = Tail(inbox[Old])]
      /\ holds' = [holds EXCEPT ![Old] = FALSE]
      /\ quit' = "handedOff"
      /\ UNCHANGED <<attempt, own, fence, head, reads, killer, public>>
  BY DEF OwnedAck, Receives, Consume, Goto, HandoffInv, OldState, PanesLive
<1>a. /\ inbox'[Old] = Tail(inbox[Old]) /\ inbox' \in [Process -> Seq(Line)]
  BY <1>0, ReadLine DEF HandoffInv, HandoffTypeOK
<1>b. pc[attempt] \in Settled /\ holds[attempt]
  <2>1. inbox[Old] \in Seq(Line) /\ Head(inbox[Old]) = "owned"
    BY DEF OwnedAck, Receives, HandoffInv, HandoffTypeOK
  <2>2. Says(inbox[Old], "owned")
    BY <1>0, <2>1, SaysTail
  <2> QED
    BY <1>0, <2>2 DEF HandoffInv, OwnedLine, Handing, NewStates, NewState
<1>c. alive' = TRUE
  <2>1. alive' = (alive /\ \E q \in New : holds[q])
    BY DEF OwnedAck
  <2> QED
    BY <1>0, <1>b, <2>1
<1>1. HandoffTypeOK'
  BY <1>0, <1>a, <1>c DEF HandoffInv, HandoffTypeOK, OldStep
<1>2. OldState'
  BY <1>0 DEF HandoffInv, HandoffTypeOK, OldState, Preparing, Released
<1>3. NewStates'
  BY <1>0 DEF HandoffInv, HandoffTypeOK, NewStates, NewState
<1>4. OneLock'
  BY <1>0 DEF HandoffInv, HandoffTypeOK, OneLock, Locks
<1>5. PanesLive'
  BY <1>0, <1>b, <1>c DEF HandoffInv, HandoffTypeOK, PanesLive
<1>6. OwnedLine'
  BY <1>0 DEF HandoffInv, HandoffTypeOK, OwnedLine, OldState, Handing, Preparing
<1> QED
  BY <1>1, <1>2, <1>3, <1>4, <1>5, <1>6 DEF HandoffInv

(* The old server stops without knowing who owns the journal.               *)
LEMMA PreserveKeeps ==
    ASSUME HandoffInv,
           pc[Old] \in {"terminate", "rollback", "revert"},
           own' = own \/ own' = [own EXCEPT ![Old] = "vacant"],
           \E s \in {"idle", "restore"} : pc' = [pc EXCEPT ![Old] = s],
           own[Old] = "released", PreserveRuntimes,
           UNCHANGED <<attempt, fence, head, killer, public, inbox>>
    PROVE  HandoffInv'
<1> USE ProcessFacts
<1>0. /\ reads' = [reads EXCEPT ![Old] = {}]
      /\ holds' = [holds EXCEPT ![Old] = FALSE]
      /\ quit' = "uncertain"
  BY DEF PreserveRuntimes
<1>a. alive' \in BOOLEAN
  BY DEF PreserveRuntimes, HandoffInv, HandoffTypeOK
<1>1. HandoffTypeOK'
  BY <1>0, <1>a DEF HandoffInv, HandoffTypeOK, OldStep, Ownership
<1>2. OldState'
  BY <1>0 DEF HandoffInv, HandoffTypeOK, OldState, Preparing, Released
<1>3. NewStates'
  BY <1>0 DEF HandoffInv, HandoffTypeOK, NewStates, NewState
<1>4. OneLock' /\ PanesLive'
  BY <1>0 DEF HandoffInv, HandoffTypeOK, OneLock, Locks, PanesLive
<1>5. OwnedLine'
  BY <1>0 DEF HandoffInv, HandoffTypeOK, OwnedLine, OldState, Handing, Preparing
<1> QED
  BY <1>1, <1>2, <1>3, <1>4, <1>5 DEF HandoffInv

(* The old server has the journal again: it never gave up the lock, or it   *)
(* found it free.                                                           *)
LEMMA ReacquireKeeps ==
    ASSUME HandoffInv, pc[Old] \in {"rollback", "revert"}, Reacquirable,
           own' = [own EXCEPT ![Old] = "owned"],
           reads' = [reads EXCEPT ![Old] = Panes],
           Goto(Old, AfterRollback),
           UNCHANGED <<holds, quit, alive, attempt, fence, head, killer, public, inbox>>
    PROVE  HandoffInv'
<1> USE ProcessFacts
<1>0. \E s \in {"idle", "restore"} : pc' = [pc EXCEPT ![Old] = s]
  BY DEF Goto, AfterRollback
<1>1. HandoffTypeOK'
  BY <1>0 DEF HandoffInv, HandoffTypeOK, OldStep, Ownership
<1>2. OldState'
  <2>1. pc'[Old] \in {"idle", "restore"} /\ own'[Old] = "owned"
    BY <1>0 DEF HandoffInv, HandoffTypeOK
  <2> QED
    BY <2>1 DEF HandoffInv, OldState, Preparing, Released
<1>3. NewStates'
  BY <1>0 DEF HandoffInv, HandoffTypeOK, NewStates, NewState
<1>4. OneLock'
  <2>1. own[Old] \in {"owned", "prepared", "released"}
    BY DEF HandoffInv, OldState, Released
  <2>2. \A q \in New : ~Locks(q)
    BY <2>1 DEF Reacquirable, Unlocked, HandoffInv, OneLock, Locks
  <2> QED
    BY <2>2 DEF HandoffInv, HandoffTypeOK, OneLock, Locks
<1>5. OwnedLine' /\ PanesLive'
  BY <1>0 DEF HandoffInv, HandoffTypeOK, OwnedLine, Handing, Preparing, PanesLive
<1> QED
  BY <1>1, <1>2, <1>3, <1>4, <1>5 DEF HandoffInv

LEMMA RollbackKeeps == HandoffInv /\ (Terminate \/ Rollback) => HandoffInv'
<1> SUFFICES ASSUME HandoffInv, Terminate \/ Rollback PROVE HandoffInv'
  OBVIOUS
<1>1. CASE Terminate
  <2>1. own[Old] = "released"
    BY <1>1 DEF Terminate, HandoffInv, OldState, Released
  <2> QED
    BY <1>1, <2>1, KilledKeeps, PreserveKeeps DEF Terminate, Goto
<1>2. CASE Rollback
  BY <1>2, PreserveKeeps, ReacquireKeeps DEF Rollback, Goto, AfterRollback
<1> QED
  BY <1>1, <1>2

LEMMA RestoreKeeps == HandoffInv /\ Restore => HandoffInv'
<1> SUFFICES ASSUME HandoffInv, Restore PROVE HandoffInv'
  OBVIOUS
<1> USE ProcessFacts
<1>0. /\ pc[Old] = "restore" /\ pc' = [pc EXCEPT ![Old] = "idle"]
      /\ public' = public \/ (public = {} /\ public' = {Old})
      /\ UNCHANGED <<attempt, own, fence, head, reads, holds, killer, inbox, quit, alive>>
  BY DEF Restore, Goto
<1>1. HandoffTypeOK'
  BY <1>0 DEF HandoffInv, HandoffTypeOK, OldStep
<1>2. OldState'
  BY <1>0 DEF HandoffInv, HandoffTypeOK, OldState, Preparing, Released
<1>3. NewStates'
  BY ZenonT(40), <1>0 DEF HandoffInv, HandoffTypeOK, NewStates, NewState
<1>4. OneLock' /\ PanesLive'
  BY <1>0 DEF HandoffInv, HandoffTypeOK, OneLock, Locks, PanesLive
<1>5. OwnedLine'
  BY <1>0 DEF HandoffInv, HandoffTypeOK, OwnedLine, OldState, Handing, Preparing
<1> QED
  BY <1>1, <1>2, <1>3, <1>4, <1>5 DEF HandoffInv

LEMMA OldExitKeeps == HandoffInv /\ OldExit => HandoffInv'
<1> SUFFICES ASSUME HandoffInv, OldExit PROVE HandoffInv'
  OBVIOUS
<1> USE ProcessFacts
<1>0. /\ pc[Old] = "idle" /\ quit # "no" /\ pc' = [pc EXCEPT ![Old] = "exit"]
      /\ own' = [own EXCEPT ![Old] = "none"]
      /\ public' = public \ {Old}
      /\ UNCHANGED <<attempt, fence, head, reads, holds, killer, inbox, quit, alive>>
  BY DEF OldExit, Goto
<1>1. HandoffTypeOK'
  BY <1>0 DEF HandoffInv, HandoffTypeOK, OldStep, Ownership
<1>2. OldState'
  BY <1>0 DEF HandoffInv, HandoffTypeOK, OldState, Preparing, Released
<1>3. NewStates'
  BY <1>0 DEF HandoffInv, HandoffTypeOK, NewStates, NewState
<1>4. OneLock' /\ PanesLive'
  BY <1>0 DEF HandoffInv, HandoffTypeOK, OneLock, Locks, PanesLive
<1>5. OwnedLine'
  BY <1>0 DEF HandoffInv, HandoffTypeOK, OwnedLine, OldState, Handing, Preparing
<1> QED
  BY <1>1, <1>2, <1>3, <1>4, <1>5 DEF HandoffInv

(***************************************************************************)
(* The import server.  Its steps leave the old server's state alone.        *)
(***************************************************************************)
LEMMA OldStateStays ==
    ASSUME HandoffInv, pc'[Old] = pc[Old], own'[Old] = own[Old], quit' = quit,
           attempt' = attempt, holds'[Old] = holds[Old], reads'[Old] = reads[Old]
    PROVE  OldState'
  BY DEF HandoffInv, OldState

(* An import server that cannot go on: others hold the terminals, and its   *)
(* destructor does not yet end their processes.                             *)
LEMMA NewFailsKeeps == ASSUME NEW n \in New, HandoffInv, NewFails(n) PROVE HandoffInv'
<1> USE ProcessFacts
<1>0. /\ pc[n] \in {"connect", "manifest", "fds", "observe", "close", "bind", "committed",
                    "acquire", "report"}
      /\ pc' = [pc EXCEPT ![n] = "exit"]
      /\ own' = [own EXCEPT ![n] = "none"]
      /\ reads' = [reads EXCEPT ![n] = {}]
      /\ holds' = [holds EXCEPT ![n] = FALSE]
      /\ public' = public \ {n}
      /\ UNCHANGED <<attempt, fence, head, killer, inbox, quit>>
      /\ pc[n] \notin Settled /\ ~killer[n]
  BY DEF NewFails, NewExit, Goto, End, Settled, HandoffInv, NewStates, NewState
<1>a. alive' \in BOOLEAN /\ (quit # "uncertain" => alive')
  <2>1. alive' = (alive /\ ~(TRUE /\ killer[n] /\ holds[n])
                     /\ \E q \in Process \ {n} : holds[q])
    BY DEF NewFails, NewExit, End
  <2>2. ASSUME quit # "uncertain"
        PROVE  alive /\ \E q \in Process \ {n} : holds[q]
    <3>1. CASE quit = "no"
      BY <2>2, <3>1 DEF HandoffInv, OldState, PanesLive
    <3>2. CASE quit = "handedOff"
      <4>1. PICK m \in New : pc[m] \in Settled
        BY <3>2 DEF HandoffInv, PanesLive
      <4>2. m # n /\ holds[m]
        BY <1>0, <4>1 DEF HandoffInv, NewStates, NewState
      <4> QED
        BY <2>2, <4>2 DEF HandoffInv, PanesLive
    <3> QED
      BY <2>2, <3>1, <3>2 DEF HandoffInv, HandoffTypeOK
  <2>3. alive \in BOOLEAN
    BY DEF HandoffInv, HandoffTypeOK
  <2> QED
    BY <1>0, <2>1, <2>2, <2>3
<1>1. HandoffTypeOK'
  BY <1>0, <1>a DEF HandoffInv, HandoffTypeOK, NewStep, Ownership
<1>2. OldState'
  BY <1>0, OldStateStays DEF HandoffInv, HandoffTypeOK
<1>3. NewStates'
  BY <1>0 DEF HandoffInv, HandoffTypeOK, NewStates, NewState, Settled
<1>4. OneLock'
  BY <1>0 DEF HandoffInv, HandoffTypeOK, OneLock, Locks
<1>5. OwnedLine'
  BY <1>0 DEF HandoffInv, HandoffTypeOK, OwnedLine
<1>6. PanesLive'
  BY <1>0, <1>a DEF HandoffInv, HandoffTypeOK, PanesLive
<1> QED
  BY <1>1, <1>2, <1>3, <1>4, <1>5, <1>6 DEF HandoffInv

LEMMA ConnectKeeps == ASSUME NEW n \in New, HandoffInv, Connect(n) PROVE HandoffInv'
<1> USE ProcessFacts
<1>0. /\ pc[n] = "connect" /\ pc' = [pc EXCEPT ![n] = "manifest"]
      /\ inbox' = [inbox EXCEPT ![Old] = Append(inbox[Old], "token")]
      /\ UNCHANGED <<attempt, own, fence, head, reads, holds, killer, public, quit, alive>>
  BY DEF Connect, Write, Goto, memory
<1>a. /\ inbox' \in [Process -> Seq(Line)]
      /\ Says(inbox'[Old], "owned") => Says(inbox[Old], "owned")
  BY <1>0, WriteOld DEF Line
<1>1. HandoffTypeOK'
  BY <1>0, <1>a DEF HandoffInv, HandoffTypeOK, NewStep, Ownership
<1>2. OldState'
  BY <1>0, OldStateStays DEF HandoffInv, HandoffTypeOK
<1>3. NewStates'
  BY <1>0 DEF HandoffInv, HandoffTypeOK, NewStates, NewState, Settled
<1>4. OneLock'
  BY <1>0 DEF HandoffInv, HandoffTypeOK, OneLock, Locks
<1>5. OwnedLine'
  BY <1>0, <1>a DEF HandoffInv, HandoffTypeOK, OwnedLine, Settled
<1>6. PanesLive'
  BY <1>0 DEF HandoffInv, HandoffTypeOK, PanesLive, Settled
<1> QED
  BY <1>1, <1>2, <1>3, <1>4, <1>5, <1>6 DEF HandoffInv

LEMMA ValidateKeeps == ASSUME NEW n \in New, HandoffInv, Validate(n) PROVE HandoffInv'
<1> USE ProcessFacts
<1>0. /\ pc[n] = "manifest" /\ pc' = [pc EXCEPT ![n] = "fds"]
      /\ inbox[n] # <<>>
      /\ inbox' = [inbox EXCEPT ![n] = Tail(inbox[n]),
                                ![Old] = Append(inbox[Old], "validated")]
      /\ UNCHANGED <<attempt, own, fence, head, reads, holds, killer, public, quit, alive>>
  BY DEF Validate, Receives, Goto, memory
<1>a. /\ inbox' \in [Process -> Seq(Line)]
      /\ Says(inbox'[Old], "owned") => Says(inbox[Old], "owned")
  <2>1. /\ inbox \in [Process -> Seq(Line)] /\ Old \in Process /\ n \in Process /\ n # Old
        /\ inbox[n] \in Seq(Line) /\ inbox[Old] \in Seq(Line) /\ "validated" \in Line
    BY DEF HandoffInv, HandoffTypeOK, Line
  <2>2. /\ Tail(inbox[n]) \in Seq(Line) /\ Append(inbox[Old], "validated") \in Seq(Line)
        /\ Says(Append(inbox[Old], "validated"), "owned") => Says(inbox[Old], "owned")
    BY <1>0, <2>1, SaysTail, SaysAppend
  <2> HIDE DEF Old
  <2> QED
    BY <1>0, <2>1, <2>2
<1>1. HandoffTypeOK'
  BY <1>0, <1>a DEF HandoffInv, HandoffTypeOK, NewStep, Ownership
<1>2. OldState'
  BY <1>0, OldStateStays DEF HandoffInv, HandoffTypeOK
<1>3. NewStates'
  BY <1>0 DEF HandoffInv, HandoffTypeOK, NewStates, NewState, Settled
<1>4. OneLock'
  BY <1>0 DEF HandoffInv, HandoffTypeOK, OneLock, Locks
<1>5. OwnedLine'
  BY <1>0, <1>a DEF HandoffInv, HandoffTypeOK, OwnedLine, Settled
<1>6. PanesLive'
  BY <1>0 DEF HandoffInv, HandoffTypeOK, PanesLive, Settled
<1> QED
  BY <1>1, <1>2, <1>3, <1>4, <1>5, <1>6 DEF HandoffInv

LEMMA ReceiveFdsKeeps == ASSUME NEW n \in New, HandoffInv, ReceiveFds(n) PROVE HandoffInv'
<1> USE ProcessFacts
<1>0. /\ pc[n] = "fds" /\ pc' = [pc EXCEPT ![n] = "observe"]
      /\ inbox[n] # <<>>
      /\ inbox' = [inbox EXCEPT ![n] = Tail(inbox[n])]
      /\ holds' = [holds EXCEPT ![n] = TRUE]
      /\ UNCHANGED <<attempt, own, fence, head, reads, killer, public, quit, alive>>
  BY DEF ReceiveFds, Receives, Consume, Goto
<1>a. inbox' \in [Process -> Seq(Line)] /\ inbox'[Old] = inbox[Old]
  BY <1>0, ReadNew
<1>1. HandoffTypeOK'
  BY <1>0, <1>a DEF HandoffInv, HandoffTypeOK, NewStep, Ownership
<1>2. OldState'
  BY <1>0, OldStateStays DEF HandoffInv, HandoffTypeOK
<1>3. NewStates'
  BY <1>0 DEF HandoffInv, HandoffTypeOK, NewStates, NewState, Settled
<1>4. OneLock'
  BY <1>0 DEF HandoffInv, HandoffTypeOK, OneLock, Locks
<1>5. OwnedLine'
  BY <1>0, <1>a DEF HandoffInv, HandoffTypeOK, OwnedLine, Settled
<1>6. PanesLive'
  BY <1>0 DEF HandoffInv, HandoffTypeOK, PanesLive, Settled
<1> QED
  BY <1>1, <1>2, <1>3, <1>4, <1>5, <1>6 DEF HandoffInv

LEMMA ObserveKeeps == ASSUME NEW n \in New, HandoffInv, Observe(n) PROVE HandoffInv'
<1> USE ProcessFacts
<1>0. /\ pc[n] = "observe" /\ pc' = [pc EXCEPT ![n] = "close"]
      /\ own' = [own EXCEPT ![n] = "observing"]
      /\ inbox' = [inbox EXCEPT ![Old] = Append(inbox[Old], "restored")]
      /\ UNCHANGED <<attempt, fence, head, reads, holds, killer, public, quit, alive>>
  BY DEF Observe, Write, Goto
<1>a. /\ inbox' \in [Process -> Seq(Line)]
      /\ Says(inbox'[Old], "owned") => Says(inbox[Old], "owned")
  BY <1>0, WriteOld DEF Line
<1>1. HandoffTypeOK'
  BY <1>0, <1>a DEF HandoffInv, HandoffTypeOK, NewStep, Ownership
<1>2. OldState'
  BY <1>0, OldStateStays DEF HandoffInv, HandoffTypeOK
<1>3. NewStates'
  BY <1>0 DEF HandoffInv, HandoffTypeOK, NewStates, NewState, Settled
<1>4. OneLock'
  BY <1>0 DEF HandoffInv, HandoffTypeOK, OneLock, Locks
<1>5. OwnedLine'
  BY <1>0, <1>a DEF HandoffInv, HandoffTypeOK, OwnedLine, Settled
<1>6. PanesLive'
  BY <1>0 DEF HandoffInv, HandoffTypeOK, PanesLive, Settled
<1> QED
  BY <1>1, <1>2, <1>3, <1>4, <1>5, <1>6 DEF HandoffInv

LEMMA CloseKeeps == ASSUME NEW n \in New, HandoffInv, Close(n) PROVE HandoffInv'
<1> USE ProcessFacts
<1>0. /\ pc[n] = "close" /\ pc' = [pc EXCEPT ![n] = "bind"]
      /\ UNCHANGED <<attempt, own, fence, head, reads, holds, killer, public, inbox, quit, alive>>
  BY DEF Close, Goto, memory
<1>1. HandoffTypeOK'
  BY <1>0 DEF HandoffInv, HandoffTypeOK, NewStep, Ownership
<1>2. OldState'
  BY <1>0, OldStateStays DEF HandoffInv, HandoffTypeOK
<1>3. NewStates'
  BY <1>0 DEF HandoffInv, HandoffTypeOK, NewStates, NewState, Settled
<1>4. OneLock'
  BY <1>0 DEF HandoffInv, HandoffTypeOK, OneLock, Locks
<1>5. OwnedLine'
  BY <1>0 DEF HandoffInv, HandoffTypeOK, OwnedLine, Settled
<1>6. PanesLive'
  BY <1>0 DEF HandoffInv, HandoffTypeOK, PanesLive, Settled
<1> QED
  BY <1>1, <1>2, <1>3, <1>4, <1>5, <1>6 DEF HandoffInv

LEMMA BindKeeps == ASSUME NEW n \in New, HandoffInv, Bind(n) PROVE HandoffInv'
<1> USE ProcessFacts
<1>0. /\ pc[n] = "bind" /\ pc' = [pc EXCEPT ![n] = "committed"]
      /\ public = {} /\ public' = {n}
      /\ inbox' = [inbox EXCEPT ![Old] = Append(inbox[Old], "ready")]
      /\ UNCHANGED <<attempt, own, fence, head, reads, holds, killer, quit, alive>>
  BY DEF Bind, Write, Goto
<1>a. /\ inbox' \in [Process -> Seq(Line)]
      /\ Says(inbox'[Old], "owned") => Says(inbox[Old], "owned")
  BY <1>0, WriteOld DEF Line
<1>1. HandoffTypeOK'
  BY <1>0, <1>a DEF HandoffInv, HandoffTypeOK, NewStep, Ownership
<1>2. OldState'
  BY <1>0, OldStateStays DEF HandoffInv, HandoffTypeOK
<1>3. NewStates'
  BY <1>0 DEF HandoffInv, HandoffTypeOK, NewStates, NewState, Settled
<1>4. OneLock'
  BY <1>0 DEF HandoffInv, HandoffTypeOK, OneLock, Locks
<1>5. OwnedLine'
  BY <1>0, <1>a DEF HandoffInv, HandoffTypeOK, OwnedLine, Settled
<1>6. PanesLive'
  BY <1>0 DEF HandoffInv, HandoffTypeOK, PanesLive, Settled
<1> QED
  BY <1>1, <1>2, <1>3, <1>4, <1>5, <1>6 DEF HandoffInv

LEMMA WaitCommittedKeeps == ASSUME NEW n \in New, HandoffInv, WaitCommitted(n) PROVE HandoffInv'
<1> USE ProcessFacts
<1>0. /\ pc[n] = "committed" /\ pc' = [pc EXCEPT ![n] = "acquire"]
      /\ inbox[n] # <<>>
      /\ inbox' = [inbox EXCEPT ![n] = Tail(inbox[n])]
      /\ UNCHANGED <<attempt, own, fence, head, reads, holds, killer, public, quit, alive>>
  BY DEF WaitCommitted, Receives, Consume, Goto, memory
<1>a. inbox' \in [Process -> Seq(Line)] /\ inbox'[Old] = inbox[Old]
  BY <1>0, ReadNew
<1>1. HandoffTypeOK'
  BY <1>0, <1>a DEF HandoffInv, HandoffTypeOK, NewStep, Ownership
<1>2. OldState'
  BY <1>0, OldStateStays DEF HandoffInv, HandoffTypeOK
<1>3. NewStates'
  BY <1>0 DEF HandoffInv, HandoffTypeOK, NewStates, NewState, Settled
<1>4. OneLock'
  BY <1>0 DEF HandoffInv, HandoffTypeOK, OneLock, Locks
<1>5. OwnedLine'
  BY <1>0, <1>a DEF HandoffInv, HandoffTypeOK, OwnedLine, Settled
<1>6. PanesLive'
  BY <1>0 DEF HandoffInv, HandoffTypeOK, PanesLive, Settled
<1> QED
  BY <1>1, <1>2, <1>3, <1>4, <1>5, <1>6 DEF HandoffInv

(* The import server takes the lock only when it is free.                   *)
LEMMA AcquireKeeps == ASSUME NEW n \in New, HandoffInv, AcquireHandoff(n) PROVE HandoffInv'
<1> USE ProcessFacts
<1>0. /\ pc[n] = "acquire" /\ pc' = [pc EXCEPT ![n] = "report"]
      /\ Unlocked
      /\ own' = [own EXCEPT ![n] = "owned"]
      /\ UNCHANGED <<attempt, fence, head, reads, holds, killer, public, inbox, quit, alive>>
  BY DEF AcquireHandoff, Goto
<1>1. HandoffTypeOK'
  BY <1>0 DEF HandoffInv, HandoffTypeOK, NewStep, Ownership
<1>2. OldState'
  BY <1>0, OldStateStays DEF HandoffInv, HandoffTypeOK
<1>3. NewStates'
  BY <1>0 DEF HandoffInv, HandoffTypeOK, NewStates, NewState, Settled
<1>4. OneLock'
  BY <1>0 DEF HandoffInv, HandoffTypeOK, OneLock, Locks, Unlocked
<1>5. OwnedLine'
  BY <1>0 DEF HandoffInv, HandoffTypeOK, OwnedLine, Settled
<1>6. PanesLive'
  BY <1>0 DEF HandoffInv, HandoffTypeOK, PanesLive, Settled
<1> QED
  BY <1>1, <1>2, <1>3, <1>4, <1>5, <1>6 DEF HandoffInv

(* It tells the old server that it owns the journal, and cannot fail then.  *)
LEMMA ReportOwnedKeeps == ASSUME NEW n \in New, HandoffInv, ReportOwned(n) PROVE HandoffInv'
<1> USE ProcessFacts
<1>0. /\ pc[n] = "report" /\ pc' = [pc EXCEPT ![n] = "assume"]
      /\ n = attempt
      /\ inbox' = [inbox EXCEPT ![Old] = Append(inbox[Old], "owned")]
      /\ UNCHANGED <<attempt, own, fence, head, reads, holds, killer, public, quit, alive>>
  BY DEF ReportOwned, Connected, Write, Goto, memory
<1>a. /\ inbox' \in [Process -> Seq(Line)]
      /\ Says(inbox'[Old], "owned") => TRUE
  BY <1>0, WriteOld DEF Line
<1>1. HandoffTypeOK'
  BY <1>0, <1>a DEF HandoffInv, HandoffTypeOK, NewStep, Ownership
<1>2. OldState'
  BY <1>0, OldStateStays DEF HandoffInv, HandoffTypeOK
<1>3. NewStates'
  BY <1>0 DEF HandoffInv, HandoffTypeOK, NewStates, NewState, Settled
<1>4. OneLock'
  BY <1>0 DEF HandoffInv, HandoffTypeOK, OneLock, Locks
<1>5. OwnedLine'
  BY <1>0, <1>a DEF HandoffInv, HandoffTypeOK, OwnedLine, Settled
<1>6. PanesLive'
  BY <1>0 DEF HandoffInv, HandoffTypeOK, PanesLive, Settled
<1> QED
  BY <1>1, <1>2, <1>3, <1>4, <1>5, <1>6 DEF HandoffInv

LEMMA AssumeKeeps == ASSUME NEW n \in New, HandoffInv, Assume(n) PROVE HandoffInv'
<1> USE ProcessFacts
<1>0. /\ pc[n] = "assume" /\ pc' = [pc EXCEPT ![n] = "unpause"]
      /\ killer' = [killer EXCEPT ![n] = TRUE]
      /\ UNCHANGED <<attempt, own, fence, head, reads, holds, public, inbox, quit, alive>>
  BY DEF Assume, Goto
<1>1. HandoffTypeOK'
  BY <1>0 DEF HandoffInv, HandoffTypeOK, NewStep, Ownership
<1>2. OldState'
  BY <1>0, OldStateStays DEF HandoffInv, HandoffTypeOK
<1>3. NewStates'
  BY <1>0 DEF HandoffInv, HandoffTypeOK, NewStates, NewState, Settled
<1>4. OneLock'
  BY <1>0 DEF HandoffInv, HandoffTypeOK, OneLock, Locks
<1>5. OwnedLine'
  BY <1>0 DEF HandoffInv, HandoffTypeOK, OwnedLine, Settled
<1>6. PanesLive'
  BY <1>0 DEF HandoffInv, HandoffTypeOK, PanesLive, Settled
<1> QED
  BY <1>1, <1>2, <1>3, <1>4, <1>5, <1>6 DEF HandoffInv

LEMMA UnpauseKeeps == ASSUME NEW n \in New, HandoffInv, Unpause(n) PROVE HandoffInv'
<1> USE ProcessFacts
<1>0. /\ pc[n] = "unpause" /\ pc' \in {pc, [pc EXCEPT ![n] = "run"]}
      /\ \E s \in SUBSET Panes : reads' = [reads EXCEPT ![n] = s]
      /\ UNCHANGED <<attempt, own, fence, head, holds, killer, public, inbox, quit, alive>>
  <2>1. /\ reads \in [Process -> SUBSET Panes] /\ n \in Process
    BY DEF HandoffInv, HandoffTypeOK
  <2>2. CASE reads' = reads
    <3>1. reads' = [reads EXCEPT ![n] = reads[n]] /\ reads[n] \in SUBSET Panes
      BY <2>1, <2>2
    <3> QED
      BY <3>1 DEF Unpause, Goto
  <2>3. ASSUME NEW p \in Panes, reads' = [reads EXCEPT ![n] = @ \cup {p}], pc' = pc
        PROVE  \E s \in SUBSET Panes : reads' = [reads EXCEPT ![n] = s]
    <3>1. reads' = [reads EXCEPT ![n] = reads[n] \cup {p}] /\ reads[n] \cup {p} \in SUBSET Panes
      BY <2>1, <2>3
    <3> QED
      BY <3>1
  <2> QED
    BY <2>2, <2>3 DEF Unpause, Goto
<1>1. HandoffTypeOK'
  <2>1. reads' \in [Process -> SUBSET Panes]
    BY <1>0 DEF HandoffInv, HandoffTypeOK
  <2> QED
    BY <1>0, <2>1 DEF HandoffInv, HandoffTypeOK, NewStep
<1>2. OldState'
  BY <1>0, OldStateStays DEF HandoffInv, HandoffTypeOK
<1>3. NewStates'
  BY <1>0 DEF HandoffInv, HandoffTypeOK, NewStates, NewState, Settled
<1>4. OneLock'
  BY <1>0 DEF HandoffInv, HandoffTypeOK, OneLock, Locks
<1>5. OwnedLine'
  BY <1>0 DEF HandoffInv, HandoffTypeOK, OwnedLine, Settled
<1>6. PanesLive'
  BY <1>0 DEF HandoffInv, HandoffTypeOK, PanesLive, Settled
<1> QED
  BY <1>1, <1>2, <1>3, <1>4, <1>5, <1>6 DEF HandoffInv

(* A commit to the journal moves its head only.                             *)
LEMMA CommitKeeps ==
    ASSUME HandoffInv, head' \in 0..MaxHead,
           UNCHANGED <<pc, attempt, own, fence, reads, holds, killer, public, inbox, quit, alive>>
    PROVE  HandoffInv'
<1>1. HandoffTypeOK'
  BY DEF HandoffInv, HandoffTypeOK
<1>2. OldState' /\ NewStates'
  BY DEF HandoffInv, OldState, NewStates, NewState
<1>3. OneLock' /\ OwnedLine' /\ PanesLive'
  BY DEF HandoffInv, OneLock, Locks, OwnedLine, PanesLive
<1> QED
  BY <1>1, <1>2, <1>3 DEF HandoffInv

LEMMA HandoffInitHolds == HandoffInit => HandoffInv
<1> SUFFICES ASSUME HandoffInit PROVE HandoffInv
  OBVIOUS
<1> USE ProcessFacts
<1>1. HandoffTypeOK
  BY HeadAssumption
  DEF HandoffInit, HandoffTypeOK, OldStep, NewStep, Ownership, Line
<1>2. OldState
  BY DEF HandoffInit, OldState, Preparing, Released
<1>3. NewStates
  BY DEF HandoffInit, NewStates, NewState, Settled
<1>4. OneLock /\ OwnedLine /\ PanesLive
  BY SaysNothing DEF HandoffInit, OneLock, Locks, OwnedLine, PanesLive
<1> QED
  BY <1>1, <1>2, <1>3, <1>4 DEF HandoffInv

LEMMA HandoffNextKeeps == HandoffInv /\ [HandoffNext]_handoffVars => HandoffInv'
<1> SUFFICES ASSUME HandoffInv, [HandoffNext]_handoffVars PROVE HandoffInv'
  OBVIOUS
<1>1. CASE OldNext
  BY <1>1, BeginKeeps, PauseKeeps, PrepareKeeps, SpawnKeeps, TalkKeeps, UnlinkKeeps,
     RelinquishKeeps, ReportCommittedKeeps, CleanupKeeps, OwnedAckKeeps, RollbackKeeps,
     RestoreKeeps, OldExitKeeps
  DEF OldNext
<1>2. ASSUME NEW n \in New, NewNext(n) PROVE HandoffInv'
  BY <1>2, ConnectKeeps, ValidateKeeps, ReceiveFdsKeeps, ObserveKeeps, CloseKeeps, BindKeeps,
     WaitCommittedKeeps, AcquireKeeps, ReportOwnedKeeps, AssumeKeeps, UnpauseKeeps, NewFailsKeeps
  DEF NewNext
<1>3. ASSUME NEW p \in Process, Commit(p) PROVE HandoffInv'
  <2>1. head' \in 0..MaxHead
    BY <1>3, HeadAssumption DEF Commit, HandoffInv, HandoffTypeOK
  <2> QED
    BY <1>3, <2>1, CommitKeeps DEF Commit
<1>4. CASE UNCHANGED handoffVars
  BY <1>4, CommitKeeps DEF handoffVars, HandoffInv, HandoffTypeOK
<1> QED
  BY <1>1, <1>2, <1>3, <1>4 DEF HandoffNext

(***************************************************************************)
(* The variables keep their types through any number of attempts.           *)
(***************************************************************************)
THEOREM HandoffTypeHolds == HandoffSpec => []HandoffTypeOK
<1>1. HandoffInv => HandoffTypeOK
  BY DEF HandoffInv
<1> QED
  BY <1>1, HandoffInitHolds, HandoffNextKeeps, PTL DEF HandoffSpec

(***************************************************************************)
(* A pane's output is read by one server at most, the one that owns the     *)
(* journal, for any number of panes and of handoffs that fail anywhere.     *)
(***************************************************************************)
THEOREM OneReaderHolds == HandoffSpec => []OneReader
  BY HandoffInvImplies, HandoffInitHolds, HandoffNextKeeps, PTL DEF HandoffSpec

(***************************************************************************)
(* A handoff loses neither the panes' processes nor, once it is complete,   *)
(* the server that has the journal, the terminals and the public sockets.   *)
(***************************************************************************)
THEOREM NothingLostHolds == HandoffSpec => []NothingLost
  BY HandoffInvImplies, HandoffInitHolds, HandoffNextKeeps, PTL DEF HandoffSpec

(***************************************************************************)
(* The inductive invariant of PtyActor.  The control channel is a queue, so *)
(* a reply to the call that is waited for means that no call is under way;  *)
(* a pane that is paused therefore has no rollback coming, and a gate that  *)
(* a reply opens has nothing coming that stops the actor.                   *)
(***************************************************************************)
OnlyAnswers(s) == \A k \in 1..Len(s) : s[k] = Answer
Lacks(calls, kinds) == \A k \in 1..Len(calls) : calls[k].kind \notin kinds

\* The calls in the channel are the last ones made, the latest is waited for.
ChannelInv ==
  /\ \A k \in 1..Len(control) : control[k].call = call - Len(control) + k
  /\ waiting # "none" /\ control # <<>> => control[Len(control)].kind = waiting
  /\ reply # "none" => waiting # "none" /\ control = <<>>
  /\ waiting = "begin" => ~accepting /\ call <= MaxCalls

\* What a reply tells, and what the actor drains.
ReplyInv ==
  /\ step = "drain" => data = <<>> /\ control # <<>> /\ control[1].kind = "begin"
  /\ waiting = "begin" /\ reply = "ok" =>
       data = <<>> /\ OnlyAnswers(pending) /\ state = "Quiesced" /\ Running
  /\ waiting = "rollback" /\ reply = "ok" /\ Running => state = "Running"

PausedInv ==
  paused =>
    /\ ~accepting /\ data = <<>> /\ OnlyAnswers(pending)
    /\ waiting # "rollback" => state # "Running" /\ Lacks(control, {"rollback"})
    /\ ~Running => waiting \in {"rollback", "release", "shutdown"}

\* The last two calls never return.
FinalInv ==
  ~Lacks(control, {"release", "shutdown"}) => waiting \in {"release", "shutdown"}

GateInv ==
  accepting /\ Running =>
    state = "Running" /\ step # "drain" /\ Lacks(control, {"begin", "release", "shutdown"})

PtyInv == PtyTypeOK /\ ChannelInv /\ ReplyInv /\ PausedInv /\ FinalInv /\ GateInv

ControlCall == [kind : Commands, call : 1..MaxCalls + 1]

(* Sequences of answers.                                                    *)
LEMMA AnswersAppend ==
    ASSUME NEW s \in Seq(Input \cup {Answer}), OnlyAnswers(s)
    PROVE  /\ OnlyAnswers(Append(s, Answer)) /\ OnlyAnswers(<<>>)
           /\ s # <<>> => OnlyAnswers(Tail(s))
           /\ OnlyAnswers(s \o <<>> \o <<Answer>>) /\ OnlyAnswers(s \o <<>> \o <<>>)
  BY DEF OnlyAnswers

(* Calls in the channel.                                                    *)
LEMMA LacksTail ==
    ASSUME NEW calls \in Seq(ControlCall), calls # <<>>, NEW kinds
    PROVE  Lacks(calls, kinds) => Lacks(Tail(calls), kinds) /\ Head(calls).kind \notin kinds
  BY DEF Lacks

LEMMA LacksAppend ==
    ASSUME NEW calls \in Seq(ControlCall), NEW c \in ControlCall, NEW kinds
    PROVE  /\ Lacks(Append(calls, c), kinds) <=> Lacks(calls, kinds) /\ c.kind \notin kinds
           /\ Lacks(<<>>, kinds)
<1>1. /\ Len(Append(calls, c)) = Len(calls) + 1 /\ Len(calls) \in Nat
      /\ \A k \in 1..Len(calls) : Append(calls, c)[k] = calls[k]
      /\ Append(calls, c)[Len(calls) + 1] = c
  OBVIOUS
<1>2. 1..(Len(calls) + 1) = (1..Len(calls)) \cup {Len(calls) + 1}
  BY <1>1
<1> QED
  BY <1>1, <1>2 DEF Lacks

LEMMA EmptyLen == ASSUME NEW S, NEW s \in Seq(S) PROVE s = <<>> <=> Len(s) = 0
  OBVIOUS

(* The channel when its first call is taken out, and when one is put in.    *)
LEMMA ChannelTail ==
    ASSUME PtyInv, control # <<>>
    PROVE  /\ Len(control) \in Nat \ {0} /\ control[1] = Head(control)
           /\ Head(control) \in ControlCall
           /\ Tail(control) \in Seq(ControlCall)
           /\ Len(Tail(control)) = Len(control) - 1
           /\ \A k \in 1..Len(Tail(control)) : k + 1 \in 1..Len(control) /\ Tail(control)[k] = control[k + 1]
           /\ Tail(control) = <<>> <=> Len(control) = 1
           /\ Head(control).call = call - Len(control) + 1
           /\ Head(control).call = call <=> Tail(control) = <<>>
           /\ Tail(control) # <<>> => Tail(control)[Len(Tail(control))] = control[Len(control)]
<1>1. control \in Seq(ControlCall) /\ call \in Nat
  BY SizeAssumption DEF PtyInv, PtyTypeOK, ControlCall
<1>2. /\ Len(control) \in Nat \ {0} /\ control[1] = Head(control)
      /\ Head(control) \in ControlCall
      /\ Tail(control) \in Seq(ControlCall)
      /\ Len(Tail(control)) = Len(control) - 1
      /\ \A k \in 1..Len(Tail(control)) : k + 1 \in 1..Len(control) /\ Tail(control)[k] = control[k + 1]
  BY <1>1
<1>3. Tail(control) = <<>> <=> Len(control) = 1
  <2>1. Tail(control) = <<>> <=> Len(Tail(control)) = 0
    BY <1>2, EmptyLen
  <2> QED
    BY <1>2, <2>1
<1>4. Head(control).call = call - Len(control) + 1
  BY <1>2 DEF PtyInv, ChannelInv
<1>5. Head(control).call = call <=> Tail(control) = <<>>
  BY <1>1, <1>2, <1>3, <1>4
<1>6. Tail(control) # <<>> => Tail(control)[Len(Tail(control))] = control[Len(control)]
  BY <1>2, <1>3
<1> QED
  BY <1>2, <1>3, <1>4, <1>5, <1>6

(* The state the other threads leave alone.                                 *)
LEMMA ChannelType ==
    ASSUME PtyInv
    PROVE  control \in Seq(ControlCall) /\ call \in 0..MaxCalls + 1 /\ MaxCalls \in Nat
  BY SizeAssumption DEF PtyInv, PtyTypeOK, ControlCall

(***************************************************************************)
(* Writers.  Input reaches the channel only while the gate is open.         *)
(***************************************************************************)
LEMMA WriterKeeps ==
    ASSUME PtyInv,
           data' \in Seq(Input), accepted' \in Seq(Input),
           checked' \subseteq Input, permits' \subseteq Input, refused' \subseteq Input,
           data' = data \/ accepting,
           UNCHANGED <<accepting, caller, resize, answers, actor>>
    PROVE  PtyInv'
<1>0. UNCHANGED <<accepting, control, call, waiting, reply, paused, resize, answers, step,
                  state, pending, offset, out, faulted>>
  BY DEF caller, actor
<1>1. PtyTypeOK'
  BY <1>0 DEF PtyInv, PtyTypeOK
<1>2. ChannelInv' /\ FinalInv' /\ GateInv'
  BY <1>0 DEF PtyInv, ChannelInv, FinalInv, GateInv, Lacks, Running
<1>3. ReplyInv' /\ PausedInv'
  BY <1>0 DEF PtyInv, ReplyInv, PausedInv, ChannelInv, GateInv, Lacks, OnlyAnswers, Running
<1> QED
  BY <1>1, <1>2, <1>3 DEF PtyInv

LEMMA WriterNextKeeps == PtyInv /\ WriterNext => PtyInv'
<1> SUFFICES ASSUME PtyInv, NEW i \in Input,
                    TryWriteUserInput(i) \/ CheckGate(i) \/ Reserve(i) \/ SendReserved(i)
             PROVE  PtyInv'
  BY DEF WriterNext
<1>0. /\ data \in Seq(Input) /\ accepted \in Seq(Input)
      /\ checked \subseteq Input /\ permits \subseteq Input /\ refused \subseteq Input
  BY DEF PtyInv, PtyTypeOK
<1>1. Append(data, i) \in Seq(Input) /\ Append(accepted, i) \in Seq(Input)
  BY <1>0
<1>2. CASE TryWriteUserInput(i)
  BY <1>0, <1>1, <1>2, WriterKeeps DEF TryWriteUserInput, Send, Refuse
<1>3. CASE CheckGate(i)
  BY <1>0, <1>3, WriterKeeps DEF CheckGate, Refuse
<1>4. CASE Reserve(i)
  BY <1>0, <1>4, WriterKeeps DEF Reserve, Refuse
<1>5. CASE SendReserved(i)
  BY <1>0, <1>1, <1>5, WriterKeeps DEF SendReserved, Send, Refuse
<1> QED
  BY <1>2, <1>3, <1>4, <1>5

(***************************************************************************)
(* The control thread.  A call goes to the end of the channel.              *)
(***************************************************************************)
LEMMA CallMade ==
    ASSUME PtyInv, NEW kind \in Commands, call <= MaxCalls,
           control' = Append(control, [kind |-> kind, call |-> call + 1]),
           call' = call + 1, waiting' = kind, reply' = "none",
           kind = "begin" => accepting' = FALSE /\ call < MaxCalls
    PROVE  /\ control' \in Seq(ControlCall) /\ call' \in 0..MaxCalls + 1
           /\ ChannelInv' /\ control' # <<>>
           /\ control # <<>> => control'[1] = control[1]
           /\ \A kinds : Lacks(control', kinds) <=> Lacks(control, kinds) /\ kind \notin kinds
<1> DEFINE c == [kind |-> kind, call |-> call + 1]
<1>0. /\ control \in Seq(ControlCall) /\ call \in 0..MaxCalls + 1 /\ MaxCalls \in Nat
  BY ChannelType
<1>1. c \in ControlCall /\ c.kind = kind /\ c.call = call + 1
  BY <1>0 DEF ControlCall
<1>2. control' = Append(control, c)
  OBVIOUS
<1> HIDE DEF c
<1>3. /\ Len(control') = Len(control) + 1 /\ Len(control) \in Nat
      /\ control' \in Seq(ControlCall)
      /\ \A k \in 1..Len(control) : control'[k] = control[k]
      /\ control'[Len(control) + 1] = c
      /\ control' # <<>>
  BY <1>0, <1>1, <1>2
<1>4. \A k \in 1..Len(control') : control'[k].call = call' - Len(control') + k
  <2> TAKE k \in 1..Len(control')
  <2>1. CASE k = Len(control) + 1
    BY <1>0, <1>1, <1>3, <2>1
  <2>2. CASE k \in 1..Len(control)
    <3>1. control[k].call = call - Len(control) + k
      BY <2>2 DEF PtyInv, ChannelInv
    <3> QED
      BY <1>0, <1>3, <2>2, <3>1
  <2> QED
    BY <1>3, <2>1, <2>2
<1>5. ChannelInv'
  BY <1>0, <1>1, <1>3, <1>4 DEF ChannelInv
<1>6. ASSUME NEW kinds
      PROVE  Lacks(control', kinds) <=> Lacks(control, kinds) /\ kind \notin kinds
  BY <1>0, <1>1, <1>2, LacksAppend
<1>7. control # <<>> => control'[1] = control[1]
  BY <1>0, <1>3, EmptyLen
<1> QED
  BY <1>0, <1>3, <1>5, <1>6, <1>7

(* A call that may be made keeps the invariant.                             *)
LEMMA CallKeeps ==
    ASSUME PtyInv, NEW kind \in Commands, call <= MaxCalls,
           control' = Append(control, [kind |-> kind, call |-> call + 1]),
           call' = call + 1, waiting' = kind, reply' = "none",
           kind = "begin" => call < MaxCalls,
           waiting \notin {"release", "shutdown", "rollback"}, kind # "rollback" => waiting = "none",
           accepting' = IF kind \in {"begin", "release", "shutdown"} THEN FALSE ELSE accepting,
           UNCHANGED <<checked, permits, refused, accepted, data, paused, resize, answers, actor>>
    PROVE  PtyInv'
<1>0. UNCHANGED <<checked, permits, refused, accepted, data, paused, resize, answers, step,
                  state, pending, offset, out, faulted>>
  BY DEF actor
<1>1. /\ control' \in Seq(ControlCall) /\ call' \in 0..MaxCalls + 1
      /\ ChannelInv' /\ control' # <<>>
      /\ control # <<>> => control'[1] = control[1]
      /\ \A kinds : Lacks(control', kinds) <=> Lacks(control, kinds) /\ kind \notin kinds
  BY CallMade
<1>2. PtyTypeOK'
  <2>1. accepting' \in BOOLEAN /\ waiting' \in {"none"} \cup Commands
    BY DEF PtyInv, PtyTypeOK
  <2> QED
    BY <1>0, <1>1, <2>1 DEF PtyInv, PtyTypeOK, ControlCall
<1>3. ReplyInv'
  BY <1>0, <1>1 DEF PtyInv, ReplyInv
<1>4. PausedInv'
  <2> SUFFICES ASSUME paused PROVE PausedInv'
    BY <1>0 DEF PausedInv
  <2>1. /\ ~accepting /\ data = <<>> /\ OnlyAnswers(pending)
        /\ state # "Running" /\ Lacks(control, {"rollback"})
        /\ Running
    BY DEF PtyInv, PausedInv
  <2> QED
    BY <1>0, <1>1, <2>1 DEF PausedInv, OnlyAnswers, Running
<1>5. FinalInv'
  BY <1>1 DEF PtyInv, FinalInv
<1>6. GateInv'
  BY <1>0, <1>1 DEF PtyInv, GateInv, FinalInv, Running
<1> QED
  BY <1>1, <1>2, <1>3, <1>4, <1>5, <1>6 DEF PtyInv

(* A wait that ends: begin with success, rollback with or without, others.  *)
LEMMA ReturnKeeps ==
    ASSUME PtyInv, Return, accepting' \in BOOLEAN, paused' \in BOOLEAN,
           waiting \in {"begin", "rollback", "duplicate"},
           accepting' = accepting \/ (~paused' /\ waiting = "rollback" /\ reply = "ok"),
           \/ paused' = paused /\ waiting # "rollback" /\ (waiting = "begin" => ~Running)
           \/ paused' = FALSE
           \/ paused' = TRUE /\ waiting = "begin" /\ reply = "ok",
           UNCHANGED <<checked, permits, refused, accepted, data, resize, answers, actor>>
    PROVE  PtyInv'
<1>0. /\ UNCHANGED <<checked, permits, refused, accepted, data, resize, answers, step,
                     state, pending, offset, out, faulted, control, call>>
      /\ waiting' = "none" /\ reply' = "none"
  BY DEF actor, Return
<1>1. PtyTypeOK'
  BY <1>0 DEF PtyInv, PtyTypeOK
<1>2. ChannelInv' /\ ReplyInv'
  BY <1>0 DEF PtyInv, ChannelInv, ReplyInv
<1>3. PausedInv'
  <2>1. CASE paused' = FALSE
    BY <2>1 DEF PausedInv
  <2>2. CASE paused' = TRUE /\ waiting = "begin" /\ reply = "ok"
    <3>1. /\ ~accepting' /\ data' = <<>> /\ OnlyAnswers(pending') /\ state' # "Running"
          /\ control' = <<>> /\ Running'
      BY <1>0, <2>2 DEF PtyInv, ReplyInv, ChannelInv, OnlyAnswers, Running
    <3>2. Lacks(<<>>, {"rollback"})
      BY DEF Lacks
    <3> QED
      BY <3>1, <3>2 DEF PausedInv
  <2>3. CASE paused' = paused /\ waiting # "rollback" /\ (waiting = "begin" => ~Running)
    BY <1>0, <2>3 DEF PtyInv, PausedInv, OnlyAnswers, Running
  <2> QED
    BY <2>1, <2>2, <2>3
<1>4. FinalInv'
  BY <1>0 DEF PtyInv, FinalInv
<1>5. GateInv'
  <2>1. CASE accepting' = accepting
    BY <1>0, <2>1 DEF PtyInv, GateInv, Running
  <2>2. CASE waiting = "rollback" /\ reply = "ok"
    <3>1. /\ control' = <<>> /\ step' # "drain" /\ (Running' => state' = "Running")
      BY <1>0, <2>2 DEF PtyInv, ReplyInv, ChannelInv, Running
    <3>2. Lacks(<<>>, {"begin", "release", "shutdown"})
      BY DEF Lacks
    <3> QED
      BY <3>1, <3>2 DEF GateInv
  <2> QED
    BY <2>1, <2>2
<1> QED
  BY <1>1, <1>2, <1>3, <1>4, <1>5 DEF PtyInv

LEMMA CallerNextKeeps == PtyInv /\ CallerNext => PtyInv'
<1> SUFFICES ASSUME PtyInv, CallerNext PROVE PtyInv'
  OBVIOUS
<1>0. /\ call \in 0..MaxCalls + 1 /\ MaxCalls \in Nat
      /\ accepting \in BOOLEAN /\ paused \in BOOLEAN /\ Running \in BOOLEAN
      /\ waiting = "begin" => call <= MaxCalls
      /\ {"begin", "rollback", "duplicate", "release", "shutdown"} \subseteq Commands
  BY ChannelType DEF PtyInv, PtyTypeOK, ChannelInv, Commands, Running
<1>a. CallsLeft => waiting = "none" /\ call < MaxCalls /\ call <= MaxCalls /\ reply = "none"
  BY <1>0 DEF CallsLeft, PtyInv, ChannelInv
<1>1. CASE BeginHandoff
  <2>1. CASE Running /\ accepting' = FALSE /\ Call("begin")
    BY <1>0, <1>a, <1>1, <2>1, CallKeeps DEF BeginHandoff, Call
  <2>2. CASE ~Running /\ accepting' = TRUE /\ UNCHANGED <<control, call, waiting, reply>>
    <3>0. /\ UNCHANGED <<checked, permits, refused, accepted, data, paused, resize, answers,
                         step, state, pending, offset, out, faulted>>
          /\ waiting = "none"
      BY <1>a, <1>1 DEF BeginHandoff, actor
    <3>1. PtyTypeOK'
      BY <2>2, <3>0 DEF PtyInv, PtyTypeOK
    <3>2. ChannelInv' /\ ReplyInv' /\ FinalInv'
      BY <2>2, <3>0 DEF PtyInv, ChannelInv, ReplyInv, FinalInv, Running
    <3>3. PausedInv' /\ GateInv'
      BY <2>2, <3>0 DEF PtyInv, PausedInv, GateInv, Running
    <3> QED
      BY <3>1, <3>2, <3>3 DEF PtyInv
  <2> QED
    BY <1>1, <2>1, <2>2 DEF BeginHandoff
<1>2. CASE BeginReturns
  BY <1>0, <1>2, ReturnKeeps DEF BeginReturns, gate
<1>3. CASE BeginFails
  <2>1. CASE Running /\ Call("rollback")
    BY <1>0, <1>3, <2>1, CallKeeps DEF BeginFails, Call, gate
  <2>2. CASE ~Running /\ Return
    BY <1>0, <1>3, <2>2, ReturnKeeps DEF BeginFails, gate
  <2> QED
    BY <1>3, <2>1, <2>2 DEF BeginFails
<1>4. CASE RollbackHandoff
  BY <1>0, <1>a, <1>4, CallKeeps DEF RollbackHandoff, Call, gate
<1>5. CASE RollbackReturns
  <2>1. /\ waiting = "rollback" /\ paused' = FALSE /\ Return
        /\ accepting' = (accepting \/ reply = "ok")
        /\ UNCHANGED <<checked, permits, refused, accepted, data, resize, answers, actor>>
    BY <1>5 DEF RollbackReturns
  <2>2. /\ accepting' \in BOOLEAN /\ paused' \in BOOLEAN
        /\ accepting' = accepting \/ (~paused' /\ waiting = "rollback" /\ reply = "ok")
    BY <1>0, <2>1
  <2> QED
    BY <2>1, <2>2, ReturnKeeps
<1>6. CASE DuplicateForHandoff
  BY <1>0, <1>a, <1>6, CallKeeps DEF DuplicateForHandoff, Call, gate
<1>7. CASE ReleaseAfterCommit
  BY <1>0, <1>a, <1>7, CallKeeps DEF ReleaseAfterCommit, Call
<1>8. CASE DuplicateReturns
  BY <1>0, <1>8, ReturnKeeps DEF DuplicateReturns, gate
<1>9. CASE Shutdown
  BY <1>0, <1>a, <1>9, CallKeeps DEF Shutdown
<1>10. CASE Resize
  <2>0. /\ UNCHANGED <<accepting, checked, permits, refused, accepted, data, control, call,
                       waiting, reply, paused, step, state, pending, offset, out, faulted>>
        /\ resize' = TRUE /\ answers' = answers + 1 /\ answers < MaxAnswers
    BY <1>10 DEF Resize, gate, caller, actor
  <2>1. PtyTypeOK'
    <3>1. answers' \in 0..MaxAnswers
      BY <2>0, SizeAssumption DEF PtyInv, PtyTypeOK
    <3> QED
      BY <2>0, <3>1 DEF PtyInv, PtyTypeOK
  <2>2. ChannelInv' /\ ReplyInv' /\ FinalInv' /\ PausedInv' /\ GateInv'
    BY <2>0 DEF PtyInv, ChannelInv, ReplyInv, FinalInv, PausedInv, GateInv, OnlyAnswers, Running
  <2> QED
    BY <2>1, <2>2 DEF PtyInv
<1> QED
  BY <1>1, <1>2, <1>3, <1>4, <1>5, <1>6, <1>7, <1>8, <1>9, <1>10 DEF CallerNext

(***************************************************************************)
(* The actor.  A call taken out of the channel, with a reply to its caller  *)
(* if it still waits: then it was the last one.                             *)
(***************************************************************************)
LEMMA CallTaken ==
    ASSUME PtyInv, control # <<>>, NextControl, accepting' = accepting,
           reply' = reply \/ Reply(Head(control), "ok") \/ Reply(Head(control), "error")
    PROVE  /\ UNCHANGED <<call, waiting, paused>>
           /\ control' \in Seq(ControlCall) /\ reply' \in {"none", "ok", "error"}
           /\ ChannelInv' /\ FinalInv'
           /\ reply' # reply => waiting # "none" /\ waiting = Head(control).kind /\ control' = <<>>
           /\ reply = "none"
           /\ \A kinds : Lacks(control, kinds) => Lacks(control', kinds)
<1>0. control' = Tail(control) /\ UNCHANGED <<call, waiting, paused>>
  BY DEF NextControl
<1>1. /\ Len(control) \in Nat \ {0} /\ control[1] = Head(control)
      /\ Head(control) \in ControlCall
      /\ Tail(control) \in Seq(ControlCall)
      /\ Len(Tail(control)) = Len(control) - 1
      /\ \A k \in 1..Len(Tail(control)) : k + 1 \in 1..Len(control) /\ Tail(control)[k] = control[k + 1]
      /\ Tail(control) = <<>> <=> Len(control) = 1
      /\ Head(control).call = call <=> Tail(control) = <<>>
      /\ Tail(control) # <<>> => Tail(control)[Len(Tail(control))] = control[Len(control)]
  BY ChannelTail
<1>2. /\ control \in Seq(ControlCall) /\ call \in 0..MaxCalls + 1 /\ MaxCalls \in Nat
      /\ reply = "none"
  BY ChannelType DEF PtyInv, PtyTypeOK, ChannelInv
<1>3. /\ reply' \in {"none", "ok", "error"}
      /\ reply' # reply => waiting # "none" /\ Head(control).call = call
  BY <1>2 DEF Reply
<1>4. reply' # reply => waiting # "none" /\ waiting = Head(control).kind /\ control' = <<>>
  <2>1. Head(control).call = call => control[Len(control)] = Head(control)
    BY <1>1
  <2> QED
    BY <1>0, <1>1, <1>3, <2>1 DEF PtyInv, ChannelInv
<1>5. \A k \in 1..Len(control') : control'[k].call = call' - Len(control') + k
  <2> TAKE k \in 1..Len(control')
  <2>1. /\ k \in Nat /\ k + 1 \in 1..Len(control) /\ control'[k] = control[k + 1]
        /\ Len(control') = Len(control) - 1
    BY <1>0, <1>1
  <2>2. control[k + 1].call = call - Len(control) + (k + 1)
    BY <2>1 DEF PtyInv, ChannelInv
  <2> QED
    BY <1>0, <1>1, <1>2, <2>1, <2>2
<1>6. ChannelInv'
  BY <1>0, <1>1, <1>2, <1>4, <1>5 DEF PtyInv, ChannelInv
<1>7. \A kinds : Lacks(control, kinds) => Lacks(control', kinds)
  BY <1>0, <1>2, LacksTail
<1>8. FinalInv'
  BY <1>0, <1>7 DEF PtyInv, FinalInv
<1> QED
  BY <1>0, <1>1, <1>2, <1>3, <1>4, <1>6, <1>7, <1>8

(* begin_handoff starts to drain: the gate is shut, so the channel is       *)
(* empty from then on.                                                      *)
LEMMA StartDrainingKeeps == PtyInv /\ StartDraining => PtyInv'
<1> SUFFICES ASSUME PtyInv, StartDraining PROVE PtyInv'
  OBVIOUS
<1>0. /\ UNCHANGED <<accepting, checked, permits, refused, accepted, control, call, waiting,
                     reply, paused, answers, state, offset, out, faulted>>
      /\ control # <<>> /\ Head(control).kind = "begin"
      /\ data' = <<>> /\ resize' = FALSE /\ step' = "drain" /\ step = "control"
      /\ pending' = pending \o data \o (IF resize THEN <<Answer>> ELSE <<>>)
  BY DEF StartDraining, TakeControl, Received, gate, caller
<1>1. /\ control \in Seq(ControlCall) /\ control[1].kind = "begin"
      /\ pending \in Seq(Input \cup {Answer}) /\ data \in Seq(Input \cup {Answer})
  <2>1. control \in Seq(ControlCall)
    BY ChannelType
  <2>2. control[1].kind = "begin"
    BY <1>0, <2>1
  <2>3. pending \in Seq(Input \cup {Answer}) /\ data \in Seq(Input \cup {Answer})
    <3>1. pending \in Seq(Input \cup {Answer}) /\ data \in Seq(Input)
      BY DEF PtyInv, PtyTypeOK
    <3> QED
      BY <3>1
  <2> QED
    BY <2>1, <2>2, <2>3
<1>2. pending' \in Seq(Input \cup {Answer}) /\ data' \in Seq(Input)
  <2>1. /\ <<Answer>> \in Seq(Input \cup {Answer}) /\ <<>> \in Seq(Input \cup {Answer})
        /\ <<>> \in Seq(Input)
    OBVIOUS
  <2>2. \A s \in Seq(Input \cup {Answer}) : pending \o data \o s \in Seq(Input \cup {Answer})
    BY <1>1
  <2> QED
    BY <1>0, <2>1, <2>2
<1>3. PtyTypeOK'
  BY <1>0, <1>2 DEF PtyInv, PtyTypeOK
<1>4. ChannelInv' /\ FinalInv'
  BY <1>0 DEF PtyInv, ChannelInv, FinalInv
<1>5. ReplyInv'
  BY <1>0, <1>1 DEF PtyInv, ReplyInv, ChannelInv
<1>6. PausedInv'
  <2> SUFFICES ASSUME paused PROVE PausedInv'
    BY <1>0 DEF PausedInv
  <2>1. data = <<>> /\ OnlyAnswers(pending)
    BY DEF PtyInv, PausedInv
  <2>2. OnlyAnswers(pending')
    BY <1>0, <1>1, <2>1, AnswersAppend
  <2> QED
    BY <1>0, <2>2 DEF PtyInv, PausedInv, Running
<1>7. GateInv'
  <2>1. ~Lacks(control, {"begin", "release", "shutdown"})
    BY <1>0, <1>1, LacksTail
  <2> QED
    BY <1>0, <2>1 DEF PtyInv, GateInv, Running
<1> QED
  BY <1>3, <1>4, <1>5, <1>6, <1>7 DEF PtyInv

LEMMA QuiesceKeeps == PtyInv /\ (Quiesce \/ DrainTimesOut) => PtyInv'
<1> SUFFICES ASSUME PtyInv, Quiesce \/ DrainTimesOut PROVE PtyInv'
  OBVIOUS
<1>0. /\ UNCHANGED <<accepting, checked, permits, refused, accepted, data, resize, answers,
                     pending, offset, out, faulted>>
      /\ step = "drain" /\ step' = "control"
      /\ \/ pending = <<>> /\ state' = "Quiesced" /\ Reply(Head(control), "ok")
         \/ state' = state /\ Reply(Head(control), "error")
      /\ NextControl
  BY DEF Quiesce, DrainTimesOut, Received, gate
<1>1. data = <<>> /\ control # <<>> /\ control[1].kind = "begin" /\ ~accepting
  BY <1>0 DEF PtyInv, ReplyInv, GateInv, Running
<1>2. /\ UNCHANGED <<call, waiting, paused>>
      /\ control' \in Seq(ControlCall) /\ reply' \in {"none", "ok", "error"}
      /\ ChannelInv' /\ FinalInv'
      /\ reply' # reply => waiting # "none" /\ waiting = Head(control).kind /\ control' = <<>>
      /\ reply = "none"
      /\ \A kinds : Lacks(control, kinds) => Lacks(control', kinds)
  BY <1>0, <1>1, CallTaken
<1>3. PtyTypeOK'
  BY <1>0, <1>2 DEF PtyInv, PtyTypeOK, ControlCall
<1>4. ReplyInv'
  <2>1. Head(control).kind = "begin"
    BY <1>1, ChannelTail
  <2>2. reply' = "ok" => pending = <<>> /\ state' = "Quiesced"
    BY <1>0, <1>2 DEF Reply
  <2>3. OnlyAnswers(<<>>)
    BY DEF OnlyAnswers
  <2> QED
    BY <1>0, <1>1, <1>2, <2>1, <2>2, <2>3 DEF ReplyInv, Running
<1>5. PausedInv'
  BY <1>0, <1>2 DEF PtyInv, PausedInv, OnlyAnswers, Running
<1>6. GateInv'
  BY <1>0, <1>1 DEF GateInv
<1> QED
  BY <1>2, <1>3, <1>4, <1>5, <1>6 DEF PtyInv

LEMMA HandleRollbackKeeps == PtyInv /\ HandleRollback => PtyInv'
<1> SUFFICES ASSUME PtyInv, HandleRollback PROVE PtyInv'
  OBVIOUS
<1>0. /\ UNCHANGED <<accepting, checked, permits, refused, accepted, data, resize, answers,
                     step, pending, offset, out, faulted>>
      /\ step = "control" /\ control # <<>> /\ Head(control).kind = "rollback"
      /\ state' = "Running" /\ Reply(Head(control), "ok") /\ NextControl
  BY DEF HandleRollback, TakeControl, Received, gate
<1>2. /\ UNCHANGED <<call, waiting, paused>>
      /\ control' \in Seq(ControlCall) /\ reply' \in {"none", "ok", "error"}
      /\ ChannelInv' /\ FinalInv'
      /\ reply' # reply => waiting # "none" /\ waiting = Head(control).kind /\ control' = <<>>
      /\ reply = "none"
      /\ \A kinds : Lacks(control, kinds) => Lacks(control', kinds)
  BY <1>0, CallTaken
<1>3. PtyTypeOK'
  BY <1>0, <1>2 DEF PtyInv, PtyTypeOK, ControlCall
<1>4. ReplyInv'
  BY <1>0, <1>2 DEF ReplyInv, Running
<1>5. PausedInv'
  <2>1. control \in Seq(ControlCall)
    BY ChannelType
  <2>2. ~Lacks(control, {"rollback"})
    BY <1>0, <2>1, LacksTail
  <2> QED
    BY <1>0, <1>2, <2>2 DEF PtyInv, PausedInv, OnlyAnswers, Running
<1>6. GateInv'
  BY <1>0, <1>2 DEF PtyInv, GateInv, Running
<1> QED
  BY <1>2, <1>3, <1>4, <1>5, <1>6 DEF PtyInv

LEMMA HandleOtherKeeps ==
    PtyInv /\ (HandleDuplicate \/ HandleRelease \/ HandleShutdown) => PtyInv'
<1> SUFFICES ASSUME PtyInv, HandleDuplicate \/ HandleRelease \/ HandleShutdown PROVE PtyInv'
  OBVIOUS
<1>0. /\ UNCHANGED <<accepting, checked, permits, refused, accepted, data, resize, answers,
                     offset, out, faulted>>
      /\ step = "control" /\ control # <<>>
      /\ \/ Head(control).kind = "duplicate" /\ UNCHANGED <<step, state, pending>>
         \/ /\ Head(control).kind \in {"release", "shutdown"}
            /\ step' = "exit" /\ state' \in {state, "Released"} /\ pending' \in {pending, <<>>}
      /\ reply' = reply \/ Reply(Head(control), "ok") \/ Reply(Head(control), "error")
      /\ NextControl
  BY DEF HandleDuplicate, HandleRelease, HandleShutdown, TakeControl, Received, gate, actor, Reply
<1>2. /\ UNCHANGED <<call, waiting, paused>>
      /\ control' \in Seq(ControlCall) /\ reply' \in {"none", "ok", "error"}
      /\ ChannelInv' /\ FinalInv'
      /\ reply' # reply => waiting # "none" /\ waiting = Head(control).kind /\ control' = <<>>
      /\ reply = "none"
      /\ \A kinds : Lacks(control, kinds) => Lacks(control', kinds)
  BY <1>0, CallTaken
<1>3. PtyTypeOK'
  <2>1. pending' \in Seq(Input \cup {Answer})
    <3>1. pending \in Seq(Input \cup {Answer}) /\ <<>> \in Seq(Input \cup {Answer})
      BY DEF PtyInv, PtyTypeOK
    <3> QED
      BY <1>0, <3>1
  <2> QED
    BY <1>0, <1>2, <2>1 DEF PtyInv, PtyTypeOK, ControlCall
<1>4. ReplyInv'
  BY <1>0, <1>2 DEF ReplyInv, Running
<1>a. control \in Seq(ControlCall)
  BY ChannelType
<1>5. PausedInv'
  <2>1. Head(control).kind \in {"release", "shutdown"} => waiting \in {"release", "shutdown"}
    BY <1>0, <1>a, LacksTail DEF PtyInv, FinalInv
  <2>2. OnlyAnswers(pending) => OnlyAnswers(pending')
    BY <1>0 DEF OnlyAnswers
  <2> QED
    BY <1>0, <1>2, <2>1, <2>2 DEF PtyInv, PausedInv, Running
<1>6. GateInv'
  BY <1>0, <1>2 DEF PtyInv, GateInv, Running
<1> QED
  BY <1>2, <1>3, <1>4, <1>5, <1>6 DEF PtyInv

(* The rest of the loop: the data, the bytes, the poll.                     *)
LEMMA LoopKeeps ==
    ASSUME PtyInv,
           UNCHANGED <<gate, caller, state>>,
           data' \in Seq(Input), pending' \in Seq(Input \cup {Answer}),
           data = <<>> => data' = <<>>,
           data = <<>> /\ OnlyAnswers(pending) => OnlyAnswers(pending'),
           step' \in {"control", "drain", "data", "flush", "poll", "exit"},
           step = "drain" <=> step' = "drain", step # "exit",
           step' = "exit" => state = "Running",
           resize' \in BOOLEAN, answers' \in 0..MaxAnswers, faulted' \in BOOLEAN,
           offset' \in 0..Size - 1, out' \in Seq((Input \cup {Answer}) \X (1..Size))
    PROVE  PtyInv'
<1>0. UNCHANGED <<accepting, checked, permits, refused, accepted, control, call, waiting, reply,
                  paused, state>>
  BY DEF gate, caller
<1>1. PtyTypeOK'
  BY <1>0 DEF PtyInv, PtyTypeOK
<1>2. ChannelInv' /\ FinalInv'
  BY <1>0 DEF PtyInv, ChannelInv, FinalInv
<1>3. ReplyInv'
  BY <1>0 DEF PtyInv, ReplyInv, Running
<1>4. PausedInv' /\ GateInv'
  BY <1>0 DEF PtyInv, PausedInv, GateInv, Running
<1> QED
  BY <1>1, <1>2, <1>3, <1>4 DEF PtyInv

LEMMA LoopNextKeeps ==
    PtyInv /\ (ControlDone \/ HandleData \/ ApplyControls \/ WriteByte \/ WriteFails
                 \/ FlushDone \/ Poll \/ ReadFails) => PtyInv'
<1> SUFFICES ASSUME PtyInv,
                    ControlDone \/ HandleData \/ ApplyControls \/ WriteByte \/ WriteFails
                      \/ FlushDone \/ Poll \/ ReadFails
             PROVE  PtyInv'
  OBVIOUS
<1>0. /\ data \in Seq(Input) /\ pending \in Seq(Input \cup {Answer}) /\ resize \in BOOLEAN
      /\ answers \in 0..MaxAnswers /\ faulted \in BOOLEAN /\ offset \in 0..Size - 1
      /\ out \in Seq((Input \cup {Answer}) \X (1..Size))
      /\ Size \in Nat \ {0} /\ MaxAnswers \in Nat
  BY SizeAssumption DEF PtyInv, PtyTypeOK
<1>a. /\ Append(pending, Answer) \in Seq(Input \cup {Answer})
      /\ OnlyAnswers(pending) => OnlyAnswers(Append(pending, Answer))
      /\ OnlyAnswers(<<>>) /\ <<>> \in Seq(Input \cup {Answer})
      /\ pending # <<>> => /\ Tail(pending) \in Seq(Input \cup {Answer})
                           /\ OnlyAnswers(pending) => OnlyAnswers(Tail(pending))
  BY <1>0, AnswersAppend DEF OnlyAnswers
<1>1. CASE ControlDone \/ FlushDone
  BY <1>0, <1>1, LoopKeeps DEF ControlDone, FlushDone
<1>2. CASE HandleData
  <2>1. /\ data # <<>> /\ data' = Tail(data) /\ data' \in Seq(Input)
        /\ pending' \in Seq(Input \cup {Answer})
    BY <1>0, <1>2 DEF HandleData
  <2>2. /\ UNCHANGED <<gate, caller, resize, answers, step, state, offset, out, faulted>>
        /\ step = "data"
    BY <1>2 DEF HandleData
  <2> QED
    BY <1>0, <2>1, <2>2, LoopKeeps
<1>3. CASE ApplyControls
  <2>1. /\ pending' \in {pending, Append(pending, Answer)}
        /\ UNCHANGED <<gate, data, caller, answers, state, offset, out, faulted>>
        /\ step = "data" /\ step' = "flush" /\ resize' = FALSE
    BY <1>3 DEF ApplyControls
  <2> QED
    BY <1>0, <1>a, <2>1, LoopKeeps
<1>4. CASE WriteByte
  <2>1. /\ step \in {"flush", "drain"} /\ pending # <<>>
        /\ out' = Append(out, Bytes(Head(pending))[offset + 1])
        /\ \/ offset' = 0 /\ pending' = Tail(pending)
           \/ offset + 1 < Size /\ offset' = offset + 1 /\ pending' = pending
        /\ UNCHANGED <<gate, data, caller, resize, answers, step, state, faulted>>
    BY <1>0, <1>4 DEF WriteByte
  <2>2. /\ Head(pending) \in Input \cup {Answer} /\ offset + 1 \in 1..Size
    BY <1>0, <2>1
  <2>3. Bytes(Head(pending))[offset + 1] \in (Input \cup {Answer}) \X (1..Size)
    BY <2>2 DEF Bytes
  <2>4. /\ out' \in Seq((Input \cup {Answer}) \X (1..Size))
    BY <1>0, <2>1, <2>3
  <2>5. offset' \in 0..Size - 1
    BY <1>0, <2>1
  <2>6. /\ pending' \in Seq(Input \cup {Answer})
        /\ OnlyAnswers(pending) => OnlyAnswers(pending')
    BY <1>0, <1>a, <2>1
  <2> QED
    BY <1>0, <2>1, <2>4, <2>5, <2>6, LoopKeeps
<1>5. CASE WriteFails
  <2>1. /\ step \in {"flush", "drain"} /\ pending' = <<>> /\ offset' = 0 /\ faulted' = TRUE
        /\ UNCHANGED <<gate, data, caller, resize, answers, step, state, out>>
    BY <1>5 DEF WriteFails
  <2>2. offset' \in 0..Size - 1
    BY <1>0, <2>1
  <2> QED
    BY <1>0, <1>a, <2>1, <2>2, LoopKeeps
<1>6. CASE Poll
  <2>1. /\ step = "poll" /\ step' = "control"
        /\ \/ UNCHANGED <<answers, pending>>
           \/ /\ answers < MaxAnswers /\ answers' = answers + 1
              /\ pending' = Append(pending, Answer)
        /\ UNCHANGED <<gate, data, caller, resize, state, offset, out, faulted>>
    BY <1>6 DEF Poll
  <2>2. answers' \in 0..MaxAnswers
    BY <1>0, <2>1
  <2>3. /\ pending' \in Seq(Input \cup {Answer})
        /\ OnlyAnswers(pending) => OnlyAnswers(pending')
    BY <1>0, <1>a, <2>1
  <2> QED
    BY <1>0, <2>1, <2>2, <2>3, LoopKeeps
<1>7. CASE ReadFails
  BY <1>0, <1>7, LoopKeeps DEF ReadFails
<1> QED
  BY <1>1, <1>2, <1>3, <1>4, <1>5, <1>6, <1>7

LEMMA PtyInitHolds == PtyInit => PtyInv
<1> SUFFICES ASSUME PtyInit PROVE PtyInv
  OBVIOUS
<1>1. PtyTypeOK
  <2>1. /\ offset \in 0..Size - 1 /\ answers \in 0..MaxAnswers /\ call \in 0..MaxCalls + 1
    BY SizeAssumption DEF PtyInit
  <2>2. accepting \in BOOLEAN /\ paused \in BOOLEAN
    BY DEF PtyInit
  <2>3. /\ accepted \in Seq(Input) /\ data \in Seq(Input) /\ pending \in Seq(Input \cup {Answer})
        /\ control \in Seq([kind : Commands, call : 1..MaxCalls + 1])
        /\ out \in Seq((Input \cup {Answer}) \X (1..Size))
    BY DEF PtyInit
  <2>4. state \in {"Running", "Quiesced", "Released"}
    BY DEF PtyInit
  <2> QED
    BY <2>1, <2>2, <2>3, <2>4 DEF PtyInit, PtyTypeOK
<1>2. Lacks(control, {"rollback"}) /\ Lacks(control, {"begin", "release", "shutdown"})
      /\ Lacks(control, {"release", "shutdown"}) /\ OnlyAnswers(pending)
  BY DEF PtyInit, Lacks, OnlyAnswers
<1>3. ChannelInv /\ ReplyInv
  BY DEF PtyInit, ChannelInv, ReplyInv
<1>4. PausedInv /\ FinalInv /\ GateInv
  BY <1>2 DEF PtyInit, PausedInv, FinalInv, GateInv, Running
<1> QED
  BY <1>1, <1>3, <1>4 DEF PtyInv

LEMMA PtyNextKeeps == PtyInv /\ [PtyNext]_ptyVars => PtyInv'
<1> SUFFICES ASSUME PtyInv, [PtyNext]_ptyVars PROVE PtyInv'
  OBVIOUS
<1>1. CASE UNCHANGED ptyVars
  <2>1. UNCHANGED <<accepting, checked, permits, refused, accepted, data, caller, resize,
                    answers, actor>>
    BY <1>1 DEF ptyVars, gate
  <2> QED
    BY <2>1, WriterKeeps DEF PtyInv, PtyTypeOK
<1>2. CASE ActorNext
  BY <1>2, StartDrainingKeeps, QuiesceKeeps, HandleRollbackKeeps, HandleOtherKeeps,
     LoopNextKeeps DEF ActorNext
<1> QED
  BY <1>1, <1>2, WriterNextKeeps, CallerNextKeeps DEF PtyNext

(***************************************************************************)
(* The actor's fields and the channels keep their types, and an offset is   *)
(* inside the first pending piece.                                          *)
(***************************************************************************)
THEOREM PtyTypeHolds == PtySpec => []PtyTypeOK
<1>1. PtyInv => PtyTypeOK
  BY DEF PtyInv
<1> QED
  BY <1>1, PtyInitHolds, PtyNextKeeps, PTL DEF PtySpec

(***************************************************************************)
(* A begin_handoff that succeeded left no input behind, and an open gate    *)
(* means a running actor with nothing on its way that stops it: for any     *)
(* number of writers and calls, however late the replies are.               *)
(***************************************************************************)
THEOREM QuiescedIsDrainedHolds == PtySpec => []QuiescedIsDrained
<1>1. PtyInv => QuiescedIsDrained
  <2> SUFFICES ASSUME PtyInv PROVE QuiescedIsDrained
    OBVIOUS
  <2>1. accepting /\ Running =>
          \A k \in 1..Len(control) : control[k].kind \in {"rollback", "duplicate"}
    <3>1. \A k \in 1..Len(control) : control[k].kind \in Commands
      <4>1. \A k \in 1..Len(control) : control[k] \in ControlCall
        BY ChannelType
      <4> QED
        BY <4>1 DEF ControlCall
    <3> QED
      BY <3>1 DEF PtyInv, GateInv, Lacks, Commands
  <2> QED
    BY <2>1 DEF PtyInv, PausedInv, GateInv, OnlyAnswers, QuiescedIsDrained
<1> QED
  BY <1>1, PtyInitHolds, PtyNextKeeps, PTL DEF PtySpec

(***************************************************************************)
(* InputDelivered.  A write that begins on an empty queue begins at its     *)
(* first byte, the channel of an actor that is stopped is empty, and a      *)
(* release is made and ends with the pane paused.                           *)
(***************************************************************************)
StoppedInv ==
  /\ state # "Released" /\ pending = <<>> => offset = 0
  /\ Running /\ state # "Running" => data = <<>>

ReleaseInv ==
  /\ ~Lacks(control, {"release"}) \/ state = "Released" => paused /\ waiting = "release"
  /\ state = "Released" => ~Running

\* No piece is accepted twice.
AcceptedOnce ==
  /\ \A x, y \in DOMAIN accepted : accepted[x] = accepted[y] => x = y
  /\ checked \cap permits = {}
  /\ \A x \in DOMAIN accepted : accepted[x] \notin checked \cup permits

DeliveryInv == PtyInv /\ StoppedInv /\ ReleaseInv /\ AcceptedOnce /\ InputDelivered

Piece == Input \cup {Answer}
UserByte == Input \X (1..Size)

LEMMA UserByteOf ==
    ASSUME NEW b \in UserByte
    PROVE  b[1] \in Input /\ b[2] \in 1..Size /\ b = <<b[1], b[2]>> /\ b[1] # Answer /\ Size \in Nat
           /\ b[2] \in Nat \ {0}
  BY AnswerAssumption, SizeAssumption DEF UserByte

(* The queue, place by place.                                               *)
LEMMA QueuePlaces ==
    ASSUME PtyTypeOK
    PROVE  /\ Queue \in Seq(Piece) /\ DOMAIN Queue = 1..Len(Queue)
           /\ Len(Queue) = Len(pending) + Len(data) /\ Len(pending) \in Nat /\ Len(data) \in Nat
           /\ \A p \in 1..Len(pending) : Queue[p] = pending[p]
           /\ \A p \in 1..Len(data) : Queue[Len(pending) + p] = data[p]
<1>1. pending \in Seq(Piece) /\ data \in Seq(Piece)
  BY DEF PtyTypeOK, Piece
<1> QED
  BY <1>1 DEF Queue

LEMMA SameQueue ==
    ASSUME InputDelivered, Queue' = Queue, UNCHANGED <<offset, out, accepted, faulted>>
    PROVE  InputDelivered'
  BY DEF InputDelivered, InLine, Ahead, Taken, Awaits, Before, Range

(* A piece is accepted.                                                     *)
LEMMA SendDelivers ==
    ASSUME PtyTypeOK, InputDelivered, NEW i \in Input, Send(i),
           pending = <<>> => offset = 0,
           UNCHANGED <<pending, offset, out, faulted>>
    PROVE  InputDelivered'
<1> SUFFICES ASSUME ~faulted PROVE InputDelivered'
  BY DEF InputDelivered
<1> DEFINE N == Len(Queue)
<1>0. /\ data \in Seq(Piece) /\ pending \in Seq(Piece) /\ accepted \in Seq(Input)
      /\ offset \in Nat /\ i \in Piece
  BY SizeAssumption DEF PtyTypeOK, Piece
<1>1. Queue' = Append(Queue, i) /\ Queue \in Seq(Piece) /\ N \in Nat
  BY <1>0 DEF Send, Queue
<1>2. /\ DOMAIN Queue = 1..N /\ DOMAIN Queue' = 1..(N + 1)
      /\ \A p \in 1..N : Queue'[p] = Queue[p]
      /\ Queue'[N + 1] = i
  BY <1>1
<1>3. N = 0 => offset = 0
  <2>1. N = Len(pending) + Len(data) /\ Len(pending) \in Nat /\ Len(data) \in Nat
    BY QueuePlaces
  <2>2. N = 0 => Len(pending) = 0
    BY <2>1
  <2>3. Len(pending) = 0 => pending = <<>>
    BY <1>0
  <2> QED
    BY <2>2, <2>3
<1> HIDE DEF N
<1>4. \A b \in UserByte, p \in 1..(N + 1) :
        Awaits(b, p)' <=> Awaits(b, p) \/ (p = N + 1 /\ b[1] = i)
  <2> SUFFICES ASSUME NEW b \in UserByte, NEW p \in 1..(N + 1)
               PROVE  Awaits(b, p)' <=> Awaits(b, p) \/ (p = N + 1 /\ b[1] = i)
    OBVIOUS
  <2>1. b[2] \in Nat \ {0}
    BY UserByteOf
  <2>2. CASE p \in 1..N
    BY <1>1, <1>2, <2>2 DEF Awaits
  <2>3. CASE p = N + 1
    BY <1>0, <1>1, <1>2, <1>3, <2>1, <2>3 DEF Awaits
  <2> QED
    BY <1>1, <2>2, <2>3
<1>5. \A b : Taken(b)' <=> Taken(b)
  BY DEF Taken
<1>6. \A b \in UserByte : InLine(b)' <=> InLine(b) \/ b[1] = i
  <2> SUFFICES ASSUME NEW b \in UserByte PROVE InLine(b)' <=> InLine(b) \/ b[1] = i
    OBVIOUS
  <2>1. (\E p \in 1..(N + 1) : Awaits(b, p)') <=> (\E p \in 1..N : Awaits(b, p)) \/ b[1] = i
    <3>1. \A p : Awaits(b, p) => p \in 1..N
      BY <1>2 DEF Awaits
    <3>2. N + 1 \in 1..(N + 1) /\ \A p \in 1..N : p \in 1..(N + 1)
      BY <1>1
    <3> QED
      BY <1>4, <3>1, <3>2
  <2> QED
    BY <1>2, <1>5, <2>1 DEF InLine
<1>7. /\ accepted' = Append(accepted, i) /\ Len(accepted) \in Nat
      /\ DOMAIN accepted = 1..Len(accepted) /\ DOMAIN accepted' = 1..(Len(accepted) + 1)
      /\ \A x \in 1..Len(accepted) : accepted'[x] = accepted[x]
      /\ accepted'[Len(accepted) + 1] = i
  BY <1>0 DEF Send
<1>8. \A j \in Input : j \in Range(accepted') <=> j \in Range(accepted) \/ j = i
  BY <1>7 DEF Range
<1>9. \A b \in UserByte : InLine(b)' <=> b[1] \in Range(accepted')
  BY <1>6, <1>8, UserByteOf DEF InputDelivered, UserByte
<1>10. \A b, c \in UserByte : Ahead(b, c)' => Ahead(b, c) \/ (InLine(b) /\ c[1] = i)
  <2> SUFFICES ASSUME NEW b \in UserByte, NEW c \in UserByte, Ahead(b, c)'
               PROVE  Ahead(b, c) \/ (InLine(b) /\ c[1] = i)
    OBVIOUS
  <2>1. CASE \E n, m \in DOMAIN out : n < m /\ out[n] = b /\ out[m] = c
    BY <2>1 DEF Ahead
  <2>2. CASE Taken(b) /\ \E p \in DOMAIN Queue' : Awaits(c, p)'
    BY <1>1, <1>2, <1>4, <2>2 DEF Ahead, InLine, Awaits
  <2>3. CASE \E p, q \in DOMAIN Queue' : p < q /\ Awaits(b, p)' /\ Awaits(c, q)'
    <3>1. PICK p, q \in 1..(N + 1) : p < q /\ Awaits(b, p)' /\ Awaits(c, q)'
      BY <1>2, <2>3
    <3>2. p \in 1..N /\ Awaits(b, p)
      BY <1>1, <1>4, <3>1
    <3>3. CASE q = N + 1
      <4>1. ~Awaits(c, q)
        BY <1>1, <1>2, <3>3 DEF Awaits
      <4> QED
        BY <1>2, <1>4, <3>1, <3>2, <4>1 DEF InLine
    <3>4. CASE q \in 1..N
      BY <1>1, <1>2, <1>4, <3>1, <3>2, <3>4 DEF Ahead
    <3> QED
      BY <1>1, <3>3, <3>4
  <2> QED
    BY <1>5, <2>1, <2>2, <2>3 DEF Ahead
<1>11. \A b, c : Before(b, c) => Before(b, c)'
  BY <1>7 DEF Before
<1>12. \A b, c \in UserByte : InLine(b) /\ c[1] = i => Before(b, c)'
  <2> SUFFICES ASSUME NEW b \in UserByte, NEW c \in UserByte, InLine(b), c[1] = i
               PROVE  Before(b, c)'
    OBVIOUS
  <2>1. PICK x \in 1..Len(accepted) : accepted[x] = b[1]
    BY <1>7 DEF InputDelivered, UserByte, Range
  <2> QED
    BY <1>7, <2>1 DEF Before
<1>13. \A b, c \in UserByte : Ahead(b, c)' => Before(b, c)'
  BY <1>10, <1>11, <1>12 DEF InputDelivered, UserByte
<1> QED
  BY <1>9, <1>13 DEF InputDelivered, UserByte

(* An answer of the emulator is put into the queue at place a.              *)
LEMMA AnswerDelivers ==
    ASSUME PtyTypeOK, PtyTypeOK', InputDelivered, NEW a \in 1..(Len(Queue) + 1),
           Len(Queue') = Len(Queue) + 1,
           \A p \in 1..(a - 1) : Queue'[p] = Queue[p],
           Queue'[a] = Answer,
           \A p \in a..Len(Queue) : Queue'[p + 1] = Queue[p],
           a = 1 => offset = 0,
           UNCHANGED <<offset, out, accepted, faulted>>
    PROVE  InputDelivered'
<1> SUFFICES ASSUME ~faulted PROVE InputDelivered'
  BY DEF InputDelivered
<1> DEFINE N == Len(Queue)
<1> DEFINE to(p) == IF p < a THEN p ELSE p + 1
<1>0. /\ N \in Nat /\ DOMAIN Queue = 1..N
  BY QueuePlaces
<1>1. DOMAIN Queue' = 1..(N + 1)
  <2>1. DOMAIN Queue' = 1..Len(Queue')
    BY QueuePlaces DEF PtyTypeOK, Queue
  <2> QED
    BY <2>1
<1>2. \A b \in UserByte, p \in 1..N : Awaits(b, p) <=> Awaits(b, to(p))'
  <2> SUFFICES ASSUME NEW b \in UserByte, NEW p \in 1..N
               PROVE  Awaits(b, p) <=> Awaits(b, to(p))'
    OBVIOUS
  <2>1. b[2] \in Nat \ {0}
    BY UserByteOf
  <2>2. CASE p < a
    <3>1. p \in 1..(a - 1) /\ p \in 1..(N + 1)
      BY <1>0, <2>2
    <3> QED
      BY <1>0, <1>1, <2>2, <3>1 DEF Awaits
  <2>3. CASE ~(p < a)
    <3>1. p \in a..N /\ p + 1 \in 1..(N + 1) /\ p + 1 # 1 /\ (p = 1 => a = 1)
      BY <1>0, <2>3
    <3>2. Queue'[p + 1] = Queue[p]
      BY <3>1
    <3>3. p = 1 => offset < b[2]
      BY <2>1, <3>1
    <3> QED
      BY <1>0, <1>1, <2>3, <3>1, <3>2, <3>3 DEF Awaits
  <2> QED
    BY <2>2, <2>3
<1>3. \A b \in UserByte, q \in 1..(N + 1) :
        Awaits(b, q)' => \E p \in 1..N : q = to(p)
  <2> SUFFICES ASSUME NEW b \in UserByte, NEW q \in 1..(N + 1), Awaits(b, q)'
               PROVE  \E p \in 1..N : q = to(p)
    OBVIOUS
  <2>1. q # a
    BY UserByteOf DEF Awaits
  <2>2. CASE q < a
    BY <1>0, <2>2
  <2>3. CASE q > a
    <3>1. q - 1 \in 1..N /\ ~(q - 1 < a) /\ (q - 1) + 1 = q
      BY <1>0, <2>3
    <3> QED
      BY <3>1
  <2> QED
    BY <1>0, <2>1, <2>2, <2>3
<1>4. \A p \in 1..N : to(p) \in 1..(N + 1)
  BY <1>0
<1>5. \A p, q \in 1..N : to(p) < to(q) <=> p < q
  BY <1>0
<1> HIDE DEF to, N
<1>6. \A b : Taken(b)' <=> Taken(b)
  BY DEF Taken
<1>7. \A b \in UserByte : InLine(b)' <=> InLine(b)
  <2>1. ASSUME NEW b \in UserByte, InLine(b) PROVE InLine(b)'
    BY <1>0, <1>1, <1>2, <1>4, <1>6, <2>1 DEF InLine
  <2>2. ASSUME NEW b \in UserByte, InLine(b)' PROVE InLine(b)
    BY <1>0, <1>1, <1>2, <1>3, <1>6, <2>2 DEF InLine
  <2> QED
    BY <2>1, <2>2
<1>8. \A b, c \in UserByte : Ahead(b, c)' => Ahead(b, c)
  <2> SUFFICES ASSUME NEW b \in UserByte, NEW c \in UserByte, Ahead(b, c)'
               PROVE  Ahead(b, c)
    OBVIOUS
  <2>1. CASE \E n, m \in DOMAIN out : n < m /\ out[n] = b /\ out[m] = c
    BY <2>1 DEF Ahead
  <2>2. CASE Taken(b) /\ \E p \in DOMAIN Queue' : Awaits(c, p)'
    BY <1>0, <1>1, <1>2, <1>3, <2>2 DEF Ahead
  <2>3. CASE \E p, q \in DOMAIN Queue' : p < q /\ Awaits(b, p)' /\ Awaits(c, q)'
    <3>1. PICK p, q \in 1..(N + 1) : p < q /\ Awaits(b, p)' /\ Awaits(c, q)'
      BY <1>1, <2>3
    <3>2. PICK r, s \in 1..N : p = to(r) /\ q = to(s)
      BY <1>3, <3>1
    <3>3. r < s /\ Awaits(b, r) /\ Awaits(c, s)
      BY <1>2, <1>5, <3>1, <3>2
    <3> QED
      BY <1>0, <3>3 DEF Ahead
  <2> QED
    BY <1>6, <2>1, <2>2, <2>3 DEF Ahead
<1>9. \A b, c : Before(b, c) => Before(b, c)'
  BY DEF Before
<1>10. Range(accepted') = Range(accepted)
  OBVIOUS
<1> QED
  BY <1>7, <1>8, <1>9, <1>10 DEF InputDelivered, UserByte

(* A byte is written: the first that waits becomes the last that is taken.  *)
LEMMA ByteDelivers ==
    ASSUME PtyTypeOK, PtyTypeOK', InputDelivered, WriteByte
    PROVE  InputDelivered'
<1> SUFFICES ASSUME ~faulted PROVE InputDelivered'
  BY DEF InputDelivered, WriteByte
<1> DEFINE N == Len(Queue)
<1> DEFINE w == <<Head(pending), offset + 1>>
<1> DEFINE d == IF offset + 1 >= Size THEN 1 ELSE 0
<1>0. /\ pending \in Seq(Piece) /\ data \in Seq(Piece) /\ pending # <<>>
      /\ offset \in 0..Size - 1 /\ Size \in Nat \ {0}
      /\ out \in Seq(Piece \X (1..Size))
      /\ faulted' = faulted /\ accepted' = accepted /\ data' = data
  BY SizeAssumption DEF PtyTypeOK, Piece, WriteByte, gate
<1>1. out' = Append(out, w)
  <2>1. offset + 1 \in 1..Size
    BY <1>0
  <2> QED
    BY <2>1 DEF WriteByte, Bytes
<1>2. /\ N \in Nat \ {0} /\ DOMAIN Queue = 1..N /\ Queue[1] = Head(pending)
      /\ Head(pending) \in Piece
  <2>1. Len(pending) \in Nat \ {0} /\ Head(pending) = pending[1] /\ Head(pending) \in Piece
    BY <1>0, EmptyLen
  <2> QED
    BY <2>1, QueuePlaces
<1>3. /\ DOMAIN Queue' = 1..(N - d)
      /\ \A p \in 1..(N - d) : p + d \in 1..N /\ Queue'[p] = Queue[p + d]
  <2>1. CASE d = 0
    <3>1. pending' = pending
      BY <2>1 DEF WriteByte
    <3>2. Queue' = Queue
      BY <1>0, <3>1 DEF Queue
    <3> HIDE DEF d, N
    <3>3. N - d = N /\ \A p \in 1..N : p + d = p
      BY <1>2, <2>1
    <3> QED
      BY <1>2, <3>2, <3>3
  <2>2. CASE d = 1
    <3>1. pending' = Tail(pending)
      BY <2>2 DEF WriteByte
    <3>2. Queue' = Tail(pending) \o data
      BY <1>0, <3>1 DEF Queue
    <3>3. Len(pending) \in Nat \ {0} /\ Len(data) \in Nat
      BY <1>0, EmptyLen
    <3>4. /\ Tail(pending) \in Seq(Piece) /\ Len(Tail(pending)) = Len(pending) - 1
          /\ \A p \in 1..(Len(pending) - 1) : Tail(pending)[p] = pending[p + 1]
      BY <1>0, <3>3
    <3>5. /\ DOMAIN Queue' = 1..(Len(pending) - 1 + Len(data))
          /\ \A p \in 1..(Len(pending) - 1) : Queue'[p] = pending[p + 1]
          /\ \A p \in 1..Len(data) : Queue'[Len(pending) - 1 + p] = data[p]
      BY <1>0, <3>2, <3>3, <3>4
    <3>6. /\ N = Len(pending) + Len(data)
          /\ \A p \in 1..Len(pending) : Queue[p] = pending[p]
          /\ \A p \in 1..Len(data) : Queue[Len(pending) + p] = data[p]
      BY QueuePlaces
    <3>7. ASSUME NEW p \in 1..(N - 1)
          PROVE  p + 1 \in 1..N /\ Queue'[p] = Queue[p + 1]
      <4>0. p + 1 \in 1..N
        BY <1>2
      <4>1. CASE p \in 1..(Len(pending) - 1)
        <5>1. p + 1 \in 1..Len(pending)
          BY <3>3, <4>1
        <5> QED
          BY <3>5, <3>6, <4>0, <4>1, <5>1
      <4>2. CASE p > Len(pending) - 1
        <5>1. PICK j \in 1..Len(data) : Len(pending) - 1 + j = p
          <6>1. p - Len(pending) + 1 \in 1..Len(data)
            BY <1>2, <3>3, <3>6, <4>2
          <6>2. Len(pending) - 1 + (p - Len(pending) + 1) = p
            BY <3>3
          <6> QED
            BY <6>1, <6>2
        <5>2. Len(pending) + j = p + 1
          BY <3>3, <5>1
        <5>3. Queue'[p] = data[j]
          BY <3>5, <5>1
        <5>4. Queue[p + 1] = data[j]
          BY <3>6, <5>2
        <5> QED
          BY <4>0, <5>3, <5>4
      <4> QED
        BY <3>3, <4>1, <4>2
    <3> QED
      BY <2>2, <3>3, <3>5, <3>6, <3>7
  <2> QED
    BY <2>1, <2>2
<1>4. d \in {0, 1} /\ offset' = (IF d = 1 THEN 0 ELSE offset + 1)
      /\ (d = 1 => offset + 1 = Size)
  BY <1>0 DEF WriteByte
<1> HIDE DEF N, d
<1>5. \A b \in UserByte, p \in 1..(N - d) : Awaits(b, p)' => Awaits(b, p + d)
  <2> SUFFICES ASSUME NEW b \in UserByte, NEW p \in 1..(N - d), Awaits(b, p)'
               PROVE  Awaits(b, p + d)
    OBVIOUS
  <2>1. b[2] \in Nat \ {0} /\ p \in Nat \ {0}
    BY UserByteOf, <1>2, <1>4
  <2>2. Queue[p + d] = b[1] /\ p + d \in DOMAIN Queue
    BY <1>2, <1>3 DEF Awaits
  <2>3. p + d = 1 => p = 1 /\ d = 0
    BY <1>4, <2>1
  <2>4. p + d = 1 => offset < b[2]
    BY <1>0, <1>4, <2>1, <2>3 DEF Awaits
  <2> QED
    BY <2>2, <2>4 DEF Awaits
<1>6. \A b \in UserByte, q \in 1..N :
        Awaits(b, q) => b = w \/ \E p \in 1..(N - d) : Awaits(b, p)'
  <2> SUFFICES ASSUME NEW b \in UserByte, NEW q \in 1..N, Awaits(b, q), b # w
               PROVE  \E p \in 1..(N - d) : Awaits(b, p)'
    OBVIOUS
  <2>1. b[2] \in 1..Size /\ b[2] \in Nat \ {0} /\ b = <<b[1], b[2]>>
    BY UserByteOf
  <2>2. q = 1 => b[1] = Head(pending) /\ b[2] > offset
    BY <1>0, <1>2, <2>1 DEF Awaits
  <2>3. q = 1 => b[2] # offset + 1
    BY <2>1, <2>2
  <2>4. q = 1 => d = 0 /\ offset + 1 < b[2]
    BY <1>0, <1>4, <2>1, <2>2, <2>3
  <2>5. PICK p \in 1..(N - d) : p + d = q
    <3>1. q - d \in 1..(N - d) /\ (q - d) + d = q
      BY <1>2, <1>4, <2>4
    <3> QED
      BY <3>1
  <2>6. Queue'[p] = b[1] /\ p \in DOMAIN Queue'
    BY <1>3, <2>5 DEF Awaits
  <2>7. p = 1 => offset' < b[2]
    BY <1>0, <1>2, <1>4, <2>1, <2>4, <2>5
  <2> QED
    BY <2>5, <2>6, <2>7 DEF Awaits
<1>7. w \in UserByte => Awaits(w, 1)
  BY <1>0, <1>2 DEF Awaits
<1>8. \A c \in UserByte, p \in 1..(N - d) :
        Awaits(c, p)' /\ p + d = 1 => c[1] = w[1] /\ w[2] < c[2]
  <2> SUFFICES ASSUME NEW c \in UserByte, NEW p \in 1..(N - d), Awaits(c, p)', p + d = 1
               PROVE  c[1] = w[1] /\ w[2] < c[2]
    OBVIOUS
  <2>1. p = 1 /\ d = 0
    BY <1>2, <1>4
  <2> QED
    BY <1>0, <1>2, <1>3, <1>4, <2>1 DEF Awaits
<1> HIDE DEF w
<1>9. /\ Len(out) \in Nat /\ DOMAIN out = 1..Len(out) /\ DOMAIN out' = 1..(Len(out) + 1)
      /\ \A n \in 1..Len(out) : out'[n] = out[n]
      /\ out'[Len(out) + 1] = w
  <2>1. w \in Piece \X (1..Size)
    BY <1>0, <1>2 DEF w
  <2> QED
    BY <1>0, <1>1, <2>1
<1>10. \A b : Taken(b)' <=> Taken(b) \/ b = w
  BY <1>9 DEF Taken
<1>11. \A b \in UserByte : InLine(b)' <=> InLine(b)
  <2> SUFFICES ASSUME NEW b \in UserByte PROVE InLine(b)' <=> InLine(b)
    OBVIOUS
  <2>1. ASSUME InLine(b)' PROVE InLine(b)
    <3>1. CASE b = w
      BY <1>2, <1>7, <3>1 DEF InLine
    <3>2. CASE b # w
      BY <1>2, <1>3, <1>5, <1>10, <2>1, <3>2 DEF InLine
    <3> QED
      BY <3>1, <3>2
  <2>2. ASSUME InLine(b) PROVE InLine(b)'
    <3>1. CASE Taken(b)
      BY <1>10, <3>1 DEF InLine
    <3>2. CASE \E q \in 1..N : Awaits(b, q)
      BY <1>3, <1>6, <1>10, <3>2 DEF InLine
    <3> QED
      BY <1>2, <2>2, <3>1, <3>2 DEF InLine
  <2> QED
    BY <2>1, <2>2
<1>12. \A b, c \in UserByte : Ahead(b, c)' => Ahead(b, c) \/ Before(b, c)
  <2> SUFFICES ASSUME NEW b \in UserByte, NEW c \in UserByte, Ahead(b, c)'
               PROVE  Ahead(b, c) \/ Before(b, c)
    OBVIOUS
  <2>1. CASE \E n, m \in DOMAIN out' : n < m /\ out'[n] = b /\ out'[m] = c
    <3>1. PICK n, m \in 1..(Len(out) + 1) : n < m /\ out'[n] = b /\ out'[m] = c
      BY <1>9, <2>1
    <3>2. n \in 1..Len(out) /\ out[n] = b
      BY <1>9, <3>1
    <3>3. CASE m \in 1..Len(out)
      BY <1>9, <3>1, <3>2, <3>3 DEF Ahead
    <3>4. CASE m = Len(out) + 1
      <4>1. c = w /\ Taken(b)
        BY <1>9, <3>1, <3>2, <3>4 DEF Taken
      <4> QED
        BY <1>2, <1>7, <4>1 DEF Ahead
    <3> QED
      BY <1>9, <3>3, <3>4
  <2>2. CASE Taken(b)' /\ \E p \in DOMAIN Queue' : Awaits(c, p)'
    <3>1. PICK p \in 1..(N - d) : Awaits(c, p)'
      BY <1>3, <2>2
    <3>2. Awaits(c, p + d) /\ p + d \in DOMAIN Queue
      BY <1>2, <1>3, <1>5, <3>1
    <3>3. CASE Taken(b)
      BY <3>2, <3>3 DEF Ahead
    <3>4. CASE b = w /\ p + d = 1
      BY <1>8, <3>1, <3>4 DEF Before
    <3>5. CASE b = w /\ p + d # 1
      <4>1. 1 < p + d /\ 1 \in DOMAIN Queue
        BY <1>2, <3>2, <3>5
      <4> QED
        BY <1>7, <3>2, <3>5, <4>1 DEF Ahead
    <3> QED
      BY <1>10, <2>2, <3>3, <3>4, <3>5
  <2>3. CASE \E p, q \in DOMAIN Queue' : p < q /\ Awaits(b, p)' /\ Awaits(c, q)'
    <3>1. PICK p, q \in 1..(N - d) : p < q /\ Awaits(b, p)' /\ Awaits(c, q)'
      BY <1>3, <2>3
    <3>2. /\ Awaits(b, p + d) /\ Awaits(c, q + d)
          /\ p + d \in DOMAIN Queue /\ q + d \in DOMAIN Queue
      BY <1>2, <1>3, <1>5, <3>1
    <3>3. p + d < q + d
      BY <1>2, <1>4, <3>1
    <3> QED
      BY <3>2, <3>3 DEF Ahead
  <2> QED
    BY <2>1, <2>2, <2>3 DEF Ahead
<1>13. \A b, c : Before(b, c) => Before(b, c)'
  BY <1>0 DEF Before
<1>14. Range(accepted') = Range(accepted)
  BY <1>0
<1> QED
  BY <1>11, <1>12, <1>13, <1>14 DEF InputDelivered, UserByte

(* Sends happen while the gate is open: the actor is not released, and if   *)
(* it works at all it is running.                                           *)
LEMMA WriterDelivers ==
    DeliveryInv /\ PtyInv' /\ WriterNext => StoppedInv' /\ ReleaseInv' /\ InputDelivered'
<1> SUFFICES ASSUME DeliveryInv, NEW i \in Input,
                    TryWriteUserInput(i) \/ CheckGate(i) \/ Reserve(i) \/ SendReserved(i)
             PROVE  StoppedInv' /\ ReleaseInv' /\ InputDelivered'
  BY DEF WriterNext
<1>1. /\ UNCHANGED <<caller, resize, answers, actor>>
      /\ \/ UNCHANGED <<data, accepted>>
         \/ accepting /\ Send(i)
  BY DEF TryWriteUserInput, CheckGate, Reserve, SendReserved
<1>2. UNCHANGED <<control, waiting, paused, step, state, pending, offset, out, faulted>>
  BY <1>1 DEF caller, actor
<1>3. ReleaseInv'
  BY <1>2 DEF DeliveryInv, ReleaseInv, Lacks, Running
<1>4. CASE UNCHANGED <<data, accepted>>
  BY <1>2, <1>3, <1>4, SameQueue DEF DeliveryInv, StoppedInv, Running, Queue
<1>5. CASE accepting /\ Send(i)
  <2>1. state # "Released" /\ (Running => state = "Running")
    BY <1>5 DEF DeliveryInv, PtyInv, PausedInv, GateInv, ReleaseInv
  <2>2. StoppedInv'
    BY <1>2, <2>1 DEF DeliveryInv, StoppedInv, Running
  <2>3. InputDelivered'
    BY <1>2, <1>5, <2>1, SendDelivers DEF DeliveryInv, PtyInv, StoppedInv
  <2> QED
    BY <1>3, <2>2, <2>3
<1> QED
  BY <1>1, <1>4, <1>5

LEMMA WriterOnce == DeliveryInv /\ WriterNext => AcceptedOnce'
<1> SUFFICES ASSUME DeliveryInv, NEW i \in Input,
                    TryWriteUserInput(i) \/ CheckGate(i) \/ Reserve(i) \/ SendReserved(i)
             PROVE  AcceptedOnce'
  BY DEF WriterNext
<1>0. accepted \in Seq(Input) /\ DOMAIN accepted = 1..Len(accepted) /\ Len(accepted) \in Nat
  BY DEF DeliveryInv, PtyInv, PtyTypeOK
<1>1. Fresh(i) => i \notin checked \cup permits /\ \A x \in DOMAIN accepted : accepted[x] # i
  BY DEF Fresh, Range
<1>2. ASSUME accepted' = accepted, checked' \subseteq checked \cup {i}, permits' \subseteq permits \cup {i},
             checked' \cap permits' = {}, i \in checked' \cup permits' => \A x \in DOMAIN accepted : accepted[x] # i
      PROVE  AcceptedOnce'
  BY <1>2 DEF DeliveryInv, AcceptedOnce
<1>3. ASSUME Send(i), checked' \subseteq checked, permits' \subseteq permits, i \notin checked' \cup permits',
             \A x \in DOMAIN accepted : accepted[x] # i
      PROVE  AcceptedOnce'
  <2>1. /\ DOMAIN accepted' = 1..(Len(accepted) + 1)
        /\ \A x \in 1..Len(accepted) : accepted'[x] = accepted[x]
        /\ accepted'[Len(accepted) + 1] = i
    BY <1>0, <1>3 DEF Send
  <2>2. \A x \in DOMAIN accepted' : x \in DOMAIN accepted \/ x = Len(accepted) + 1
    BY <1>0, <2>1
  <2>3. \A x, y \in DOMAIN accepted' : accepted'[x] = accepted'[y] => x = y
    BY <1>0, <1>3, <2>1, <2>2 DEF DeliveryInv, AcceptedOnce
  <2>4. \A x \in DOMAIN accepted' : accepted'[x] \notin checked' \cup permits'
    BY <1>0, <1>3, <2>1, <2>2 DEF DeliveryInv, AcceptedOnce
  <2> QED
    BY <1>3, <2>3, <2>4 DEF DeliveryInv, AcceptedOnce
<1>4. CASE TryWriteUserInput(i)
  BY <1>1, <1>2, <1>3, <1>4 DEF TryWriteUserInput, DeliveryInv, AcceptedOnce
<1>5. CASE CheckGate(i)
  BY <1>1, <1>2, <1>5 DEF CheckGate, DeliveryInv, AcceptedOnce
<1>6. CASE Reserve(i)
  BY <1>2, <1>6 DEF Reserve, DeliveryInv, AcceptedOnce
<1>7. CASE SendReserved(i)
  BY <1>2, <1>3, <1>7 DEF SendReserved, DeliveryInv, AcceptedOnce
<1> QED
  BY <1>4, <1>5, <1>6, <1>7

(* The control thread leaves the line alone, and makes no call after a      *)
(* release.                                                                 *)
LEMMA CallerDelivers ==
    DeliveryInv /\ PtyInv' /\ CallerNext => StoppedInv' /\ ReleaseInv' /\ InputDelivered'
<1> SUFFICES ASSUME DeliveryInv, CallerNext
             PROVE  StoppedInv' /\ ReleaseInv' /\ InputDelivered'
  OBVIOUS
<1>1. UNCHANGED <<accepted, data, step, state, pending, offset, out, faulted>>
  BY DEF CallerNext, BeginHandoff, BeginReturns, BeginFails, RollbackHandoff, RollbackReturns,
         DuplicateForHandoff, ReleaseAfterCommit, DuplicateReturns, Shutdown, Resize, actor, gate
<1>2. StoppedInv' /\ InputDelivered'
  BY <1>1, SameQueue DEF DeliveryInv, StoppedInv, Running, Queue
<1>3. ReleaseInv'
  <2>0. call \in 0..MaxCalls + 1 /\ MaxCalls \in Nat /\ control \in Seq(ControlCall)
    BY ChannelType DEF DeliveryInv
  <2>1. ASSUME NEW kind \in Commands, call <= MaxCalls,
               control' = Append(control, [kind |-> kind, call |-> call + 1])
        PROVE  Lacks(control', {"release"}) <=> Lacks(control, {"release"}) /\ kind # "release"
    <3>1. [kind |-> kind, call |-> call + 1] \in ControlCall
      BY <2>0, <2>1 DEF ControlCall
    <3> QED
      BY <2>0, <2>1, <3>1, LacksAppend
  <2>a. /\ {"begin", "rollback", "duplicate", "release", "shutdown"} \subseteq Commands
        /\ CallsLeft => waiting = "none" /\ call <= MaxCalls
        /\ waiting = "begin" => call <= MaxCalls
    BY <2>0 DEF Commands, CallsLeft, DeliveryInv, PtyInv, ChannelInv
  <2>2. CASE waiting = "release"
    BY <1>1, <2>2 DEF CallerNext, CallsLeft, BeginHandoff, BeginReturns, BeginFails,
          RollbackHandoff, RollbackReturns, DuplicateForHandoff, ReleaseAfterCommit,
          DuplicateReturns, Shutdown, Resize
  <2>3. CASE waiting # "release"
    <3>1. Lacks(control, {"release"}) /\ state' # "Released"
      BY <1>1, <2>3 DEF DeliveryInv, ReleaseInv
    <3>2. ASSUME NEW kind \in Commands \ {"release"}, call <= MaxCalls,
                 control' = Append(control, [kind |-> kind, call |-> call + 1])
          PROVE  ReleaseInv'
      BY <2>1, <3>1, <3>2 DEF ReleaseInv
    <3>3. ASSUME control' = control PROVE ReleaseInv'
      BY <3>1, <3>3 DEF ReleaseInv, Lacks
    <3>4. CASE ReleaseAfterCommit
      BY <3>1, <3>4 DEF ReleaseAfterCommit, Call, ReleaseInv
    <3>5. CASE BeginHandoff \/ BeginFails
      BY <2>a, <3>2, <3>3, <3>5 DEF BeginHandoff, BeginFails, Call, Return
    <3>6. CASE RollbackHandoff \/ DuplicateForHandoff \/ Shutdown
      BY <2>a, <3>2, <3>6 DEF RollbackHandoff, DuplicateForHandoff, Shutdown, Call
    <3>7. CASE BeginReturns \/ RollbackReturns \/ DuplicateReturns \/ Resize
      BY <3>3, <3>7 DEF BeginReturns, RollbackReturns, DuplicateReturns, Resize, Return, caller
    <3> QED
      BY <3>4, <3>5, <3>6, <3>7 DEF CallerNext
  <2> QED
    BY <2>2, <2>3
<1> QED
  BY <1>2, <1>3

(* Calls the actor takes: only a release empties the queue, and then no     *)
(* user input is in it.                                                     *)
LEMMA NoUserInput ==
    ASSUME PtyTypeOK, PtyTypeOK', InputDelivered, data = <<>>, OnlyAnswers(pending),
           pending' = <<>>, UNCHANGED <<data, offset, out, accepted, faulted>>
    PROVE  InputDelivered'
<1>1. /\ Len(data) = 0 /\ DOMAIN Queue = 1..Len(pending)
      /\ \A p \in 1..Len(pending) : Queue[p] = Answer
  <2>1. Len(data) = 0
    OBVIOUS
  <2> QED
    BY <2>1, QueuePlaces DEF OnlyAnswers
<1>2. DOMAIN Queue' = {}
  <2>1. Queue' = <<>> \o <<>>
    BY DEF Queue
  <2>2. DOMAIN (<<>> \o <<>>) = {}
    OBVIOUS
  <2> QED
    BY <2>1, <2>2
<1>3. \A b \in UserByte : \A p : ~Awaits(b, p) /\ ~Awaits(b, p)'
  BY <1>1, <1>2, UserByteOf DEF Awaits
<1>4. \A b : Taken(b)' <=> Taken(b)
  BY DEF Taken
<1>5. \A b \in UserByte : InLine(b)' <=> InLine(b)
  BY <1>3, <1>4 DEF InLine
<1>6. \A b, c \in UserByte : Ahead(b, c)' => Ahead(b, c)
  BY <1>3 DEF Ahead
<1>7. \A b, c : Before(b, c) => Before(b, c)'
  BY DEF Before
<1> QED
  BY <1>5, <1>6, <1>7 DEF InputDelivered, UserByte, Range

LEMMA TakenKeepsRelease ==
    ASSUME DeliveryInv, control # <<>>, NextControl, step = "control" \/ step = "drain",
           \/ state' # "Released"
           \/ Head(control).kind = "release" /\ step' = "exit"
    PROVE  ReleaseInv'
<1>1. control \in Seq(ControlCall)
  BY ChannelType DEF DeliveryInv
<1>2. /\ ~Lacks(control', {"release"}) => ~Lacks(control, {"release"})
      /\ Head(control).kind = "release" => ~Lacks(control, {"release"})
  BY <1>1, LacksTail DEF NextControl
<1> QED
  BY <1>2 DEF DeliveryInv, ReleaseInv, NextControl, Running

LEMMA ControlDelivers ==
    DeliveryInv /\ PtyInv' /\ (Quiesce \/ DrainTimesOut \/ HandleRollback \/ HandleDuplicate
                                 \/ HandleRelease \/ HandleShutdown)
      => StoppedInv' /\ ReleaseInv' /\ InputDelivered'
<1> SUFFICES ASSUME DeliveryInv, PtyInv',
                    Quiesce \/ DrainTimesOut \/ HandleRollback \/ HandleDuplicate
                      \/ HandleRelease \/ HandleShutdown
             PROVE  StoppedInv' /\ ReleaseInv' /\ InputDelivered'
  OBVIOUS
<1>0. /\ state = "Released" => step = "exit"
      /\ step = "drain" => data = <<>> /\ control # <<>>
      /\ PtyTypeOK /\ PtyTypeOK'
  BY DEF DeliveryInv, ReleaseInv, Running, PtyInv, ReplyInv
<1>1. CASE Quiesce \/ DrainTimesOut \/ HandleRollback \/ HandleDuplicate \/ HandleShutdown
  <2>1. /\ UNCHANGED <<accepted, data, pending, offset, out, faulted>>
        /\ step \in {"control", "drain"} /\ step' \in {"control", "exit"} /\ NextControl
        /\ control # <<>> /\ state # "Released" /\ state' # "Released"
        /\ state' # "Running" => data = <<>> \/ state # "Running" \/ step' = "exit"
    BY <1>0, <1>1 DEF Quiesce, DrainTimesOut, HandleRollback, HandleDuplicate, HandleShutdown,
                 TakeControl, gate, actor
  <2>2. StoppedInv'
    BY <2>1 DEF DeliveryInv, StoppedInv, Running
  <2>3. InputDelivered'
    BY <2>1, SameQueue DEF DeliveryInv, Queue
  <2> QED
    BY <2>1, <2>2, <2>3, TakenKeepsRelease
<1>2. CASE HandleRelease
  <2>1. /\ UNCHANGED <<accepted, data, offset, out, faulted>> /\ pending' = <<>>
        /\ step = "control" /\ step' = "exit" /\ NextControl /\ state' = "Released"
        /\ control # <<>> /\ Head(control).kind = "release"
    BY <1>2 DEF HandleRelease, TakeControl, Received, gate
  <2>2. paused
    <3>1. control \in Seq(ControlCall)
      BY ChannelType DEF DeliveryInv
    <3>2. ~Lacks(control, {"release"})
      BY <2>1, <3>1, LacksTail
    <3> QED
      BY <3>2 DEF DeliveryInv, ReleaseInv
  <2>3. data = <<>> /\ OnlyAnswers(pending)
    BY <2>2 DEF DeliveryInv, PtyInv, PausedInv
  <2>4. InputDelivered'
    BY <1>0, <2>1, <2>3, NoUserInput DEF DeliveryInv
  <2>5. StoppedInv'
    BY <2>1 DEF StoppedInv, Running
  <2> QED
    BY <2>1, <2>4, <2>5, TakenKeepsRelease
<1> QED
  BY <1>1, <1>2

(* Data that becomes pending, with an answer behind it or not.              *)
LEMMA DrainDelivers ==
    DeliveryInv /\ PtyInv' /\ StartDraining => StoppedInv' /\ ReleaseInv' /\ InputDelivered'
<1> SUFFICES ASSUME DeliveryInv, PtyInv', StartDraining
             PROVE  StoppedInv' /\ ReleaseInv' /\ InputDelivered'
  OBVIOUS
<1>0. /\ UNCHANGED <<accepted, control, waiting, paused, state, offset, out, faulted>>
      /\ data' = <<>> /\ step = "control" /\ step' = "drain"
      /\ pending' = pending \o data \o (IF resize THEN <<Answer>> ELSE <<>>)
  BY DEF StartDraining, TakeControl, gate, caller
<1>1. /\ pending \in Seq(Piece) /\ data \in Seq(Piece) /\ Answer \in Piece
      /\ PtyTypeOK /\ PtyTypeOK' /\ state # "Released"
  BY <1>0 DEF DeliveryInv, PtyInv, PtyTypeOK, Piece, ReleaseInv, Running
<1>2. ReleaseInv'
  BY <1>0, <1>1 DEF DeliveryInv, ReleaseInv, Lacks
<1>3. Queue' = Queue \o (IF resize THEN <<Answer>> ELSE <<>>) /\ Queue \in Seq(Piece)
  BY <1>0, <1>1 DEF Queue
<1>4. pending' = <<>> => pending = <<>>
  BY <1>0, <1>1
<1>5. StoppedInv'
  BY <1>0, <1>4 DEF DeliveryInv, StoppedInv
<1>6. CASE ~resize
  <2>1. Queue' = Queue
    BY <1>3, <1>6
  <2> QED
    BY <1>0, <1>2, <1>5, <2>1, SameQueue DEF DeliveryInv
<1>7. CASE resize
  <2>1. Queue' = Append(Queue, Answer)
    BY <1>1, <1>3, <1>7
  <2> DEFINE a == Len(Queue) + 1
  <2>2. /\ a \in 1..(Len(Queue) + 1) /\ Len(Queue) \in Nat
    BY <1>3
  <2>3. /\ Len(Queue') = Len(Queue) + 1
        /\ \A p \in 1..(a - 1) : Queue'[p] = Queue[p]
        /\ Queue'[a] = Answer
        /\ \A p \in a..Len(Queue) : Queue'[p + 1] = Queue[p]
    BY <1>1, <1>3, <2>1, <2>2
  <2>4. a = 1 => offset = 0
    <3>1. Len(Queue) = Len(pending) + Len(data) /\ Len(pending) \in Nat /\ Len(data) \in Nat
      BY <1>1, QueuePlaces
    <3>2. a = 1 => Len(pending) = 0
      BY <3>1
    <3>3. Len(pending) = 0 => pending = <<>>
      BY <1>1
    <3> QED
      BY <1>1, <3>2, <3>3 DEF DeliveryInv, StoppedInv
  <2> HIDE DEF a
  <2>5. InputDelivered
    BY DEF DeliveryInv
  <2>6. InputDelivered'
    BY <1>0, <1>1, <2>2, <2>3, <2>4, <2>5, AnswerDelivers
  <2> QED
    BY <1>2, <1>5, <2>6
<1> QED
  BY <1>2, <1>5, <1>6, <1>7

(* The rest of the actor's loop.                                            *)
LEMMA AnswerAppended ==
    ASSUME DeliveryInv, PtyTypeOK', pending' = Append(pending, Answer), state # "Released",
           UNCHANGED <<data, offset, out, accepted, faulted>>
    PROVE  InputDelivered'
<1> DEFINE a == Len(pending) + 1
<1>1. /\ pending \in Seq(Piece) /\ data \in Seq(Piece) /\ Answer \in Piece /\ PtyTypeOK /\ InputDelivered
  BY DEF DeliveryInv, PtyInv, PtyTypeOK, Piece
<1>2. /\ Len(Queue) = Len(pending) + Len(data) /\ Len(pending) \in Nat /\ Len(data) \in Nat
      /\ \A p \in 1..Len(pending) : Queue[p] = pending[p]
      /\ \A p \in 1..Len(data) : Queue[Len(pending) + p] = data[p]
  BY <1>1, QueuePlaces
<1>3. /\ Len(pending') = a
      /\ \A p \in 1..Len(pending) : pending'[p] = pending[p]
      /\ pending'[a] = Answer
  BY <1>1
<1>4. /\ Len(Queue') = Len(pending') + Len(data')
      /\ \A p \in 1..Len(pending') : Queue'[p] = pending'[p]
      /\ \A p \in 1..Len(data') : Queue'[Len(pending') + p] = data'[p]
  BY <1>1 DEF Queue
<1>5. /\ Len(Queue') = Len(Queue) + 1 /\ a \in 1..(Len(Queue) + 1)
      /\ \A p \in 1..(a - 1) : Queue'[p] = Queue[p]
      /\ Queue'[a] = Answer
  BY <1>2, <1>3, <1>4
<1>6. \A p \in a..Len(Queue) : Queue'[p + 1] = Queue[p]
  <2> TAKE p \in a..Len(Queue)
  <2>1. PICK j \in 1..Len(data) : Len(pending) + j = p
    <3>1. p - Len(pending) \in 1..Len(data) /\ Len(pending) + (p - Len(pending)) = p
      BY <1>2
    <3> QED
      BY <3>1
  <2>2. Len(pending') + j = p + 1
    BY <1>2, <1>3, <2>1
  <2>3. Queue[p] = data[j] /\ Queue'[p + 1] = data[j]
    BY <1>2, <1>4, <2>1, <2>2
  <2> QED
    BY <2>3
<1>7. a = 1 => offset = 0
  <2>1. Len(pending) = 0 => pending = <<>>
    BY <1>1
  <2> QED
    BY <1>2, <2>1 DEF DeliveryInv, StoppedInv
<1> HIDE DEF a
<1> QED
  BY <1>1, <1>5, <1>6, <1>7, AnswerDelivers

LEMMA LoopDelivers ==
    DeliveryInv /\ PtyInv' /\ (ControlDone \/ HandleData \/ ApplyControls \/ WriteByte \/ WriteFails
                                 \/ FlushDone \/ Poll \/ ReadFails)
      => StoppedInv' /\ ReleaseInv' /\ InputDelivered'
<1> SUFFICES ASSUME DeliveryInv, PtyInv',
                    ControlDone \/ HandleData \/ ApplyControls \/ WriteByte \/ WriteFails
                      \/ FlushDone \/ Poll \/ ReadFails
             PROVE  StoppedInv' /\ ReleaseInv' /\ InputDelivered'
  OBVIOUS
<1>0. /\ UNCHANGED <<accepted, control, waiting, paused, state>> /\ step # "exit"
  BY DEF ControlDone, HandleData, ApplyControls, WriteByte, WriteFails, FlushDone, Poll, ReadFails,
         gate, caller
<1>1. /\ pending \in Seq(Piece) /\ data \in Seq(Piece) /\ Answer \in Piece
      /\ PtyTypeOK /\ PtyTypeOK' /\ state # "Released"
  BY <1>0 DEF DeliveryInv, PtyInv, PtyTypeOK, Piece, ReleaseInv, Running
<1>2. ReleaseInv'
  BY <1>0, <1>1 DEF DeliveryInv, ReleaseInv, Lacks
<1>3. Append(pending, Answer) # <<>>
  BY <1>1
<1>4. CASE ControlDone \/ FlushDone \/ ReadFails
  <2>1. UNCHANGED <<data, pending, offset, out>> /\ faulted' \in {faulted, TRUE}
    BY <1>4 DEF ControlDone, FlushDone, ReadFails
  <2>2. StoppedInv'
    BY <1>0, <2>1 DEF DeliveryInv, StoppedInv, Running
  <2>3. CASE faulted' = TRUE
    BY <1>2, <2>2, <2>3 DEF InputDelivered
  <2>4. CASE faulted' = faulted
    BY <1>0, <1>2, <2>1, <2>2, <2>4, SameQueue DEF DeliveryInv, Queue
  <2> QED
    BY <2>1, <2>3, <2>4
<1>5. CASE HandleData
  <2>1. /\ UNCHANGED <<step, offset, out, faulted>> /\ data # <<>> /\ data' = Tail(data)
        /\ step = "data"
        /\ pending' = IF state = "Running" THEN Append(pending, Head(data)) ELSE pending
    BY <1>5 DEF HandleData
  <2>2. state = "Running"
    BY <1>0, <2>1 DEF DeliveryInv, StoppedInv, Running
  <2>3. Head(data) \in Piece /\ data = <<Head(data)>> \o Tail(data) /\ Tail(data) \in Seq(Piece)
    BY <1>1, <2>1
  <2>4. Queue' = Queue
    <3>1. Append(pending, Head(data)) = pending \o <<Head(data)>>
      BY <1>1, <2>3
    <3>2. (pending \o <<Head(data)>>) \o Tail(data) = pending \o (<<Head(data)>> \o Tail(data))
      BY <1>1, <2>3
    <3> QED
      BY <2>1, <2>2, <2>3, <3>1, <3>2 DEF Queue
  <2>5. pending' # <<>>
    BY <1>1, <2>1, <2>2, <2>3
  <2>6. StoppedInv'
    BY <1>0, <2>2, <2>5 DEF StoppedInv
  <2> QED
    BY <1>0, <1>2, <2>1, <2>4, <2>6, SameQueue DEF DeliveryInv
<1>6. CASE ApplyControls \/ Poll
  <2>1. /\ UNCHANGED <<data, offset, out, faulted>> /\ step' # "exit"
        /\ pending' = pending \/ pending' = Append(pending, Answer)
    BY <1>6 DEF ApplyControls, Poll
  <2>2. StoppedInv'
    BY <1>0, <1>3, <2>1 DEF DeliveryInv, StoppedInv, Running
  <2>3. CASE pending' = pending
    BY <1>0, <1>2, <2>1, <2>2, <2>3, SameQueue DEF DeliveryInv, Queue
  <2>4. CASE pending' = Append(pending, Answer)
    BY <1>0, <1>1, <1>2, <2>1, <2>2, <2>4, AnswerAppended
  <2> QED
    BY <2>1, <2>3, <2>4
<1>7. CASE WriteByte
  <2>1. InputDelivered'
    BY <1>1, <1>7, ByteDelivers DEF DeliveryInv
  <2>2. /\ pending # <<>> /\ (pending' = pending \/ offset' = 0) /\ data' = data /\ step' = step
    BY <1>7 DEF WriteByte
  <2>3. StoppedInv'
    BY <1>0, <2>2 DEF DeliveryInv, StoppedInv, Running
  <2> QED
    BY <1>2, <2>1, <2>3
<1>8. CASE WriteFails
  <2>1. faulted' = TRUE /\ offset' = 0 /\ UNCHANGED <<data, step>>
    BY <1>8 DEF WriteFails
  <2> QED
    BY <1>0, <1>2, <2>1 DEF DeliveryInv, StoppedInv, InputDelivered, Running
<1> QED
  BY <1>4, <1>5, <1>6, <1>7, <1>8

LEMMA DeliveryInitHolds == PtyInit => DeliveryInv
<1> SUFFICES ASSUME PtyInit PROVE DeliveryInv
  OBVIOUS
<1>1. PtyInv
  BY PtyInitHolds
<1>2. StoppedInv /\ ReleaseInv /\ AcceptedOnce
  BY DEF PtyInit, StoppedInv, ReleaseInv, AcceptedOnce, Lacks
<1>3. DOMAIN Queue = {} /\ DOMAIN out = {} /\ Range(accepted) = {}
  <2>1. Queue = <<>> \o <<>> /\ out = <<>> /\ accepted = <<>>
    BY DEF PtyInit, Queue
  <2>2. DOMAIN (<<>> \o <<>>) = {} /\ DOMAIN <<>> = {}
    OBVIOUS
  <2> QED
    BY <2>1, <2>2 DEF Range
<1>4. InputDelivered
  BY <1>3 DEF InputDelivered, InLine, Ahead, Taken, Awaits
<1> QED
  BY <1>1, <1>2, <1>4 DEF DeliveryInv

LEMMA DeliveryNextKeeps == DeliveryInv /\ [PtyNext]_ptyVars => DeliveryInv'
<1> SUFFICES ASSUME DeliveryInv, [PtyNext]_ptyVars PROVE DeliveryInv'
  OBVIOUS
<1>0. PtyInv'
  BY PtyNextKeeps DEF DeliveryInv
<1>1. CASE UNCHANGED ptyVars
  <2>1. UNCHANGED <<accepted, checked, permits, data, control, waiting, paused, step, state, pending,
                    offset, out, faulted>>
    BY <1>1 DEF ptyVars, gate, caller, actor
  <2>2. StoppedInv' /\ ReleaseInv' /\ AcceptedOnce'
    BY <2>1 DEF DeliveryInv, StoppedInv, ReleaseInv, AcceptedOnce, Lacks, Running
  <2>3. InputDelivered'
    BY <2>1, SameQueue DEF DeliveryInv, Queue
  <2> QED
    BY <1>0, <2>2, <2>3 DEF DeliveryInv
<1>2. CASE WriterNext
  BY <1>0, <1>2, WriterDelivers, WriterOnce DEF DeliveryInv
<1>3. CASE CallerNext \/ ActorNext
  <2>1. AcceptedOnce'
    <3>1. UNCHANGED <<accepted, checked, permits>>
      BY <1>3 DEF CallerNext, BeginHandoff, BeginReturns, BeginFails, RollbackHandoff,
           RollbackReturns, DuplicateForHandoff, ReleaseAfterCommit, DuplicateReturns, Shutdown,
           Resize, ActorNext, StartDraining, Quiesce, DrainTimesOut, HandleRollback,
           HandleDuplicate, HandleRelease, HandleShutdown, ControlDone, HandleData, ApplyControls,
           WriteByte, WriteFails, FlushDone, Poll, ReadFails, gate
    <3> QED
      BY <3>1 DEF DeliveryInv, AcceptedOnce
  <2>2. StoppedInv' /\ ReleaseInv' /\ InputDelivered'
    BY <1>0, <1>3, CallerDelivers, DrainDelivers, ControlDelivers, LoopDelivers DEF ActorNext
  <2> QED
    BY <1>0, <2>1, <2>2 DEF DeliveryInv
<1> QED
  BY <1>1, <1>2, <1>3 DEF PtyNext

(***************************************************************************)
(* No accepted input is lost, doubled or reordered on its way through the   *)
(* channel, the pending writes and the drain of a handoff, for any number   *)
(* of inputs, bytes and calls; and no piece is accepted twice, so that the  *)
(* order of acceptance is one.                                              *)
(***************************************************************************)
THEOREM InputDeliveredHolds == PtySpec => [](InputDelivered /\ AcceptedOnce)
<1>1. DeliveryInv => InputDelivered /\ AcceptedOnce
  BY DEF DeliveryInv
<1> QED
  BY <1>1, DeliveryInitHolds, DeliveryNextKeeps, PTL DEF PtySpec
=============================================================================
