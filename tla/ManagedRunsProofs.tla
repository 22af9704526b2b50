-------------------------- MODULE ManagedRunsProofs --------------------------
(***************************************************************************)
(* Proofs about ManagedRuns, for every set of runs, requests and checks,   *)
(* every number of faults and every length of the journal.                 *)
(*                                                                         *)
(* The server's safety between handlers rests on where a handler can be    *)
(* when it is interrupted.  HandlerInv lists those places: for every value *)
(* that todo can have, what is true of the claim, the providers, the proof *)
(* worker and the journal at that point.  Each handler's lemma then shows  *)
(* that its steps lead from one of its places to another, to the end of    *)
(* the handler, or to the process being gone.                              *)
(***************************************************************************)
EXTENDS ManagedRuns, MissionProjectionProofs, SequenceTheorems, TLAPS

(***************************************************************************)
(* What the journal says, at every moment.                                 *)
(***************************************************************************)
\* Evidence counts only for a run that exists.
EvidenceHasRun ==
  (\E c \in Check : evidence[c] = "passed") => run # NoRun

\* A mission without a run is new.
RunlessIsNew == run = NoRun => status \in {"absent", "draft"}

JournalInv ==
  IInv /\ SentIsRecorded /\ ClosedOnEvidence /\ EvidenceHasRun /\ RunlessIsNew

\* What must be true of the mission for the event of e to be harmless, now or
\* when a restart replays it.
Sound(e) ==
  CASE e.do = "notApplied" -> sent[e.attention] = 0
    [] e.do = "status" -> e.to # "preparing"
    [] e.do = "opened" -> status \notin {"ready", "archived"}
    [] e.do = "evidence" -> pack = run /\ run # NoRun /\ status # "archived"
    [] e.do = "ready" -> pack = run /\ \A a \in Attention : ~Unresolved(a)
    [] e.do = "archived" -> \A c \in Check : evidence[c] = "passed"
    [] OTHER -> TRUE

\* The frame a failed commit may have left in the journal.
TailInv ==
  /\ tail # {} => poisoned
  /\ tail \subseteq Effect
  /\ \A e \in tail : e.do \in Durable /\ Sound(e)

(***************************************************************************)
(* What the server holds in memory, at every moment.                       *)
(***************************************************************************)
MemoryTypeOK ==
  /\ poisoned \in BOOLEAN /\ checks \in BOOLEAN
  /\ faults \in 0..MaxFaults
  /\ managed \subseteq Run /\ recovered \subseteq managed /\ announced \subseteq managed
  /\ channel \subseteq Attention
  /\ inflight \in [Attention -> 0..MaxAttempt]
  /\ proving \subseteq Run
  /\ lease \in Run \cup {NoRun, Other}
  /\ sent \in [Attention -> Nat]

\* A provider or a worker is of the current run and fits its status.
WorkInv ==
  /\ managed \subseteq {run} /\ proving \subseteq {run}
  /\ managed \cap proving = {}
  /\ managed # {} => status \notin {"ready", "archived"}
  /\ proving # {} => status \in {"review", "ready"}

(***************************************************************************)
(* Where a handler can be.                                                 *)
(***************************************************************************)
Balanced == \A r \in Run : lease = r <=> r \in managed \cup proving
Vacant == managed = {} /\ proving = {}

\* The journal takes no more events.
Closing == poisoned \/ sequence = MaxSequence
Stopped == status \notin {"preparing", "active"} \/ Closing
Tended == run \in managed \/ Stopped
Greeted == announced # {} => status # "preparing" \/ Closing

\* As between two handlers.
Calm == Balanced /\ Tended /\ Greeted

Lost == {Unknown(a, n) : a \in Attention, n \in Attempt}

Entering == Calm /\ (todo = <<>> \/ todo = <<{Created}>> \/ todo = <<{Configured}>>)

Continuing ==
  \E r \in Run, v \in Provider :
    /\ Calm /\ Stopped /\ run \in Run
    /\ todo = <<{Drop(run)}, {Claim(r)}, {Continued(r, v)}, {Launch(r)}>>

Claiming ==
  \E r \in Run, v \in Provider :
    /\ managed = {} /\ Balanced /\ Stopped
    /\ \/ todo = <<{Claim(r)}, {Started(r, v)}, {Launch(r)}>>
       \/ todo = <<{Claim(r)}, {Continued(r, v)}, {Launch(r)}>>

Claimed ==
  \E r \in Run, v \in Provider :
    /\ Vacant /\ lease = r /\ Stopped
    /\ \/ todo = <<{Started(r, v)}, {Launch(r)}>>
       \/ todo = <<{Continued(r, v)}, {Launch(r)}>>

Launching ==
  \E r \in Run :
    /\ Vacant /\ lease = r
    /\ \/ todo = <<{Launch(r)}>> /\ run = r /\ status = "preparing"
       \/ todo = <<{Transition(r, "failed")}, {Free(r)}>>
       \/ todo = <<{Free(r)}>> /\ Stopped

Answering ==
  \E a \in Attention, n \in Attempt :
    /\ Calm /\ Asker[a] \in managed
    /\ \/ todo = <<{Requested(a, n)}, {Send(a, n)}>>
       \/ /\ todo = <<{Send(a, n)}>>
          /\ sent[a] = 0 /\ attention[a] = "pending" /\ ~poisoned
       \/ /\ \/ todo = <<{NotApplied(a, n)}>>
             \/ todo = <<{NotApplied(a, n)}, {Transition(Asker[a], "failed")},
                         {Drop(Asker[a])}>>
          /\ sent[a] = 0

Asking ==
  \E a \in Attention :
    /\ Calm
    /\ \/ todo = <<{Opened(a)}, {Offer(a)}>> /\ managed # {}
       \/ todo = <<{Offer(a)}>>
       \/ \E n \in Attempt : todo = <<{Acknowledged(a, n)}, {Settle(a)}>>
       \/ todo = <<{Settle(a)}>>

Greeting ==
  \E r \in managed, s \in Session : Balanced /\ todo = <<{Bound(r, s)}>>

Reviewing ==
  \E r \in managed :
    /\ Balanced
    /\ \/ /\ status # "preparing" \/ Closing
          /\ \/ todo = <<{Transition(r, "review")}, {Prove(r)}>>
             \/ todo = <<{Transition(r, "review")}, {Drop(r)}>>
       \/ status = "review" /\ todo = <<{Prove(r)}>>

Ending ==
  \E r \in managed, to \in {"blocked", "failed"}, U \in SUBSET Lost :
    /\ Balanced
    /\ \/ todo = <<{Transition(r, to)}, {Drop(r)}>>
       \/ todo = <<{Transition(r, to)}, U, {Drop(r)}>> /\ U # {}
       \/ todo = <<U, {Drop(r)}>> /\ U # {} /\ Stopped
       \/ todo = <<{Drop(r)}>> /\ Stopped

\* The result of a check that the worker ran for r.
Results(r) == {Checked(r, c, x) : c \in Check, x \in {"passed", "failed"}}

\* If the worker says that all passed, every check has passed or is in C to be
\* recorded as passed.
Honest(r, C, ok) ==
  ok => /\ \A e \in C : e.result = "passed"
        /\ \A c \in Check : evidence[c] = "passed" \/ Checked(r, c, "passed") \in C

Proving ==
  \E r \in Run, u \in Subject, ok \in BOOLEAN : \E C \in SUBSET Results(r) :
    /\ Vacant /\ lease = r /\ run = r /\ status \in {"review", "ready"}
    /\ \/ todo = <<{Packed(r)}, C, {Conclude(r, u, ok)}, {Free(r)}>> /\ C # {} /\ Honest(r, C, ok)
       \/ todo = <<{Packed(r)}, {Conclude(r, u, ok)}, {Free(r)}>> /\ Honest(r, {}, ok)
       \/ /\ todo = <<C, {Conclude(r, u, ok)}, {Free(r)}>> /\ C # {} /\ Honest(r, C, ok)
          /\ pack = run
       \/ /\ todo = <<{Conclude(r, u, ok)}, {Free(r)}>> /\ Honest(r, {}, ok)
          /\ pack = run

Concluding ==
  \E r \in Run, u \in Subject :
    /\ Vacant /\ lease = r /\ run = r /\ status \in {"review", "ready"}
    /\ \/ todo = <<{Proven(r, u)}, {Free(r)}>> /\ Sound(Proven(r, u))
       \/ todo = <<{Closed(r, u)}, {Free(r)}>> /\ Sound(Closed(r, u))
       \/ todo = <<{Transition(r, "blocked")}, {Free(r)}>>

Leaving ==
  \/ todo = <<{Exit}>>
  \/ \E U \in SUBSET Lost : U # {} /\ todo = <<U, {Exit}>>

Recovering ==
  /\ Vacant /\ lease \notin Run
  /\ \/ todo = <<{Recover}>>
     \/ run # NoRun /\ todo = <<{Transition(run, "blocked")}>>

Down == todo = <<>> /\ Vacant /\ lease \notin Run

HandlerInv ==
  \/ up = FALSE /\ Down
  \/ /\ up = TRUE
     /\ \/ Entering \/ Continuing \/ Claiming \/ Claimed \/ Launching
        \/ Answering \/ Asking \/ Greeting \/ Reviewing \/ Ending
        \/ Proving \/ Concluding \/ Leaving \/ Recovering

ManagedInv == JournalInv /\ TailInv /\ MemoryTypeOK /\ WorkInv /\ HandlerInv

(***************************************************************************)
(* Where the current effect of a handler leads when it succeeds.           *)
(***************************************************************************)
\* The last effect of a handler.
LEMMA RestOne ==
  ASSUME NEW x, todo = <<{x}>>, NEW e \in Head(todo)
  PROVE  e = x /\ Rest(e) = <<>>
BY DEF Rest, Then

\* The current effect of a handler with one, two or three sets after it.
LEMMA RestTwo ==
  ASSUME NEW x, NEW B, todo = <<{x}, B>>, NEW e \in Head(todo)
  PROVE  e = x /\ Rest(e) = <<B>>
BY DEF Rest, Then

LEMMA RestThree ==
  ASSUME NEW x, NEW B, NEW C, todo = <<{x}, B, C>>, NEW e \in Head(todo)
  PROVE  e = x /\ Rest(e) = <<B, C>>
BY DEF Rest, Then

LEMMA RestFour ==
  ASSUME NEW x, NEW B, NEW C, NEW D, todo = <<{x}, B, C, D>>, NEW e \in Head(todo)
  PROVE  e = x /\ Rest(e) = <<B, C, D>>
BY DEF Rest, Then

\* A set of effects before one, two or three others.
LEMMA JoinTwo ==
  ASSUME NEW A, NEW B PROVE <<A>> \o <<B>> = <<A, B>>
<1> DEFINE s == <<A>> \o <<B>>
           t == <<A, B>>
<1>1. <<A>> \in Seq({A, B}) /\ <<B>> \in Seq({A, B}) /\ t \in Seq({A, B})
  OBVIOUS
<1>2. /\ s \in Seq({A, B}) /\ Len(s) = 2 /\ Len(t) = 2
      /\ \A i \in 1..2 : s[i] = t[i]
  BY <1>1
<1> HIDE DEF s, t
<1>3. s = t
  BY <1>1, <1>2, SeqEqual
<1>4. QED  BY <1>3 DEF s, t

LEMMA JoinThree ==
  ASSUME NEW A, NEW B, NEW C PROVE <<A>> \o <<B, C>> = <<A, B, C>>
<1> DEFINE s == <<A>> \o <<B, C>>
           t == <<A, B, C>>
<1>1. <<A>> \in Seq({A, B, C}) /\ <<B, C>> \in Seq({A, B, C}) /\ t \in Seq({A, B, C})
  OBVIOUS
<1>2. /\ s \in Seq({A, B, C}) /\ Len(s) = 3 /\ Len(t) = 3
      /\ \A i \in 1..3 : s[i] = t[i]
  BY <1>1
<1> HIDE DEF s, t
<1>3. s = t
  BY <1>1, <1>2, SeqEqual
<1>4. QED  BY <1>3 DEF s, t

LEMMA JoinFour ==
  ASSUME NEW A, NEW B, NEW C, NEW D PROVE <<A>> \o <<B, C, D>> = <<A, B, C, D>>
<1> DEFINE s == <<A>> \o <<B, C, D>>
           t == <<A, B, C, D>>
<1>1. <<A>> \in Seq({A, B, C, D}) /\ <<B, C, D>> \in Seq({A, B, C, D}) /\ t \in Seq({A, B, C, D})
  OBVIOUS
<1>2. /\ s \in Seq({A, B, C, D}) /\ Len(s) = 4 /\ Len(t) = 4
      /\ \A i \in 1..4 : s[i] = t[i]
  BY <1>1
<1> HIDE DEF s, t
<1>3. s = t
  BY <1>1, <1>2, SeqEqual
<1>4. QED  BY <1>3 DEF s, t

\* One turn of a loop over U, with one more effect after it.
LEMMA RestOfLoop ==
  ASSUME NEW U, NEW B, todo = <<U, B>>, NEW e \in Head(todo)
  PROVE  /\ e \in U
         /\ \/ U \ {e} = {} /\ Rest(e) = <<B>>
            \/ U \ {e} # {} /\ Rest(e) = <<U \ {e}, B>>
<1>1. Head(todo) = U /\ Tail(todo) = <<B>>
  OBVIOUS
<1>2. CASE U \ {e} = {}
  BY <1>1, <1>2 DEF Rest, Then
<1>3. CASE U \ {e} # {}
  <2>1. <<U \ {e}>> \o <<B>> = <<U \ {e}, B>>
    BY JoinTwo
  <2>2. QED  BY <1>1, <1>3, <2>1 DEF Rest, Then
<1>4. QED  BY <1>2, <1>3

\* The same with two more effects after the loop.
LEMMA RestOfLongLoop ==
  ASSUME NEW U, NEW B, NEW C, todo = <<U, B, C>>, NEW e \in Head(todo)
  PROVE  /\ e \in U
         /\ \/ U \ {e} = {} /\ Rest(e) = <<B, C>>
            \/ U \ {e} # {} /\ Rest(e) = <<U \ {e}, B, C>>
<1>1. Head(todo) = U /\ Tail(todo) = <<B, C>>
  OBVIOUS
<1>2. CASE U \ {e} = {}
  BY <1>1, <1>2 DEF Rest, Then
<1>3. CASE U \ {e} # {}
  <2>1. <<U \ {e}>> \o <<B, C>> = <<U \ {e}, B, C>>
    BY JoinThree
  <2>2. QED  BY <1>1, <1>3, <2>1 DEF Rest, Then
<1>4. QED  BY <1>2, <1>3

(***************************************************************************)
(* Types.                                                                  *)
(***************************************************************************)
\* A set of effects that todo may have as an element.
Turn == SUBSET Effect

\* Up to four sets of effects make a sequence of them.
LEMMA SeqTypes ==
  /\ <<>> \in Seq(Turn)
  /\ \A A \in Turn : <<A>> \in Seq(Turn)
  /\ \A A, B \in Turn : <<A, B>> \in Seq(Turn)
  /\ \A A, B, C \in Turn : <<A, B, C>> \in Seq(Turn)
  /\ \A A, B, C, D \in Turn : <<A, B, C, D>> \in Seq(Turn)
OBVIOUS

\* Every effect a handler names has the type of an effect.
LEMMA EffectTypes ==
  /\ {Created} \in Turn /\ {Configured} \in Turn
  /\ {Recover} \in Turn /\ {Exit} \in Turn
  /\ \A r \in Run :
       /\ {Claim(r)} \in Turn /\ {Launch(r)} \in Turn
       /\ {Prove(r)} \in Turn /\ {Drop(r)} \in Turn
       /\ {Free(r)} \in Turn /\ {Packed(r)} \in Turn
  /\ \A r \in Run, v \in Provider :
       {Started(r, v)} \in Turn /\ {Continued(r, v)} \in Turn
  /\ \A r \in Run, s \in Session : {Bound(r, s)} \in Turn
  /\ \A r \in Run, to \in Status : {Transition(r, to)} \in Turn
  /\ \A a \in Attention :
       /\ {Opened(a)} \in Turn /\ {Offer(a)} \in Turn
       /\ {Settle(a)} \in Turn
  /\ \A a \in Attention, n \in Attempt :
       /\ {Requested(a, n)} \in Turn /\ {Send(a, n)} \in Turn
       /\ {Acknowledged(a, n)} \in Turn
       /\ {NotApplied(a, n)} \in Turn
  /\ \A r \in Run, u \in Subject :
       {Proven(r, u)} \in Turn /\ {Closed(r, u)} \in Turn
  /\ \A r \in Run, u \in Subject, ok \in BOOLEAN :
       {Conclude(r, u, ok)} \in Turn
  /\ \A U \in SUBSET Lost : U \in Turn
  /\ \A r \in Run : \A C \in SUBSET Results(r) : C \in Turn
<1> USE DEF Effect, Turn
<1>1. /\ {Created} \in Turn /\ {Configured} \in Turn
      /\ {Recover} \in Turn /\ {Exit} \in Turn
  BY DEF Created, Configured, Recover, Exit
<1>2. ASSUME NEW r \in Run
      PROVE  /\ {Claim(r)} \in Turn /\ {Launch(r)} \in Turn
             /\ {Prove(r)} \in Turn /\ {Drop(r)} \in Turn
             /\ {Free(r)} \in Turn /\ {Packed(r)} \in Turn
  BY DEF Claim, Launch, Prove, Drop, Free, Packed
<1>3. ASSUME NEW r \in Run, NEW v \in Provider
      PROVE  {Started(r, v)} \in Turn /\ {Continued(r, v)} \in Turn
  BY DEF Started, Continued
<1>4. ASSUME NEW r \in Run, NEW s \in Session PROVE {Bound(r, s)} \in Turn
  BY DEF Bound
<1>5. ASSUME NEW r \in Run, NEW to \in Status PROVE {Transition(r, to)} \in Turn
  BY DEF Transition
<1>6. ASSUME NEW a \in Attention
      PROVE  /\ {Opened(a)} \in Turn /\ {Offer(a)} \in Turn
             /\ {Settle(a)} \in Turn
  BY DEF Opened, Offer, Settle
<1>7. ASSUME NEW a \in Attention, NEW n \in Attempt
      PROVE  /\ {Requested(a, n)} \in Turn /\ {Send(a, n)} \in Turn
             /\ {Acknowledged(a, n)} \in Turn
             /\ {NotApplied(a, n)} \in Turn
  BY DEF Requested, Send, Acknowledged, NotApplied
<1>8. ASSUME NEW r \in Run, NEW u \in Subject
      PROVE  {Proven(r, u)} \in Turn /\ {Closed(r, u)} \in Turn
  BY DEF Proven, Closed
<1>9. ASSUME NEW r \in Run, NEW u \in Subject, NEW ok \in BOOLEAN
      PROVE  {Conclude(r, u, ok)} \in Turn
  BY DEF Conclude
<1>10. \A U \in SUBSET Lost : U \in Turn
  BY DEF Lost, Unknown
<1>11. ASSUME NEW r \in Run PROVE \A C \in SUBSET Results(r) : C \in Turn
  BY DEF Results, Checked
<1> HIDE DEF Effect, Turn
<1>12. QED
  BY <1>1, <1>2, <1>3, <1>4, <1>5, <1>6, <1>7, <1>8, <1>9, <1>10, <1>11

\* At every place of every handler, what is left to do is well typed.
LEMMA HandlerTyped ==
  ASSUME TypeOK, MemoryTypeOK, HandlerInv
  PROVE  todo \in Seq(Turn)
<1>0. run = NoRun \/ run \in Run
  BY DEF TypeOK
<1>1. {"blocked", "failed", "review"} \subseteq Status
  BY DEF Status
<1>2. \A a \in Attention : Asker[a] \in Run
  BY AskerAssumption
<1>3. managed \subseteq Run
  BY DEF MemoryTypeOK
<1>4. CASE Down \/ Entering
  BY <1>4, EffectTypes, SeqTypes DEF Down, Entering
<1>5. CASE Continuing \/ Claiming \/ Claimed
  <2>1. PICK r \in Run, v \in Provider :
          \/ run \in Run /\ todo = <<{Drop(run)}, {Claim(r)}, {Continued(r, v)}, {Launch(r)}>>
          \/ todo = <<{Claim(r)}, {Started(r, v)}, {Launch(r)}>>
          \/ todo = <<{Claim(r)}, {Continued(r, v)}, {Launch(r)}>>
          \/ todo = <<{Started(r, v)}, {Launch(r)}>>
          \/ todo = <<{Continued(r, v)}, {Launch(r)}>>
    BY <1>5 DEF Continuing, Claiming, Claimed
  <2>2. /\ {Claim(r)} \in Turn /\ {Launch(r)} \in Turn
        /\ {Started(r, v)} \in Turn /\ {Continued(r, v)} \in Turn
        /\ run \in Run => {Drop(run)} \in Turn
    BY EffectTypes
  <2>3. CASE run \in Run /\ todo = <<{Drop(run)}, {Claim(r)}, {Continued(r, v)}, {Launch(r)}>>
    BY <2>2, <2>3
  <2>4. QED  BY <2>1, <2>2, <2>3, SeqTypes
<1>6. CASE Launching
  <2>1. PICK r \in Run :
          \/ todo = <<{Launch(r)}>>
          \/ todo = <<{Transition(r, "failed")}, {Free(r)}>>
          \/ todo = <<{Free(r)}>>
    BY <1>6 DEF Launching
  <2>2. {Launch(r)} \in Turn /\ {Transition(r, "failed")} \in Turn /\ {Free(r)} \in Turn
    BY <1>1, EffectTypes
  <2>3. QED  BY <2>1, <2>2, SeqTypes
<1>7. CASE Answering
  <2>1. PICK a \in Attention, n \in Attempt :
          \/ todo = <<{Requested(a, n)}, {Send(a, n)}>>
          \/ todo = <<{Send(a, n)}>>
          \/ todo = <<{NotApplied(a, n)}>>
          \/ todo = <<{NotApplied(a, n)}, {Transition(Asker[a], "failed")}, {Drop(Asker[a])}>>
    BY <1>7 DEF Answering
  <2>2. /\ {Requested(a, n)} \in Turn /\ {Send(a, n)} \in Turn /\ {NotApplied(a, n)} \in Turn
        /\ {Transition(Asker[a], "failed")} \in Turn /\ {Drop(Asker[a])} \in Turn
    BY <1>1, <1>2, EffectTypes
  <2>3. QED  BY <2>1, <2>2, SeqTypes
<1>8. CASE Asking
  <2>1. PICK a \in Attention :
          \/ todo = <<{Opened(a)}, {Offer(a)}>> \/ todo = <<{Offer(a)}>>
          \/ \E n \in Attempt : todo = <<{Acknowledged(a, n)}, {Settle(a)}>>
          \/ todo = <<{Settle(a)}>>
    BY <1>8 DEF Asking
  <2>2. /\ {Opened(a)} \in Turn /\ {Offer(a)} \in Turn /\ {Settle(a)} \in Turn
        /\ \A n \in Attempt : {Acknowledged(a, n)} \in Turn
    BY EffectTypes
  <2>3. QED  BY <2>1, <2>2, SeqTypes
<1>9. CASE Greeting
  <2>1. PICK r \in Run, s \in Session : todo = <<{Bound(r, s)}>>
    BY <1>3, <1>9 DEF Greeting
  <2>2. QED  BY <2>1, EffectTypes, SeqTypes
<1>10. CASE Reviewing
  <2>1. PICK r \in Run :
          \/ todo = <<{Transition(r, "review")}, {Prove(r)}>>
          \/ todo = <<{Transition(r, "review")}, {Drop(r)}>>
          \/ todo = <<{Prove(r)}>>
    BY <1>3, <1>10 DEF Reviewing
  <2>2. {Transition(r, "review")} \in Turn /\ {Prove(r)} \in Turn /\ {Drop(r)} \in Turn
    BY <1>1, EffectTypes
  <2>3. QED  BY <2>1, <2>2, SeqTypes
<1>11. CASE Ending
  <2>1. PICK r \in Run, to \in {"blocked", "failed"}, U \in SUBSET Lost :
          \/ todo = <<{Transition(r, to)}, {Drop(r)}>>
          \/ todo = <<{Transition(r, to)}, U, {Drop(r)}>>
          \/ todo = <<U, {Drop(r)}>>
          \/ todo = <<{Drop(r)}>>
    BY <1>3, <1>11 DEF Ending
  <2>2. {Transition(r, to)} \in Turn /\ {Drop(r)} \in Turn /\ U \in Turn
    BY <1>1, EffectTypes
  <2>3. QED  BY <2>1, <2>2, SeqTypes
<1>12. CASE Proving
  <2>1. PICK r \in Run, u \in Subject, ok \in BOOLEAN : \E C \in SUBSET Results(r) :
          \/ todo = <<{Packed(r)}, C, {Conclude(r, u, ok)}, {Free(r)}>>
          \/ todo = <<{Packed(r)}, {Conclude(r, u, ok)}, {Free(r)}>>
          \/ todo = <<C, {Conclude(r, u, ok)}, {Free(r)}>>
          \/ todo = <<{Conclude(r, u, ok)}, {Free(r)}>>
    BY <1>12 DEF Proving
  <2>2. /\ {Packed(r)} \in Turn /\ {Conclude(r, u, ok)} \in Turn /\ {Free(r)} \in Turn
        /\ \A C \in SUBSET Results(r) : C \in Turn
    BY EffectTypes
  <2>3. QED  BY <2>1, <2>2, SeqTypes
<1>13. CASE Concluding
  <2>1. PICK r \in Run, u \in Subject :
          \/ todo = <<{Proven(r, u)}, {Free(r)}>>
          \/ todo = <<{Closed(r, u)}, {Free(r)}>>
          \/ todo = <<{Transition(r, "blocked")}, {Free(r)}>>
    BY <1>13 DEF Concluding
  <2>2. /\ {Proven(r, u)} \in Turn /\ {Closed(r, u)} \in Turn
        /\ {Transition(r, "blocked")} \in Turn /\ {Free(r)} \in Turn
    BY <1>1, EffectTypes
  <2>3. QED  BY <2>1, <2>2, SeqTypes
<1>14. CASE Leaving
  BY <1>14, EffectTypes, SeqTypes DEF Leaving
<1>15. CASE Recovering
  <2>1. {Recover} \in Turn /\ (run \in Run => {Transition(run, "blocked")} \in Turn)
    BY <1>1, EffectTypes
  <2>2. QED  BY <1>0, <1>15, <2>1, SeqTypes DEF Recovering
<1>16. QED
  BY <1>4, <1>5, <1>6, <1>7, <1>8, <1>9, <1>10, <1>11, <1>12, <1>13, <1>14, <1>15
  DEF HandlerInv

(***************************************************************************)
(* Commits.                                                                *)
(***************************************************************************)
\* What the event of an effect is about.
LEMMA EffectFields ==
  ASSUME NEW e \in Effect
  PROVE  /\ e.do \in {"started", "continued"} => e.run \in Run /\ e.provider \in Provider
         /\ e.do = "bound" => e.run \in Run /\ e.session \in Session
         /\ e.do = "status" => e.run \in Run /\ e.to \in Status
         /\ e.do = "opened" => e.attention \in Attention
         /\ e.do \in {"requested", "acknowledged", "notApplied", "unknown"} =>
              e.attention \in Attention /\ e.attempt \in Attempt
         /\ e.do = "evidence" => e.check \in Check /\ e.result \in {"passed", "failed"}
         /\ e.do \in {"ready", "archived"} => e.subject \in Subject
BY DEF Effect

\* The clock of this module is a time of the projection.
LEMMA NowIsTime == Now \in Time
BY BoundAssumption DEF Now, Time

\* The event of an effect is one of the projection's events.
LEMMA ApplyIsEvent ==
  ASSUME NEW e \in Effect, Apply(e)
  PROVE  MissionEvent(Now) \/ AnswerEvent(Now) \/ ProofEvent(Now)
<1>1. CASE e.do \in {"created", "configured"}
  BY <1>1 DEF Apply, MissionEvent
<1>2. CASE e.do \in {"started", "continued"}
  BY <1>2, EffectFields DEF Apply, MissionEvent
<1>3. CASE e.do \in {"bound", "status"}
  BY <1>3, EffectFields DEF Apply, MissionEvent
<1>4. CASE e.do = "opened"
  BY <1>4, EffectFields DEF Apply, AnswerEvent
<1>5. CASE e.do \in {"requested", "acknowledged", "notApplied", "unknown"}
  BY <1>5, EffectFields DEF Apply, AnswerEvent
<1>6. CASE e.do \in {"pack", "ready", "archived"}
  BY <1>6, EffectFields, NowIsTime DEF Apply, ProofEvent
<1>7. CASE e.do = "evidence"
  BY <1>7, EffectFields DEF Apply, ProofEvent, EvidenceStatus
<1>8. QED
  BY <1>1, <1>2, <1>3, <1>4, <1>5, <1>6, <1>7 DEF Apply

\* The projection's own invariant under the event of an effect.
LEMMA ApplyKeepsProjection ==
  ASSUME IInv, NEW e \in Effect, Apply(e)
  PROVE  IInv'
BY ApplyIsEvent, NowIsTime, MissionEventHolds, AnswerEventHolds, ProofEventHolds

\* What an event changes, and when it is accepted, as far as it concerns runs.
LEMMA ApplyFrame ==
  ASSUME NEW e, Apply(e)
  PROVE  /\ sequence < MaxSequence /\ sequence' = sequence + 1
         /\ e.do \notin {"started", "continued"} => UNCHANGED run
         /\ e.do \notin {"created", "started", "continued", "bound", "status", "ready", "archived"} =>
              UNCHANGED status
         /\ e.do = "created" => status = "absent" /\ status' = "draft"
         /\ e.do = "started" => run = NoRun /\ run' = e.run /\ status' = "preparing"
         /\ e.do = "continued" => run' = e.run /\ status' = "preparing"
         /\ e.do = "bound" => status = "preparing" /\ status' = "active" /\ run # NoRun
         /\ e.do = "status" =>
              /\ CanPersistFrom(e.to, status) /\ status' = e.to
              /\ e.to \notin {"ready", "archived"}
         /\ e.do = "ready" => status = "review" /\ status' = "ready"
         /\ e.do = "archived" => status = "ready" /\ status' = "archived"
         /\ e.do \notin {"opened", "requested", "acknowledged", "notApplied", "unknown"} =>
              UNCHANGED <<attention, response>>
         /\ e.do \notin {"continued", "evidence"} => UNCHANGED evidence
         /\ e.do \notin {"continued", "pack"} => UNCHANGED pack
         /\ e.do = "pack" => pack' = run
<1> USE DEF Commit, work, answers, proof
<1>1. CASE e.do \in {"created", "configured"}
  BY <1>1 DEF Apply, MissionCreated, ClosureConfigured
<1>2. CASE e.do \in {"started", "continued"}
  BY <1>2 DEF Apply, RunStarted, RunContinued
<1>3. CASE e.do \in {"bound", "status"}
  BY <1>3 DEF Apply, ProviderSessionBound, StatusChanged
<1>4. CASE e.do \in {"opened", "requested"}
  BY <1>4 DEF Apply, AttentionOpened, ResponseRequested
<1>5. CASE e.do \in {"acknowledged", "notApplied", "unknown"}
  BY <1>5 DEF Apply, ResponseAcknowledged, ResponseNotApplied, ResponseUnknown
<1>6. CASE e.do \in {"evidence", "pack"}
  BY <1>6 DEF Apply, EvidenceChanged, EvidencePackRecorded
<1>7. CASE e.do \in {"ready", "archived"}
  BY <1>7 DEF Apply, MissionReady, MissionArchived
<1>8. QED
  BY <1>1, <1>2, <1>3, <1>4, <1>5, <1>6, <1>7 DEF Apply

\* An accepted event leaves what was sent on record if its effect is sound.
LEMMA ApplyKeepsSent ==
  ASSUME JournalInv, MemoryTypeOK, NEW e \in Effect, Apply(e), Sound(e), UNCHANGED sent
  PROVE  SentIsRecorded'
<1>0. /\ SentIsRecorded /\ attention \in [Attention -> AttentionState]
      /\ sent \in [Attention -> Nat]
  BY DEF JournalInv, IInv, TypeOK, MemoryTypeOK
<1>1. CASE e.do \notin {"opened", "requested", "acknowledged", "notApplied", "unknown"}
  BY <1>0, <1>1, ApplyFrame DEF SentIsRecorded
<1>2. CASE e.do = "opened"
  <2>1. /\ e.attention \in Attention /\ attention[e.attention] = "none"
        /\ attention' = [attention EXCEPT ![e.attention] = "open"]
    BY <1>2, EffectFields DEF Apply, AttentionOpened
  <2>2. QED  BY <1>0, <2>1 DEF SentIsRecorded
<1>3. CASE e.do = "notApplied"
  <2>1. /\ e.attention \in Attention /\ sent[e.attention] = 0
        /\ attention' = [attention EXCEPT ![e.attention] = "open"]
    BY <1>3, EffectFields DEF Apply, ResponseNotApplied, Sound
  <2>2. QED  BY <1>0, <2>1 DEF SentIsRecorded
<1>4. CASE e.do \in {"requested", "acknowledged", "unknown"}
  <2>1. /\ e.attention \in Attention
        /\ \E x \in {"pending", "resolved", "reconcile"} :
             attention' = [attention EXCEPT ![e.attention] = x]
    BY <1>4, EffectFields DEF Apply, ResponseRequested, ResponseAcknowledged, ResponseUnknown
  <2>2. QED  BY <1>0, <2>1 DEF SentIsRecorded
<1>5. QED  BY <1>1, <1>2, <1>3, <1>4

\* Requests that are settled stay settled if no new one is opened.
LEMMA ApplyKeepsSettled ==
  ASSUME IInv, NEW e \in Effect, Apply(e), e.do # "opened",
         \A a \in Attention : ~Unresolved(a)
  PROVE  \A a \in Attention : ~Unresolved(a)'
<1>0. /\ attention \in [Attention -> AttentionState] /\ AnsweredAtMostOnce
  BY DEF IInv, TypeOK
<1>1. CASE e.do \notin {"requested", "acknowledged", "notApplied", "unknown"}
  BY <1>1, ApplyFrame DEF Unresolved
<1>2. CASE e.do = "acknowledged"
  BY <1>0, <1>2, EffectFields DEF Apply, ResponseAcknowledged, Unresolved
<1>3. CASE e.do \in {"requested", "notApplied", "unknown"}
  BY <1>0, <1>3, EffectFields
  DEF Apply, ResponseRequested, ResponseNotApplied, ResponseUnknown, Unresolved,
      AnsweredAtMostOnce
<1>4. QED  BY <1>1, <1>2, <1>3

\* An accepted event leaves a mission closed on evidence if its effect is sound.
LEMMA ApplyKeepsEvidence ==
  ASSUME JournalInv, NEW e \in Effect, Apply(e), Sound(e)
  PROVE  ClosedOnEvidence' /\ EvidenceHasRun' /\ RunlessIsNew'
<1> DEFINE Settled == \A a \in Attention : ~Unresolved(a)
<1>0. /\ IInv /\ ClosedOnEvidence /\ EvidenceHasRun /\ RunlessIsNew
      /\ evidence \in [Check -> EvidenceStatus] /\ run \in Run \cup {NoRun}
      /\ PackOfCurrentRun
  BY DEF JournalInv, IInv, TypeOK
<1>1. Settled /\ e.do # "opened" => Settled'
  BY <1>0, ApplyKeepsSettled
<1> HIDE DEF Settled
<1>2. RunlessIsNew'
  <2>1. e.do \in {"started", "continued"} => run' # NoRun
    BY ApplyFrame, EffectFields, NoneAssumption
  <2>2. CASE e.do \in {"started", "continued"}
    BY <2>1, <2>2 DEF RunlessIsNew
  <2>3. CASE e.do \notin {"started", "continued"}
    <3>1. /\ UNCHANGED run
          /\ e.do = "status" => e.to # "preparing"
          /\ e.do = "status" => CanPersistFrom(e.to, status) /\ status' = e.to
          /\ run = NoRun => e.do \in {"created", "status"} \/ UNCHANGED status
          /\ e.do = "created" => status' = "draft"
      BY <1>0, <2>3, ApplyFrame DEF Sound, RunlessIsNew
    <3>2. QED  BY <1>0, <3>1 DEF RunlessIsNew, CanPersistFrom
  <2>4. QED  BY <2>2, <2>3
<1>3. CASE e.do = "started"
  <2>1. \A c \in Check : evidence[c] # "passed"
    BY <1>0, <1>3, ApplyFrame DEF EvidenceHasRun
  <2>2. status' = "preparing" /\ evidence' = evidence
    BY <1>3, ApplyFrame
  <2>3. QED  BY <1>2, <2>1, <2>2 DEF ClosedOnEvidence, EvidenceHasRun
<1>4. CASE e.do = "continued"
  <2>1. status' = "preparing"
    BY <1>4, ApplyFrame
  <2>2. \A c \in Check : evidence'[c] # "passed"
    BY <1>4 DEF Apply, RunContinued
  <2>3. QED  BY <1>2, <2>1, <2>2 DEF ClosedOnEvidence, EvidenceHasRun
<1>5. CASE e.do = "evidence"
  <2>1. /\ UNCHANGED <<status, run, pack>> /\ status # "archived" /\ pack = run /\ run # NoRun
    BY <1>5, ApplyFrame DEF Sound
  <2>2. QED  BY <1>0, <1>1, <1>2, <1>5, <2>1 DEF ClosedOnEvidence, EvidenceHasRun, Settled
<1>6. CASE e.do = "ready"
  <2>1. /\ status' = "ready" /\ UNCHANGED <<run, pack, evidence>> /\ pack = run /\ Settled
    BY <1>6, ApplyFrame DEF Sound, Settled
  <2>2. QED  BY <1>0, <1>1, <1>2, <1>6, <2>1 DEF ClosedOnEvidence, EvidenceHasRun, Settled
<1>7. CASE e.do = "archived"
  <2>1. /\ status' = "archived" /\ status = "ready" /\ UNCHANGED <<run, pack, evidence>>
        /\ \A c \in Check : evidence[c] = "passed"
    BY <1>7, ApplyFrame DEF Sound
  <2>2. QED  BY <1>0, <1>1, <1>2, <1>7, <2>1 DEF ClosedOnEvidence, EvidenceHasRun, Settled
<1>8. CASE e.do = "opened"
  <2>1. /\ UNCHANGED <<status, run, pack, evidence>> /\ status \notin {"ready", "archived"}
    BY <1>8, ApplyFrame DEF Sound
  <2>2. QED  BY <1>0, <1>2, <2>1 DEF ClosedOnEvidence, EvidenceHasRun
<1>9. CASE e.do = "pack"
  <2>1. UNCHANGED <<status, run, evidence>> /\ pack' = run
    BY <1>9, ApplyFrame
  <2>2. QED  BY <1>0, <1>1, <1>2, <1>9, <2>1 DEF ClosedOnEvidence, EvidenceHasRun, Settled
<1>10. CASE e.do \notin {"started", "continued", "evidence", "ready", "archived", "opened", "pack"}
  <2>1. /\ UNCHANGED <<run, pack, evidence>>
        /\ status' \in {"ready", "archived"} => status' = status
    BY <1>10, ApplyFrame
  <2>2. QED  BY <1>0, <1>1, <1>2, <1>10, <2>1 DEF ClosedOnEvidence, EvidenceHasRun, Settled
<1>11. QED  BY <1>3, <1>4, <1>5, <1>6, <1>7, <1>8, <1>9, <1>10

\* An accepted event of a sound effect keeps all that the journal says.
LEMMA ApplyKeepsJournal ==
  ASSUME JournalInv, MemoryTypeOK, NEW e \in Effect, Apply(e), Sound(e), UNCHANGED sent
  PROVE  JournalInv'
BY ApplyKeepsProjection, ApplyKeepsSent, ApplyKeepsEvidence DEF JournalInv

\* Whatever else happens, an unchanged journal says what it said.
LEMMA JournalStays ==
  ASSUME JournalInv, UNCHANGED projection, SentIsRecorded'
  PROVE  JournalInv'
<1>1. IInv'
  BY StepHolds DEF JournalInv
<1>2. ClosedOnEvidence' /\ EvidenceHasRun' /\ RunlessIsNew'
  BY DEF JournalInv, ClosedOnEvidence, EvidenceHasRun, RunlessIsNew, Unresolved,
         projection, mission, work, answers, proof
<1>3. QED  BY <1>1, <1>2 DEF JournalInv

(***************************************************************************)
(* A commit of a running handler.                                          *)
(***************************************************************************)
\* All that is true at every moment, wherever the handler is.
Base == JournalInv /\ TailInv /\ MemoryTypeOK /\ WorkInv

\* The work of the server does not contradict the event of e.
Fits(e) ==
  /\ e.do \in {"started", "continued", "ready", "archived"} => Vacant
  /\ e.do = "status" => proving = {}

\* The two ways a commit ends.
Succeeds(e) == Apply(e) /\ poisoned' = poisoned /\ ~poisoned /\ todo' = Rest(e)
Misses(e) ==
  /\ UNCHANGED projection /\ (poisoned => poisoned') /\ todo' = Otherwise(e)
  /\ Closing' \/ (e.do = "status" => ~CanPersistFrom(e.to, status))

\* What the handler does next is an effect.
LEMMA HeadTyped ==
  ASSUME ManagedInv, todo # <<>>, NEW e \in Head(todo)
  PROVE  e \in Effect
<1>1. todo \in Seq(Turn)
  BY HandlerTyped DEF ManagedInv, JournalInv, IInv
<1>2. Head(todo) \in Turn
  BY <1>1
<1>3. QED  BY <1>2 DEF Turn

\* Whether an effect is sound depends on the journal and on what was sent.
LEMMA SoundStays ==
  ASSUME UNCHANGED <<projection, sent>>, NEW e
  PROVE  Sound(e)' <=> Sound(e)
BY DEF Sound, Unresolved, projection, mission, work, answers, proof

\* The frame of a failed commit stays harmless while the journal stands still.
LEMMA TailStays ==
  ASSUME TailInv, UNCHANGED <<projection, sent, tail>>, poisoned => poisoned'
  PROVE  TailInv'
BY SoundStays DEF TailInv

\* The journal part of a commit that does not contradict what is known.
LEMMA CommitKeeps ==
  ASSUME Base, up = TRUE, NEW e \in Effect, CommitStep(e), Sound(e), Fits(e)
  PROVE  /\ Base' /\ up' = TRUE /\ UNCHANGED <<provided, proving, outside>>
         /\ Succeeds(e) \/ Misses(e)
<1>0. /\ JournalInv /\ TailInv /\ MemoryTypeOK /\ WorkInv
      /\ UNCHANGED <<provided, proving, outside>> /\ up' = TRUE
      /\ UNCHANGED sent /\ e.do \in Durable
  BY DEF Base, CommitStep, Committed, Refused, CommitFails, outside
<1>1. CASE Committed(e)
  <2>1. /\ Apply(e) /\ ~poisoned /\ UNCHANGED <<poisoned, tail, faults>> /\ Succeeds(e)
    BY <1>1 DEF Committed, Accepts, Succeeds
  <2>2. JournalInv'
    BY <1>0, <2>1, ApplyKeepsJournal
  <2>3. TailInv'
    BY <1>0, <2>1 DEF TailInv
  <2>4. MemoryTypeOK'
    BY <1>0, <2>1 DEF MemoryTypeOK, provided, outside
  <2>5. WorkInv'
    <3>1. CASE e.do \in {"started", "continued", "ready", "archived"}
      BY <1>0, <3>1 DEF WorkInv, Fits, Vacant, provided
    <3>2. CASE e.do = "status"
      BY <1>0, <2>1, <3>2, ApplyFrame DEF WorkInv, Fits, provided
    <3>3. CASE e.do \in {"created", "bound"}
      BY <1>0, <2>1, <3>3, ApplyFrame DEF WorkInv, provided
    <3>4. CASE e.do \notin {"started", "continued", "ready", "archived", "status", "created", "bound"}
      BY <1>0, <2>1, <3>4, ApplyFrame DEF WorkInv, provided
    <3>5. QED  BY <3>1, <3>2, <3>3, <3>4
  <2>6. QED  BY <1>0, <2>1, <2>2, <2>3, <2>4, <2>5 DEF Base
<1>2. CASE Refused(e) \/ CommitFails(e)
  <2>1. /\ UNCHANGED projection /\ todo' = Otherwise(e)
        /\ faults' \in 0..MaxFaults /\ poisoned' \in BOOLEAN /\ (poisoned => poisoned')
    <3>1. /\ UNCHANGED projection /\ todo' = Otherwise(e)
          /\ UNCHANGED poisoned \/ poisoned' = TRUE
          /\ faults' = faults \/ (faults < MaxFaults /\ faults' = faults + 1)
      BY <1>2 DEF Refused, CommitFails
    <3>2. faults \in 0..MaxFaults /\ poisoned \in BOOLEAN
      BY <1>0 DEF MemoryTypeOK
    <3>3. faults' \in 0..MaxFaults
      BY <3>1, <3>2, FaultsAssumption
    <3>4. poisoned' \in BOOLEAN /\ (poisoned => poisoned')
      BY <3>1, <3>2, Zenon
    <3>5. QED  BY <3>1, <3>3, <3>4
  <2>2. JournalInv'
    <3>1. SentIsRecorded'
      BY <1>0, <2>1 DEF JournalInv, SentIsRecorded, projection, mission, answers
    <3>2. QED  BY <1>0, <2>1, <3>1, JournalStays
  <2>3. TailInv'
    <3>1. CASE Refused(e)
      BY <1>0, <2>1, <3>1, TailStays DEF Refused
    <3>2. CASE CommitFails(e)
      BY <1>0, <2>1, <3>2, SoundStays DEF CommitFails, TailInv
    <3>3. QED  BY <1>2, <3>1, <3>2
  <2>4. MemoryTypeOK'
    BY <1>0, <2>1 DEF MemoryTypeOK, provided, outside
  <2>5. WorkInv'
    BY <1>0, <2>1 DEF WorkInv, provided, projection, mission, work
  <2>6. Closing' \/ (e.do = "status" => ~CanPersistFrom(e.to, status))
    <3>1. CASE Refused(e)
      <4>1. sequence \in 0..MaxSequence /\ sequence' = sequence /\ poisoned' = poisoned
        BY <1>0, <2>1, <3>1 DEF JournalInv, IInv, TypeOK, projection, Refused
      <4>2. CASE ~(~poisoned /\ sequence < MaxSequence)
        BY <4>1, <4>2, BoundAssumption DEF Closing
      <4>3. CASE ~poisoned /\ sequence < MaxSequence
        BY <3>1, <4>3 DEF Refused, Accepts
      <4>4. QED  BY <4>2, <4>3
    <3>2. CASE CommitFails(e)
      BY <3>2 DEF CommitFails, Closing
    <3>3. QED  BY <1>2, <3>1, <3>2
  <2>7. Misses(e)
    BY <2>1, <2>6 DEF Misses
  <2>8. QED  BY <1>0, <2>2, <2>3, <2>4, <2>5, <2>7 DEF Base
<1>3. QED  BY <1>1, <1>2 DEF CommitStep

\* Once the journal takes no more events it stays so until a restart.
LEMMA ClosingStays ==
  ASSUME Base, NEW e, Succeeds(e) \/ Misses(e)
  PROVE  /\ Closing => Closing'
         /\ Succeeds(e) => ~Closing
<1>1. Succeeds(e) => ~Closing
  BY ApplyFrame, BoundAssumption DEF Succeeds, Closing
<1>2. Misses(e) => (Closing => Closing')
  BY DEF Misses, Closing, projection
<1>3. QED  BY <1>1, <1>2

\* What the place between two handlers needs is kept by a commit that leaves
\* the run and its status alone, or that does not happen.
LEMMA CalmStays ==
  ASSUME Base, NEW e, Succeeds(e) \/ Misses(e), UNCHANGED <<provided, proving, outside>>,
         Misses(e) \/ UNCHANGED <<run, status>>
  PROVE  /\ Balanced => Balanced'
         /\ Stopped => Stopped'
         /\ Tended => Tended'
         /\ Greeted => Greeted'
         /\ Calm => Calm'
<1>1. UNCHANGED <<run, status>>
  BY DEF Misses, projection, mission, work
<1>2. Balanced => Balanced'
  BY DEF Balanced, provided, outside
<1>3. Stopped => Stopped'
  BY <1>1, ClosingStays DEF Stopped
<1>4. (Tended => Tended') /\ (Greeted => Greeted')
  BY <1>1, <1>3, ClosingStays DEF Tended, Greeted, provided
<1>5. QED  BY <1>2, <1>3, <1>4 DEF Calm

\* After an attempt to block or fail the mission nobody waits for its run.
LEMMA TransitionStops ==
  ASSUME Base, NEW r, NEW to \in {"blocked", "failed"},
         Succeeds(Transition(r, to)) \/ Misses(Transition(r, to))
  PROVE  Stopped'
<1>1. Transition(r, to).do = "status" /\ Transition(r, to).to = to
  BY DEF Transition
<1>2. CASE Succeeds(Transition(r, to))
  BY <1>1, <1>2, ApplyFrame DEF Succeeds, Stopped
<1>3. CASE Misses(Transition(r, to))
  BY <1>1, <1>3 DEF Misses, Stopped, CanPersistFrom, projection, mission
<1>4. QED  BY <1>2, <1>3

(***************************************************************************)
(* The handlers, one lemma for the places of each.                         *)
(***************************************************************************)
Do(e) ==
  \/ CommitStep(e)
  \/ ClaimStep(e) \/ LaunchStep(e) \/ ChannelStep(e) \/ SendStep(e)
  \/ DropStep(e) \/ FreeStep(e) \/ ProveStep(e) \/ ConcludeStep(e)
  \/ RecoverStep(e) \/ ExitStep(e)

\* The step of an effect is the one its name says.
LEMMA StepOf ==
  ASSUME NEW e, Do(e)
  PROVE  /\ e.do \in Durable => CommitStep(e)
         /\ e.do = "claim" => ClaimStep(e)
         /\ e.do = "launch" => LaunchStep(e)
         /\ e.do \in {"offer", "settle"} => ChannelStep(e)
         /\ e.do = "send" => SendStep(e)
         /\ e.do = "drop" => DropStep(e)
         /\ e.do = "free" => FreeStep(e)
         /\ e.do = "prove" => ProveStep(e)
         /\ e.do = "conclude" => ConcludeStep(e)
         /\ e.do = "recover" => RecoverStep(e)
         /\ e.do = "exit" => ExitStep(e)
BY DEF Do, Durable, CommitStep, ClaimStep, LaunchStep, ChannelStep, SendStep,
       DropStep, FreeStep, ProveStep, ConcludeStep, RecoverStep, ExitStep

\* A step of a handler is the step of one of its current effects.
LEMMA StepHasEffect ==
  ASSUME Step
  PROVE  up /\ todo # <<>> /\ \E e \in Head(todo) : Do(e)
BY DEF Step, Do

\* A commit at the place of a handler.
LEMMA CommitAt ==
  ASSUME ManagedInv, up = TRUE, todo # <<>>, NEW e \in Head(todo), Do(e),
         e.do \in Durable, Sound(e), Fits(e)
  PROVE  /\ Base' /\ up' = TRUE /\ UNCHANGED <<provided, proving, outside>>
         /\ Succeeds(e) \/ Misses(e)
BY StepOf, HeadTyped, CommitKeeps DEF ManagedInv, Base

\* Create and Configure: one commit.
LEMMA EnteringKeeps ==
  ASSUME ManagedInv, up = TRUE, Entering, NEW e \in Head(todo), todo # <<>>, Do(e)
  PROVE  Base' /\ HandlerInv'
<1>1. PICK x \in {Created, Configured} : todo = <<{x}>>
  BY DEF Entering
<1>2. e = x /\ Rest(e) = <<>>
  BY <1>1, RestOne
<1>3. e.do \in {"created", "configured"}
  BY <1>2 DEF Created, Configured
<1>4. Sound(e) /\ Fits(e) /\ e.do \in Durable /\ Otherwise(e) = <<>>
  BY <1>3 DEF Sound, Fits, Durable, Otherwise
<1>5. /\ Base' /\ up' = TRUE /\ UNCHANGED <<provided, proving, outside>>
      /\ Succeeds(e) \/ Misses(e)
  BY <1>4, CommitAt
<1>6. todo' = <<>>
  BY <1>2, <1>4, <1>5 DEF Succeeds, Misses
<1>7. Calm /\ Base
  BY DEF Entering, ManagedInv, Base
<1>8. ASSUME Misses(e) \/ e.do = "configured" PROVE Entering'
  <2>1. Misses(e) \/ UNCHANGED <<run, status>>
    BY <1>5, <1>8, ApplyFrame DEF Succeeds
  <2>2. Calm'
    BY <1>5, <1>7, <2>1, CalmStays
  <2>3. QED  BY <1>6, <2>2 DEF Entering
<1>9. ASSUME Succeeds(e), e.do = "created" PROVE Entering'
  <2>1. status' = "draft"
    BY <1>9, ApplyFrame DEF Succeeds
  <2>2. Calm'
    BY <1>5, <1>7, <2>1 DEF Calm, Balanced, Tended, Stopped, Greeted, provided, outside
  <2>3. QED  BY <1>6, <2>2 DEF Entering
<1>10. QED  BY <1>3, <1>5, <1>8, <1>9 DEF HandlerInv

\* A change of memory that leaves the journal alone.
LEMMA BaseStays ==
  ASSUME Base, UNCHANGED <<projection, poisoned, tail, sent>>, MemoryTypeOK', WorkInv'
  PROVE  Base'
<1>1. SentIsRecorded'
  BY DEF Base, JournalInv, SentIsRecorded, projection, mission, answers
<1>2. QED  BY <1>1, JournalStays, TailStays DEF Base

\* The provider of r ends and its claim is returned.
LEMMA DropFacts ==
  ASSUME Base, Balanced, NEW r \in Run, managed \subseteq {r}, DropStep(Drop(r))
  PROVE  /\ Base' /\ managed' = {} /\ announced' = {} /\ Balanced'
         /\ UNCHANGED <<projection, poisoned, up>> /\ todo' = Rest(Drop(r))
<1>1. /\ UNCHANGED <<projection, up, poisoned, tail, faults, proving, checks, sent>>
      /\ todo' = Rest(Drop(r))
      /\ IF r \in managed THEN Unmanage(r) /\ lease' = Released(r)
                          ELSE UNCHANGED <<provided, lease>>
  BY DEF DropStep, Drop
<1>2. MemoryTypeOK /\ WorkInv
  BY DEF Base
<1>3. managed' = {} /\ announced' = {} /\ recovered' = {}
  BY <1>1, <1>2 DEF Unmanage, provided, MemoryTypeOK
<1>4. CASE r \in managed
  <2>1. lease = r /\ proving = {} /\ lease' = NoRun
    BY <1>1, <1>2, <1>4 DEF Balanced, WorkInv, Released
  <2>2. Balanced'
    BY <1>1, <1>3, <2>1, NoneAssumption DEF Balanced
  <2>3. channel' \subseteq Attention /\ inflight' \in [Attention -> 0..MaxAttempt]
    BY <1>1, <1>2, <1>4, BoundAssumption DEF Unmanage, MemoryTypeOK
  <2>4. MemoryTypeOK'
    BY <1>1, <1>2, <1>3, <2>1, <2>3 DEF MemoryTypeOK
  <2>5. WorkInv'
    BY <1>1, <1>2, <1>3, <2>1 DEF WorkInv, projection, mission, work
  <2>6. QED  BY <1>1, <1>3, <2>2, <2>4, <2>5, BaseStays
<1>5. CASE r \notin managed
  <2>1. UNCHANGED <<provided, lease>>
    BY <1>1, <1>5
  <2>2. Balanced' /\ MemoryTypeOK' /\ WorkInv'
    BY <1>1, <1>2, <2>1
    DEF Balanced, MemoryTypeOK, WorkInv, provided, projection, mission, work
  <2>3. QED  BY <1>1, <1>3, <2>2, BaseStays
<1>6. QED  BY <1>4, <1>5

\* Continue, first effect: the old provider ends.
LEMMA ContinuingKeeps ==
  ASSUME ManagedInv, up = TRUE, Continuing, NEW e \in Head(todo), todo # <<>>, Do(e)
  PROVE  Base' /\ HandlerInv'
<1>1. PICK r \in Run, v \in Provider :
        /\ Calm /\ Stopped /\ run \in Run
        /\ todo = <<{Drop(run)}, {Claim(r)}, {Continued(r, v)}, {Launch(r)}>>
  BY DEF Continuing
<1>2. e = Drop(run) /\ Rest(e) = <<{Claim(r)}, {Continued(r, v)}, {Launch(r)}>>
  BY <1>1, RestFour
<1>3. DropStep(Drop(run))
  BY <1>2, StepOf DEF Drop
<1>4. Base /\ Balanced /\ managed \subseteq {run}
  BY <1>1 DEF ManagedInv, Base, Calm, WorkInv
<1>5. /\ Base' /\ managed' = {} /\ Balanced'
      /\ UNCHANGED <<projection, poisoned, up>> /\ todo' = Rest(e)
  BY <1>1, <1>2, <1>3, <1>4, DropFacts
<1>6. Stopped'
  BY <1>1, <1>5 DEF Stopped, Closing, projection, mission
<1>7. Claiming'
  BY <1>2, <1>5, <1>6 DEF Claiming
<1>8. QED  BY <1>5, <1>7 DEF HandlerInv

\* Start and Continue: the claim is taken or the handler ends.
LEMMA ClaimingKeeps ==
  ASSUME ManagedInv, up = TRUE, Claiming, NEW e \in Head(todo), todo # <<>>, Do(e)
  PROVE  Base' /\ HandlerInv'
<1>1. PICK r \in Run, v \in Provider :
        /\ managed = {} /\ Balanced /\ Stopped
        /\ \/ todo = <<{Claim(r)}, {Started(r, v)}, {Launch(r)}>>
           \/ todo = <<{Claim(r)}, {Continued(r, v)}, {Launch(r)}>>
  BY DEF Claiming
<1>2. PICK x \in {Started(r, v), Continued(r, v)} :
        todo = <<{Claim(r)}, {x}, {Launch(r)}>>
  BY <1>1
<1>3. e = Claim(r) /\ Rest(e) = <<{x}, {Launch(r)}>>
  BY <1>2, RestThree
<1>4. ClaimStep(e) /\ e.run = r
  BY <1>3, StepOf DEF Claim
<1>5. Base /\ MemoryTypeOK /\ WorkInv
  BY DEF ManagedInv, Base
<1>6. /\ UNCHANGED <<projection, up, poisoned, tail, faults, provided, proving, checks, sent>>
      /\ \/ lease = NoRun /\ lease' = r /\ todo' = Rest(e)
         \/ lease # NoRun /\ todo' = <<>> /\ UNCHANGED lease
  BY <1>4 DEF ClaimStep
<1>7. Base'
  <2>1. MemoryTypeOK'
    BY <1>5, <1>6 DEF MemoryTypeOK, provided
  <2>2. WorkInv'
    BY <1>5, <1>6 DEF WorkInv, provided, projection, mission, work
  <2>3. QED  BY <1>5, <1>6, <2>1, <2>2, BaseStays
<1>8. Stopped' /\ managed' = {} /\ announced' = {}
  BY <1>1, <1>5, <1>6
  DEF Stopped, Closing, projection, mission, provided, MemoryTypeOK
<1>9. CASE lease = NoRun
  <2>1. lease' = r /\ todo' = <<{x}, {Launch(r)}>>
    BY <1>3, <1>6, <1>9
  <2>2. proving = {}
    BY <1>1, <1>5, <1>9, NoneAssumption DEF Balanced, MemoryTypeOK
  <2>3. Claimed'
    BY <1>2, <1>6, <1>8, <2>1, <2>2 DEF Claimed, Vacant
  <2>4. QED  BY <1>6, <1>7, <2>3 DEF HandlerInv
<1>10. CASE lease # NoRun
  <2>1. todo' = <<>> /\ lease' = lease
    BY <1>6, <1>10
  <2>2. Calm'
    BY <1>1, <1>6, <1>8, <2>1 DEF Calm, Balanced, Tended, Greeted, provided
  <2>3. QED  BY <1>6, <1>7, <2>1, <2>2 DEF HandlerInv, Entering
<1>11. QED  BY <1>9, <1>10

\* The claim is held while the run is recorded.
LEMMA ClaimedKeeps ==
  ASSUME ManagedInv, up = TRUE, Claimed, NEW e \in Head(todo), todo # <<>>, Do(e)
  PROVE  Base' /\ HandlerInv'
<1>1. PICK r \in Run, v \in Provider :
        /\ Vacant /\ lease = r /\ Stopped
        /\ \/ todo = <<{Started(r, v)}, {Launch(r)}>>
           \/ todo = <<{Continued(r, v)}, {Launch(r)}>>
  BY DEF Claimed
<1>2. PICK x \in {Started(r, v), Continued(r, v)} : todo = <<{x}, {Launch(r)}>>
  BY <1>1
<1>3. e = x /\ Rest(e) = <<{Launch(r)}>>
  BY <1>2, RestTwo
<1>4. e.do \in {"started", "continued"} /\ e.run = r
  BY <1>3 DEF Started, Continued
<1>5. Sound(e) /\ Fits(e) /\ e.do \in Durable /\ Otherwise(e) = <<{Free(r)}>>
  BY <1>1, <1>4 DEF Sound, Fits, Durable, Otherwise
<1>6. /\ Base' /\ up' = TRUE /\ UNCHANGED <<provided, proving, outside>>
      /\ Succeeds(e) \/ Misses(e)
  BY <1>5, CommitAt
<1>7. Vacant' /\ lease' = r
  BY <1>1, <1>6 DEF Vacant, provided, outside
<1>8. CASE Succeeds(e)
  <2>1. run' = r /\ status' = "preparing" /\ todo' = <<{Launch(r)}>>
    BY <1>3, <1>4, <1>8, ApplyFrame DEF Succeeds
  <2>2. Launching'
    BY <1>7, <2>1 DEF Launching
  <2>3. QED  BY <1>6, <2>2 DEF HandlerInv
<1>9. CASE Misses(e)
  <2>1. todo' = <<{Free(r)}>>
    BY <1>5, <1>9 DEF Misses
  <2>2. Stopped'
    BY <1>1, <1>6, <1>9, CalmStays DEF ManagedInv, Base
  <2>3. Launching'
    BY <1>7, <2>1, <2>2 DEF Launching
  <2>4. QED  BY <1>6, <2>3 DEF HandlerInv
<1>10. QED  BY <1>6, <1>8, <1>9

\* The provider is launched, or the mission fails and the claim is returned.
LEMMA LaunchingKeeps ==
  ASSUME ManagedInv, up = TRUE, Launching, NEW e \in Head(todo), todo # <<>>, Do(e)
  PROVE  Base' /\ HandlerInv'
<1>1. PICK r \in Run :
        /\ Vacant /\ lease = r
        /\ \/ todo = <<{Launch(r)}>> /\ run = r /\ status = "preparing"
           \/ todo = <<{Transition(r, "failed")}, {Free(r)}>>
           \/ todo = <<{Free(r)}>> /\ Stopped
  BY DEF Launching
<1>2. Base /\ MemoryTypeOK /\ WorkInv
  BY DEF ManagedInv, Base
<1>3. CASE todo = <<{Launch(r)}>> /\ run = r /\ status = "preparing"
  <2>1. e = Launch(r) /\ Rest(e) = <<>>
    BY <1>3, RestOne
  <2>2. LaunchStep(e) /\ e.run = r
    BY <2>1, StepOf DEF Launch
  <2>3. /\ UNCHANGED <<projection, up, poisoned, tail, faults, recovered, announced,
                       channel, inflight, proving, outside>>
        /\ \/ managed' = {r} /\ todo' = <<>>
           \/ UNCHANGED managed /\ todo' = <<{Transition(r, "failed")}, {Free(r)}>>
    BY <1>1, <2>1, <2>2 DEF LaunchStep, Vacant
  <2>4. MemoryTypeOK'
    BY <1>1, <1>2, <2>3 DEF MemoryTypeOK, outside, Vacant
  <2>5. WorkInv'
    BY <1>1, <1>2, <1>3, <2>3 DEF WorkInv, Vacant, projection, mission, work
  <2>6. Base'
    BY <1>2, <2>3, <2>4, <2>5, BaseStays DEF outside
  <2>7. CASE managed' = {r} /\ todo' = <<>>
    <3>1. Balanced' /\ Tended'
      BY <1>1, <1>3, <2>3, <2>7
      DEF Balanced, Tended, Vacant, outside, projection, mission, work
    <3>2. announced' = {}
      BY <1>1, <1>2, <2>3 DEF MemoryTypeOK, Vacant
    <3>3. Entering'
      BY <2>7, <3>1, <3>2 DEF Entering, Calm, Greeted
    <3>4. QED  BY <2>3, <2>6, <3>3 DEF HandlerInv
  <2>8. CASE UNCHANGED managed /\ todo' = <<{Transition(r, "failed")}, {Free(r)}>>
    <3>1. Launching'
      BY <1>1, <2>3, <2>8 DEF Launching, Vacant, outside
    <3>2. QED  BY <2>3, <2>6, <3>1 DEF HandlerInv
  <2>9. QED  BY <2>3, <2>7, <2>8
<1>4. CASE todo = <<{Transition(r, "failed")}, {Free(r)}>>
  <2>1. e = Transition(r, "failed") /\ Rest(e) = <<{Free(r)}>>
    BY <1>4, RestTwo
  <2>2. e.do = "status" /\ e.to = "failed"
    BY <2>1 DEF Transition
  <2>3. Sound(e) /\ Fits(e) /\ e.do \in Durable /\ Otherwise(e) = Rest(e)
    BY <1>1, <2>2 DEF Sound, Fits, Durable, Otherwise, Vacant
  <2>4. /\ Base' /\ up' = TRUE /\ UNCHANGED <<provided, proving, outside>>
        /\ Succeeds(e) \/ Misses(e)
    BY <2>3, CommitAt
  <2>5. Stopped' /\ todo' = <<{Free(r)}>>
    BY <1>2, <2>1, <2>3, <2>4, TransitionStops DEF Succeeds, Misses
  <2>6. Launching'
    BY <1>1, <2>4, <2>5 DEF Launching, Vacant, provided, outside
  <2>7. QED  BY <2>4, <2>6 DEF HandlerInv
<1>5. CASE todo = <<{Free(r)}>> /\ Stopped
  <2>1. e = Free(r) /\ Rest(e) = <<>>
    BY <1>5, RestOne
  <2>2. FreeStep(e) /\ e.run = r
    BY <2>1, StepOf DEF Free
  <2>3. /\ UNCHANGED <<projection, up, poisoned, tail, faults, provided, proving, checks, sent>>
        /\ lease' = NoRun /\ todo' = <<>>
    BY <1>1, <2>1, <2>2 DEF FreeStep, Released
  <2>4. MemoryTypeOK'
    BY <1>2, <2>3 DEF MemoryTypeOK, provided
  <2>5. WorkInv'
    BY <1>2, <2>3 DEF WorkInv, provided, projection, mission, work
  <2>6. Base'
    BY <1>2, <2>3, <2>4, <2>5, BaseStays
  <2>7. Balanced' /\ announced' = {}
    BY <1>1, <1>2, <2>3, NoneAssumption DEF Balanced, Vacant, provided, MemoryTypeOK
  <2>8. Stopped'
    BY <1>5, <2>3 DEF Stopped, Closing, projection, mission
  <2>9. Entering'
    BY <2>3, <2>7, <2>8 DEF Entering, Calm, Tended, Greeted
  <2>10. QED  BY <2>3, <2>6, <2>9 DEF HandlerInv
<1>6. QED  BY <1>1, <1>3, <1>4, <1>5

\* A step that touches neither the journal nor the work keeps the calm.
LEMMA CalmKept ==
  ASSUME Calm, UNCHANGED <<projection, poisoned, managed, announced, proving, lease>>
  PROVE  Calm'
BY DEF Calm, Balanced, Tended, Stopped, Closing, Greeted, projection, mission, work

\* Respond: record, send, and record again when the provider did not take it.
LEMMA AnsweringKeeps ==
  ASSUME ManagedInv, up = TRUE, Answering, NEW e \in Head(todo), todo # <<>>, Do(e)
  PROVE  Base' /\ HandlerInv'
<1>1. PICK a \in Attention, n \in Attempt :
        /\ Calm /\ Asker[a] \in managed
        /\ \/ todo = <<{Requested(a, n)}, {Send(a, n)}>>
           \/ /\ todo = <<{Send(a, n)}>>
              /\ sent[a] = 0 /\ attention[a] = "pending" /\ ~poisoned
           \/ /\ \/ todo = <<{NotApplied(a, n)}>>
                 \/ todo = <<{NotApplied(a, n)}, {Transition(Asker[a], "failed")},
                             {Drop(Asker[a])}>>
              /\ sent[a] = 0
  BY DEF Answering
<1>2. Base /\ MemoryTypeOK /\ WorkInv /\ Calm /\ Balanced
  BY <1>1 DEF ManagedInv, Base, Calm
<1>3. CASE todo = <<{Requested(a, n)}, {Send(a, n)}>>
  <2>1. e = Requested(a, n) /\ Rest(e) = <<{Send(a, n)}>>
    BY <1>3, RestTwo
  <2>2. e.do = "requested" /\ e.attention = a /\ e.attempt = n
    BY <2>1 DEF Requested
  <2>3. Sound(e) /\ Fits(e) /\ e.do \in Durable /\ Otherwise(e) = <<>>
    BY <2>2 DEF Sound, Fits, Durable, Otherwise
  <2>4. /\ Base' /\ up' = TRUE /\ UNCHANGED <<provided, proving, outside>>
        /\ Succeeds(e) \/ Misses(e)
    BY <2>3, CommitAt
  <2>5. Misses(e) \/ UNCHANGED <<run, status>>
    BY <2>2, <2>4, ApplyFrame DEF Succeeds
  <2>6. Calm' /\ Asker[a] \in managed'
    BY <1>1, <1>2, <2>4, <2>5, CalmStays DEF provided
  <2>7. CASE Succeeds(e)
    <3>1. /\ ResponseRequested(a, n, Now)
          /\ todo' = <<{Send(a, n)}>> /\ ~poisoned'
      BY <2>1, <2>2, <2>7 DEF Succeeds, Apply
    <3>2. /\ attention[a] = "open" /\ attention \in [Attention -> AttentionState]
          /\ attention'[a] = "pending"
      BY <1>2, <3>1 DEF ResponseRequested, Base, JournalInv, IInv, TypeOK
    <3>3. sent[a] = 0 /\ sent' = sent
      <4>1. /\ sent[a] \in Nat /\ sent[a] <= 1
            /\ sent[a] = 1 => attention[a] \in {"pending", "reconcile", "resolved"}
        BY <1>2 DEF Base, JournalInv, SentIsRecorded, MemoryTypeOK
      <4>2. sent' = sent
        BY <2>4 DEF outside
      <4>3. QED  BY <3>2, <4>1, <4>2
    <3>4. Answering'
      BY <2>6, <3>1, <3>2, <3>3 DEF Answering
    <3>5. QED  BY <2>4, <3>4 DEF HandlerInv
  <2>8. CASE Misses(e)
    <3>1. todo' = <<>>
      BY <2>3, <2>8 DEF Misses
    <3>2. QED  BY <2>4, <2>6, <3>1 DEF HandlerInv, Entering
  <2>9. QED  BY <2>4, <2>7, <2>8
<1>4. CASE todo = <<{Send(a, n)}>> /\ sent[a] = 0 /\ attention[a] = "pending" /\ ~poisoned
  <2>1. e = Send(a, n) /\ Rest(e) = <<>>
    BY <1>4, RestOne
  <2>2. SendStep(e) /\ e.attention = a /\ e.attempt = n
    BY <2>1, StepOf DEF Send
  <2>3. /\ UNCHANGED <<projection, up, poisoned, tail, faults, managed, recovered,
                       announced, proving, checks, lease>>
        /\ \/ /\ sent' = [sent EXCEPT ![a] = @ + 1]
              /\ channel' = channel \ {a}
              /\ inflight' = [inflight EXCEPT ![a] = n]
              /\ todo' = <<>>
           \/ /\ todo' \in {<<{NotApplied(a, n)}>>,
                            <<{NotApplied(a, n)}, {Transition(Asker[a], "failed")},
                              {Drop(Asker[a])}>>}
              /\ UNCHANGED <<sent, channel, inflight>>
    BY <2>1, <2>2 DEF SendStep
  <2>4. Calm' /\ Asker[a] \in managed'
    BY <1>1, <1>2, <2>3, CalmKept
  <2>5. WorkInv'
    BY <1>2, <2>3 DEF WorkInv, projection, mission, work
  <2>6. CASE todo' = <<>> /\ sent' = [sent EXCEPT ![a] = @ + 1]
                  /\ channel' = channel \ {a} /\ inflight' = [inflight EXCEPT ![a] = n]
    <3>1. n \in 0..MaxAttempt
      BY BoundAssumption DEF Attempt
    <3>2. MemoryTypeOK'
      BY <1>2, <2>3, <2>6, <3>1 DEF MemoryTypeOK
    <3>3. SentIsRecorded'
      BY <1>2, <1>4, <2>3, <2>6
      DEF Base, JournalInv, SentIsRecorded, MemoryTypeOK, projection, mission, answers
    <3>4. JournalInv'
      BY <1>2, <2>3, <3>3, JournalStays DEF Base
    <3>5. TailInv'
      BY <1>2, <1>4, <2>3 DEF Base, TailInv
    <3>6. Entering'
      BY <2>4, <2>6 DEF Entering
    <3>7. QED  BY <2>3, <2>5, <3>2, <3>4, <3>5, <3>6 DEF Base, HandlerInv
  <2>7. CASE /\ todo' \in {<<{NotApplied(a, n)}>>,
                           <<{NotApplied(a, n)}, {Transition(Asker[a], "failed")},
                             {Drop(Asker[a])}>>}
             /\ UNCHANGED <<sent, channel, inflight>>
    <3>1. MemoryTypeOK'
      BY <1>2, <2>3, <2>7 DEF MemoryTypeOK
    <3>2. Base'
      BY <1>2, <2>3, <2>5, <2>7, <3>1, BaseStays
    <3>3. Answering'
      BY <1>4, <2>4, <2>7 DEF Answering
    <3>4. QED  BY <2>3, <3>2, <3>3 DEF HandlerInv
  <2>8. QED  BY <2>3, <2>6, <2>7
<1>5. CASE /\ \/ todo = <<{NotApplied(a, n)}>>
              \/ todo = <<{NotApplied(a, n)}, {Transition(Asker[a], "failed")},
                          {Drop(Asker[a])}>>
           /\ sent[a] = 0
  <2> DEFINE q == <<{Transition(Asker[a], "failed")}, {Drop(Asker[a])}>>
  <2>1. e = NotApplied(a, n) /\ Rest(e) \in {<<>>, q}
    <3>1. CASE todo = <<{NotApplied(a, n)}>>
      BY <3>1, RestOne
    <3>2. CASE todo = <<{NotApplied(a, n)}, {Transition(Asker[a], "failed")}, {Drop(Asker[a])}>>
      BY <3>2, RestThree
    <3>3. QED  BY <1>5, <3>1, <3>2
  <2>2. e.do = "notApplied" /\ e.attention = a
    BY <2>1 DEF NotApplied
  <2>3. Sound(e) /\ Fits(e) /\ e.do \in Durable /\ Otherwise(e) = q
    BY <1>5, <2>2 DEF Sound, Fits, Durable, Otherwise
  <2>4. /\ Base' /\ up' = TRUE /\ UNCHANGED <<provided, proving, outside>>
        /\ Succeeds(e) \/ Misses(e)
    BY <2>3, CommitAt
  <2>5. Misses(e) \/ UNCHANGED <<run, status>>
    BY <2>2, <2>4, ApplyFrame DEF Succeeds
  <2>6. Calm' /\ Balanced' /\ Asker[a] \in managed'
    BY <1>1, <1>2, <2>4, <2>5, CalmStays DEF provided
  <2>7. todo' = <<>> \/ todo' = q
    BY <2>1, <2>3, <2>4 DEF Succeeds, Misses
  <2>8. CASE todo' = <<>>
    BY <2>4, <2>6, <2>8 DEF HandlerInv, Entering
  <2>9. CASE todo' = q
    <3>1. Ending'
      BY <2>6, <2>9 DEF Ending
    <3>2. QED  BY <2>4, <3>1 DEF HandlerInv
  <2>10. QED  BY <2>7, <2>8, <2>9
<1>6. QED  BY <1>1, <1>3, <1>4, <1>5

\* A question is recorded and offered; an answer is acknowledged.
LEMMA AskingKeeps ==
  ASSUME ManagedInv, up = TRUE, Asking, NEW e \in Head(todo), todo # <<>>, Do(e)
  PROVE  Base' /\ HandlerInv'
<1>1. PICK a \in Attention :
        /\ Calm
        /\ \/ todo = <<{Opened(a)}, {Offer(a)}>> /\ managed # {}
           \/ todo = <<{Offer(a)}>>
           \/ \E n \in Attempt : todo = <<{Acknowledged(a, n)}, {Settle(a)}>>
           \/ todo = <<{Settle(a)}>>
  BY DEF Asking
<1>2. Base /\ MemoryTypeOK /\ WorkInv /\ Calm
  BY <1>1 DEF ManagedInv, Base
<1>3. ASSUME NEW x, NEW y \in {Offer(a), Settle(a)}, todo = <<{x}, {y}>>,
             x.do \in {"opened", "acknowledged"}, Sound(x)
      PROVE  Base' /\ HandlerInv'
  <2>1. e = x /\ Rest(e) = <<{y}>>
    BY <1>3, RestTwo
  <2>2. Sound(e) /\ Fits(e) /\ e.do \in Durable /\ Otherwise(e) = <<>>
    BY <1>3, <2>1 DEF Sound, Fits, Durable, Otherwise
  <2>3. /\ Base' /\ up' = TRUE /\ UNCHANGED <<provided, proving, outside>>
        /\ Succeeds(e) \/ Misses(e)
    BY <2>2, CommitAt
  <2>4. Misses(e) \/ UNCHANGED <<run, status>>
    BY <1>3, <2>1, <2>3, ApplyFrame DEF Succeeds
  <2>5. Calm'
    BY <1>2, <2>3, <2>4, CalmStays
  <2>6. todo' = <<{y}>> \/ todo' = <<>>
    BY <2>1, <2>2, <2>3 DEF Succeeds, Misses
  <2>7. Asking' \/ Entering'
    BY <1>3, <2>5, <2>6 DEF Asking, Entering
  <2>8. QED  BY <2>3, <2>7 DEF HandlerInv
<1>4. ASSUME NEW x \in {Offer(a), Settle(a)}, todo = <<{x}>>
      PROVE  Base' /\ HandlerInv'
  <2>1. e = x /\ Rest(e) = <<>>
    BY <1>4, RestOne
  <2>2. e.do \in {"offer", "settle"} /\ e.attention = a
    BY <2>1 DEF Offer, Settle
  <2>3. ChannelStep(e)
    BY <2>2, StepOf
  <2>4. /\ UNCHANGED <<projection, up, poisoned, tail, faults, managed, recovered,
                       announced, proving, outside>>
        /\ todo' = <<>>
    BY <2>1, <2>3 DEF ChannelStep
  <2>5. channel' \subseteq Attention /\ inflight' \in [Attention -> 0..MaxAttempt]
    BY <1>2, <2>2, <2>3, BoundAssumption DEF ChannelStep, MemoryTypeOK
  <2>6. MemoryTypeOK'
    BY <1>2, <2>4, <2>5 DEF MemoryTypeOK, outside
  <2>7. WorkInv'
    BY <1>2, <2>4 DEF WorkInv, projection, mission, work
  <2>8. Base' /\ Calm'
    BY <1>2, <2>4, <2>6, <2>7, BaseStays, CalmKept DEF outside
  <2>9. QED  BY <2>4, <2>8 DEF HandlerInv, Entering
<1>5. CASE todo = <<{Opened(a)}, {Offer(a)}>> /\ managed # {}
  <2>1. Opened(a).do = "opened"
    BY DEF Opened
  <2>2. Sound(Opened(a))
    BY <1>2, <1>5, <2>1 DEF Sound, WorkInv
  <2>3. QED  BY <1>3, <1>5, <2>1, <2>2
<1>6. ASSUME NEW n \in Attempt, todo = <<{Acknowledged(a, n)}, {Settle(a)}>>
      PROVE  Base' /\ HandlerInv'
  <2>1. Acknowledged(a, n).do = "acknowledged"
    BY DEF Acknowledged
  <2>2. Sound(Acknowledged(a, n))
    BY <2>1 DEF Sound
  <2>3. QED  BY <1>3, <1>6, <2>1, <2>2
<1>7. QED  BY <1>1, <1>4, <1>5, <1>6

\* The session is bound, or the run is failed.
LEMMA GreetingKeeps ==
  ASSUME ManagedInv, up = TRUE, Greeting, NEW e \in Head(todo), todo # <<>>, Do(e)
  PROVE  Base' /\ HandlerInv'
<1>1. PICK r \in managed, s \in Session : Balanced /\ todo = <<{Bound(r, s)}>>
  BY DEF Greeting
<1>2. Base /\ WorkInv /\ Balanced
  BY <1>1 DEF ManagedInv, Base
<1>3. e = Bound(r, s) /\ Rest(e) = <<>>
  BY <1>1, RestOne
<1>4. e.do = "bound" /\ e.run = r
  BY <1>3 DEF Bound
<1>5. /\ Sound(e) /\ Fits(e) /\ e.do \in Durable
      /\ Otherwise(e) = <<{Transition(r, "failed")}, {Drop(r)}>>
  BY <1>4 DEF Sound, Fits, Durable, Otherwise
<1>6. /\ Base' /\ up' = TRUE /\ UNCHANGED <<provided, proving, outside>>
      /\ Succeeds(e) \/ Misses(e)
  BY <1>5, CommitAt
<1>7. r \in managed' /\ Balanced'
  BY <1>2, <1>6 DEF Balanced, provided, outside
<1>8. CASE Succeeds(e)
  <2>1. todo' = <<>> /\ status' = "active" /\ run' = run
    BY <1>3, <1>4, <1>8, ApplyFrame DEF Succeeds
  <2>2. run' \in managed'
    BY <1>2, <1>7, <2>1 DEF WorkInv
  <2>3. Entering'
    BY <1>7, <2>1, <2>2 DEF Entering, Calm, Tended, Greeted
  <2>4. QED  BY <1>6, <2>3 DEF HandlerInv
<1>9. CASE Misses(e)
  <2>1. todo' = <<{Transition(r, "failed")}, {Drop(r)}>>
    BY <1>5, <1>9 DEF Misses
  <2>2. Ending'
    BY <1>7, <2>1 DEF Ending
  <2>3. QED  BY <1>6, <2>2 DEF HandlerInv
<1>10. QED  BY <1>6, <1>8, <1>9

\* A finished turn: review, then the proof or the end of the provider.
LEMMA ReviewingKeeps ==
  ASSUME ManagedInv, up = TRUE, Reviewing, NEW e \in Head(todo), todo # <<>>, Do(e)
  PROVE  Base' /\ HandlerInv'
<1>1. PICK r \in managed :
        /\ Balanced
        /\ \/ /\ status # "preparing" \/ Closing
              /\ \/ todo = <<{Transition(r, "review")}, {Prove(r)}>>
                 \/ todo = <<{Transition(r, "review")}, {Drop(r)}>>
           \/ status = "review" /\ todo = <<{Prove(r)}>>
  BY DEF Reviewing
<1>2. Base /\ MemoryTypeOK /\ WorkInv /\ Balanced
  BY <1>1 DEF ManagedInv, Base
<1>3. /\ r \in Run /\ r = run /\ managed = {r} /\ proving = {} /\ lease = r
      /\ recovered \subseteq {r} /\ announced \subseteq {r}
  BY <1>2 DEF WorkInv, MemoryTypeOK, Balanced
<1>4. ASSUME NEW x \in {Prove(r), Drop(r)}, todo = <<{Transition(r, "review")}, {x}>>,
             status # "preparing" \/ Closing
      PROVE  Base' /\ HandlerInv'
  <2>1. e = Transition(r, "review") /\ Rest(e) = <<{x}>>
    BY <1>4, RestTwo
  <2>2. e.do = "status" /\ e.to = "review" /\ e.run = r
    BY <2>1 DEF Transition
  <2>3. Sound(e) /\ Fits(e) /\ e.do \in Durable /\ Otherwise(e) = <<{Drop(r)}>>
    BY <1>3, <2>2 DEF Sound, Fits, Durable, Otherwise
  <2>4. /\ Base' /\ up' = TRUE /\ UNCHANGED <<provided, proving, outside>>
        /\ Succeeds(e) \/ Misses(e)
    BY <2>3, CommitAt
  <2>5. r \in managed' /\ Balanced'
    BY <1>2, <2>4 DEF Balanced, provided, outside
  <2>6. CASE Succeeds(e)
    <3>1. status' = "review" /\ todo' = <<{x}>>
      BY <2>1, <2>2, <2>6, ApplyFrame DEF Succeeds
    <3>2. Reviewing' \/ Ending'
      BY <1>4, <2>5, <3>1 DEF Reviewing, Ending, Stopped
    <3>3. QED  BY <2>4, <3>2 DEF HandlerInv
  <2>7. CASE Misses(e)
    <3>1. todo' = <<{Drop(r)}>> /\ UNCHANGED status
      BY <2>3, <2>7 DEF Misses, projection, mission
    <3>2. Stopped'
      <4>1. Closing => Closing'
        BY <1>2, <2>7, ClosingStays
      <4>2. Closing' \/ ~CanPersistFrom("review", status)
        BY <2>2, <2>7 DEF Misses
      <4>3. QED  BY <1>4, <3>1, <4>1, <4>2 DEF Stopped, CanPersistFrom
    <3>3. Ending'
      BY <2>5, <3>1, <3>2 DEF Ending
    <3>4. QED  BY <2>4, <3>3 DEF HandlerInv
  <2>8. QED  BY <2>4, <2>6, <2>7
<1>5. CASE status = "review" /\ todo = <<{Prove(r)}>>
  <2>1. e = Prove(r) /\ Rest(e) = <<>>
    BY <1>5, RestOne
  <2>2. ProveStep(e) /\ e.run = r
    BY <2>1, StepOf DEF Prove
  <2>3. /\ UNCHANGED <<projection, up, poisoned, tail, faults, checks, sent>>
        /\ Unmanage(r) /\ todo' = <<>>
        /\ \/ proving' = {r} /\ lease' = r
           \/ proving' = {} /\ lease' = NoRun
    BY <1>3, <2>1, <2>2 DEF ProveStep, Released
  <2>4. managed' = {} /\ announced' = {} /\ recovered' = {}
    BY <1>3, <2>3 DEF Unmanage
  <2>5. channel' \subseteq Attention /\ inflight' \in [Attention -> 0..MaxAttempt]
    BY <1>2, <2>3, BoundAssumption DEF Unmanage, MemoryTypeOK
  <2>6. MemoryTypeOK'
    BY <1>2, <1>3, <2>3, <2>4, <2>5 DEF MemoryTypeOK
  <2>7. WorkInv' /\ status' = "review"
    BY <1>3, <1>5, <2>3, <2>4 DEF WorkInv, projection, mission, work
  <2>8. Balanced'
    BY <1>3, <2>3, <2>4, NoneAssumption DEF Balanced
  <2>9. Entering'
    BY <2>3, <2>4, <2>7, <2>8 DEF Entering, Calm, Tended, Stopped, Greeted
  <2>10. QED  BY <1>2, <2>3, <2>6, <2>7, <2>9, BaseStays DEF HandlerInv
<1>6. QED  BY <1>1, <1>4, <1>5

\* A run ends: status, the answers in flight, the provider and its claim.
LEMMA EndingKeeps ==
  ASSUME ManagedInv, up = TRUE, Ending, NEW e \in Head(todo), todo # <<>>, Do(e)
  PROVE  Base' /\ HandlerInv'
<1>1. PICK r \in managed, to \in {"blocked", "failed"}, U \in SUBSET Lost :
        /\ Balanced
        /\ \/ todo = <<{Transition(r, to)}, {Drop(r)}>>
           \/ todo = <<{Transition(r, to)}, U, {Drop(r)}>> /\ U # {}
           \/ todo = <<U, {Drop(r)}>> /\ U # {} /\ Stopped
           \/ todo = <<{Drop(r)}>> /\ Stopped
  BY DEF Ending
<1>2. Base /\ MemoryTypeOK /\ WorkInv /\ Balanced
  BY <1>1 DEF ManagedInv, Base
<1>3. r \in Run /\ managed = {r} /\ proving = {}
  BY <1>2 DEF WorkInv, MemoryTypeOK
<1>4. CASE \/ todo = <<{Transition(r, to)}, {Drop(r)}>>
           \/ todo = <<{Transition(r, to)}, U, {Drop(r)}>> /\ U # {}
  <2>1. /\ e = Transition(r, to)
        /\ \/ Rest(e) = <<{Drop(r)}>>
           \/ Rest(e) = <<U, {Drop(r)}>> /\ U # {}
    <3>1. CASE todo = <<{Transition(r, to)}, {Drop(r)}>>
      BY <3>1, RestTwo
    <3>2. CASE todo = <<{Transition(r, to)}, U, {Drop(r)}>> /\ U # {}
      BY <3>2, RestThree
    <3>3. QED  BY <1>4, <3>1, <3>2
  <2>2. e.do = "status" /\ e.to = to
    BY <2>1 DEF Transition
  <2>3. Sound(e) /\ Fits(e) /\ e.do \in Durable /\ Otherwise(e) = Rest(e)
    BY <1>3, <2>2 DEF Sound, Fits, Durable, Otherwise
  <2>4. /\ Base' /\ up' = TRUE /\ UNCHANGED <<provided, proving, outside>>
        /\ Succeeds(e) \/ Misses(e)
    BY <2>3, CommitAt
  <2>5. Stopped' /\ todo' = Rest(e)
    BY <1>2, <2>1, <2>3, <2>4, TransitionStops DEF Succeeds, Misses
  <2>6. r \in managed' /\ Balanced'
    BY <1>2, <2>4 DEF Balanced, provided, outside
  <2>7. Ending'
    BY <2>1, <2>5, <2>6 DEF Ending
  <2>8. QED  BY <2>4, <2>7 DEF HandlerInv
<1>5. CASE todo = <<U, {Drop(r)}>> /\ U # {} /\ Stopped
  <2>1. /\ e \in U
        /\ \/ Rest(e) = <<{Drop(r)}>>
           \/ U \ {e} # {} /\ Rest(e) = <<U \ {e}, {Drop(r)}>>
    BY <1>5, RestOfLoop
  <2>2. e.do = "unknown"
    BY <2>1 DEF Lost, Unknown
  <2>3. Sound(e) /\ Fits(e) /\ e.do \in Durable /\ Otherwise(e) = Rest(e)
    BY <2>2 DEF Sound, Fits, Durable, Otherwise
  <2>4. /\ Base' /\ up' = TRUE /\ UNCHANGED <<provided, proving, outside>>
        /\ Succeeds(e) \/ Misses(e)
    BY <2>3, CommitAt
  <2>5. Misses(e) \/ UNCHANGED <<run, status>>
    BY <2>2, <2>4, ApplyFrame DEF Succeeds
  <2>6. Stopped' /\ Balanced' /\ r \in managed'
    BY <1>2, <1>5, <2>4, <2>5, CalmStays DEF provided
  <2>7. todo' = Rest(e)
    BY <2>3, <2>4 DEF Succeeds, Misses
  <2>8. U \ {e} \in SUBSET Lost
    OBVIOUS
  <2>9. Ending'
    <3>1. CASE Rest(e) = <<{Drop(r)}>>
      BY <2>6, <2>7, <3>1 DEF Ending
    <3>2. CASE U \ {e} # {} /\ Rest(e) = <<U \ {e}, {Drop(r)}>>
      BY <2>6, <2>7, <2>8, <3>2 DEF Ending
    <3>3. QED  BY <2>1, <3>1, <3>2
  <2>10. QED  BY <2>4, <2>9 DEF HandlerInv
<1>6. CASE todo = <<{Drop(r)}>> /\ Stopped
  <2>1. e = Drop(r) /\ Rest(e) = <<>>
    BY <1>6, RestOne
  <2>2. DropStep(Drop(r))
    BY <2>1, StepOf DEF Drop
  <2>3. /\ Base' /\ announced' = {} /\ Balanced'
        /\ UNCHANGED <<projection, poisoned, up>> /\ todo' = <<>>
    BY <1>2, <1>3, <2>1, <2>2, DropFacts
  <2>4. Stopped'
    BY <1>6, <2>3 DEF Stopped, Closing, projection, mission
  <2>5. Entering'
    BY <2>3, <2>4 DEF Entering, Calm, Tended, Greeted
  <2>6. QED  BY <2>3, <2>5 DEF HandlerInv
<1>7. QED  BY <1>1, <1>4, <1>5, <1>6

\* A commit of the proof's handler that ends with the claim returned.
LEMMA FreeIsNext ==
  ASSUME NEW r \in Run, Vacant, lease = r, UNCHANGED <<provided, proving, outside>>,
         Stopped', todo' = <<{Free(r)}>>
  PROVE  Launching'
BY DEF Launching, Vacant, provided, outside

\* The pack, the results of the checks and the evaluation.
LEMMA ProvingKeeps ==
  ASSUME ManagedInv, up = TRUE, Proving, NEW e \in Head(todo), todo # <<>>, Do(e)
  PROVE  Base' /\ HandlerInv'
<1>1. PICK r \in Run, u \in Subject, ok \in BOOLEAN : \E C \in SUBSET Results(r) :
        /\ Vacant /\ lease = r /\ run = r /\ status \in {"review", "ready"}
        /\ \/ todo = <<{Packed(r)}, C, {Conclude(r, u, ok)}, {Free(r)}>> /\ C # {} /\ Honest(r, C, ok)
           \/ todo = <<{Packed(r)}, {Conclude(r, u, ok)}, {Free(r)}>> /\ Honest(r, {}, ok)
           \/ /\ todo = <<C, {Conclude(r, u, ok)}, {Free(r)}>> /\ C # {} /\ Honest(r, C, ok)
              /\ pack = run
           \/ /\ todo = <<{Conclude(r, u, ok)}, {Free(r)}>> /\ Honest(r, {}, ok)
              /\ pack = run
  BY DEF Proving
<1>2. PICK C \in SUBSET Results(r) :
        /\ Vacant /\ lease = r /\ run = r /\ status \in {"review", "ready"}
        /\ \/ todo = <<{Packed(r)}, C, {Conclude(r, u, ok)}, {Free(r)}>> /\ C # {} /\ Honest(r, C, ok)
           \/ todo = <<{Packed(r)}, {Conclude(r, u, ok)}, {Free(r)}>> /\ Honest(r, {}, ok)
           \/ /\ todo = <<C, {Conclude(r, u, ok)}, {Free(r)}>> /\ C # {} /\ Honest(r, C, ok)
              /\ pack = run
           \/ /\ todo = <<{Conclude(r, u, ok)}, {Free(r)}>> /\ Honest(r, {}, ok)
              /\ pack = run
  BY <1>1
<1>3. Base /\ MemoryTypeOK /\ WorkInv /\ Stopped
  BY <1>2 DEF ManagedInv, Base, Stopped
<1> DEFINE end == <<{Conclude(r, u, ok)}, {Free(r)}>>
           loop(D) == <<D, {Conclude(r, u, ok)}, {Free(r)}>>
           Here == Vacant' /\ lease' = r /\ run' = r /\ status' \in {"review", "ready"}
\* The pack and the results of the checks are recorded alike.
<1>4. ASSUME e.do \in {"pack", "evidence"}, e.run = r, Sound(e)
      PROVE  /\ Base' /\ up' = TRUE /\ Here /\ UNCHANGED sent
             /\ \/ Succeeds(e)
                \/ Launching'
  <2>1. Fits(e) /\ e.do \in Durable /\ Otherwise(e) = <<{Free(r)}>>
    BY <1>4 DEF Fits, Durable, Otherwise
  <2>2. /\ Base' /\ up' = TRUE /\ UNCHANGED <<provided, proving, outside>>
        /\ Succeeds(e) \/ Misses(e)
    BY <1>4, <2>1, CommitAt
  <2>3. UNCHANGED <<run, status>>
    BY <1>4, <2>2, ApplyFrame DEF Succeeds, Misses, projection, mission, work
  <2>4. Here
    BY <1>2, <2>2, <2>3 DEF Vacant, provided, outside
  <2>5. ASSUME Misses(e) PROVE Launching'
    <3>1. Stopped' /\ todo' = <<{Free(r)}>>
      BY <1>3, <2>1, <2>2, <2>5, CalmStays DEF Misses
    <3>2. QED  BY <1>2, <2>2, <3>1, FreeIsNext
  <2>6. QED  BY <2>2, <2>4, <2>5 DEF outside
<1>5. CASE \/ todo = <<{Packed(r)}, C, {Conclude(r, u, ok)}, {Free(r)}>> /\ C # {} /\ Honest(r, C, ok)
           \/ todo = <<{Packed(r)}, {Conclude(r, u, ok)}, {Free(r)}>> /\ Honest(r, {}, ok)
  <2>1. /\ e = Packed(r)
        /\ \/ Rest(e) = loop(C) /\ C # {} /\ Honest(r, C, ok)
           \/ Rest(e) = end /\ Honest(r, {}, ok)
    <3>1. CASE todo = <<{Packed(r)}, C, {Conclude(r, u, ok)}, {Free(r)}>> /\ C # {} /\ Honest(r, C, ok)
      BY <3>1, RestFour
    <3>2. CASE todo = <<{Packed(r)}, {Conclude(r, u, ok)}, {Free(r)}>> /\ Honest(r, {}, ok)
      BY <3>2, RestThree
    <3>3. QED  BY <1>5, <3>1, <3>2
  <2>2. e.do = "pack" /\ e.run = r
    BY <2>1 DEF Packed
  <2>3. Sound(e)
    BY <2>2 DEF Sound
  <2>4. Base' /\ up' = TRUE /\ Here /\ (Succeeds(e) \/ Launching')
    BY <1>4, <2>2, <2>3
  <2>5. ASSUME Succeeds(e) PROVE Proving'
    <3>1. pack' = run' /\ todo' = Rest(e) /\ evidence' = evidence
      BY <1>2, <2>2, <2>4, <2>5, ApplyFrame DEF Succeeds
    <3>2. \A D : Honest(r, D, ok) => Honest(r, D, ok)'
      BY <3>1 DEF Honest
    <3>3. QED  BY <2>1, <2>4, <3>1, <3>2 DEF Proving
  <2>6. QED  BY <2>4, <2>5 DEF HandlerInv
<1>6. CASE /\ todo = <<C, {Conclude(r, u, ok)}, {Free(r)}>> /\ C # {} /\ Honest(r, C, ok)
           /\ pack = run
  <2>1. /\ e \in C
        /\ \/ C \ {e} = {} /\ Rest(e) = end
           \/ C \ {e} # {} /\ Rest(e) = loop(C \ {e})
    BY <1>6, RestOfLongLoop
  <2>2. PICK c \in Check, x \in {"passed", "failed"} : e = Checked(r, c, x)
    BY <2>1 DEF Results
  <2>3. e.do = "evidence" /\ e.run = r /\ e.check = c /\ e.result = x
    BY <2>2 DEF Checked
  <2>4. Sound(e)
    BY <1>2, <1>6, <2>3, NoneAssumption DEF Sound
  <2>5. Base' /\ up' = TRUE /\ Here /\ (Succeeds(e) \/ Launching')
    BY <1>4, <2>3, <2>4
  <2>6. ASSUME Succeeds(e) PROVE Proving'
    <3>1. /\ pack' = run' /\ todo' = Rest(e)
      BY <1>2, <1>6, <2>3, <2>5, <2>6, ApplyFrame DEF Succeeds
    <3>2. evidence' = [evidence EXCEPT ![c] = x] /\ evidence \in [Check -> EvidenceStatus]
      BY <1>3, <2>3, <2>6
      DEF Succeeds, Apply, EvidenceChanged, Base, JournalInv, IInv, TypeOK
    <3>3. Honest(r, C \ {e}, ok)'
      <4>1. SUFFICES ASSUME ok
                     PROVE  /\ \A y \in C \ {e} : y.result = "passed"
                            /\ \A d \in Check : \/ evidence'[d] = "passed"
                                                \/ Checked(r, d, "passed") \in C \ {e}
        BY DEF Honest
      <4>2. /\ \A y \in C : y.result = "passed"
            /\ \A d \in Check : evidence[d] = "passed" \/ Checked(r, d, "passed") \in C
        BY <1>6, <4>1 DEF Honest
      <4>3. x = "passed"
        BY <2>1, <2>3, <4>2
      <4>4. ASSUME NEW d \in Check, evidence'[d] # "passed"
            PROVE  Checked(r, d, "passed") \in C \ {e}
        <5>1. d # c /\ evidence'[d] = evidence[d]
          BY <3>2, <4>3, <4>4
        <5>2. Checked(r, d, "passed") \in C
          BY <4>2, <4>4, <5>1
        <5>3. Checked(r, d, "passed").check = d
          BY DEF Checked
        <5>4. QED  BY <2>3, <5>1, <5>2, <5>3
      <4>5. QED  BY <4>2, <4>4
    <3>4. C \ {e} \in SUBSET Results(r)
      OBVIOUS
    <3>5. CASE C \ {e} = {} /\ Rest(e) = end
      <4>1. Honest(r, {}, ok)'
        BY <3>3, <3>5
      <4>2. QED  BY <2>5, <3>1, <3>5, <4>1 DEF Proving
    <3>6. CASE C \ {e} # {} /\ Rest(e) = loop(C \ {e})
      BY <2>5, <3>1, <3>3, <3>4, <3>6 DEF Proving
    <3>7. QED  BY <2>1, <3>5, <3>6
  <2>7. QED  BY <2>5, <2>6 DEF HandlerInv
<1>7. CASE todo = <<{Conclude(r, u, ok)}, {Free(r)}>> /\ Honest(r, {}, ok) /\ pack = run
  <2> DEFINE Goes(X) == todo' = Then(X, Rest(e))
  <2>1. e = Conclude(r, u, ok) /\ Rest(e) = <<{Free(r)}>>
    BY <1>7, RestTwo
  <2>2. e.do = "conclude" /\ e.run = r /\ e.subject = u /\ e.passed = ok
    BY <2>1 DEF Conclude
  <2>3. ConcludeStep(e)
    BY <2>2, StepOf
  <2>4. UNCHANGED <<projection, up, poisoned, tail, faults, provided, proving, outside>>
    BY <2>3 DEF ConcludeStep
  <2>5. \/ Goes({}) \/ Goes({Transition(r, "blocked")})
        \/ Goes({Closed(r, u)}) /\ ok
        \/ Goes({Proven(r, u)}) /\ \A a \in Attention : ~Unresolved(a)
    BY <2>2, <2>3 DEF ConcludeStep
  <2>6. Base'
    <3>1. MemoryTypeOK'
      BY <1>3, <2>4 DEF MemoryTypeOK, provided, outside
    <3>2. WorkInv'
      BY <1>3, <2>4 DEF WorkInv, provided, projection, mission, work
    <3>3. QED  BY <1>3, <2>4, <3>1, <3>2, BaseStays DEF outside
  <2>7. Here /\ Stopped'
    BY <1>2, <2>4 DEF Vacant, Stopped, provided, outside, projection, mission, work
  <2>8. CASE Goes({})
    <3>1. todo' = <<{Free(r)}>>
      BY <2>1, <2>8 DEF Then
    <3>2. Launching'
      BY <1>2, <2>4, <2>7, <3>1, FreeIsNext
    <3>3. QED  BY <2>4, <2>6, <3>2 DEF HandlerInv
  <2>9. ASSUME NEW x, Goes({x}) PROVE todo' = <<{x}, {Free(r)}>>
    BY <2>1, <2>9, JoinTwo DEF Then
  <2>10. CASE Goes({Transition(r, "blocked")})
    <3>1. Concluding'
      BY <2>7, <2>9, <2>10 DEF Concluding
    <3>2. QED  BY <2>4, <2>6, <3>1 DEF HandlerInv
  <2>11. CASE Goes({Closed(r, u)}) /\ ok
    <3>1. Closed(r, u).do = "archived"
      BY DEF Closed
    <3>2. Sound(Closed(r, u))
      BY <1>7, <2>11, <3>1 DEF Sound, Honest
    <3>3. Sound(Closed(r, u))'
      BY <2>4, <3>2, SoundStays DEF outside
    <3>4. Concluding'
      BY <2>7, <2>9, <2>11, <3>3 DEF Concluding
    <3>5. QED  BY <2>4, <2>6, <3>4 DEF HandlerInv
  <2>12. CASE Goes({Proven(r, u)}) /\ \A a \in Attention : ~Unresolved(a)
    <3>1. Proven(r, u).do = "ready"
      BY DEF Proven
    <3>2. Sound(Proven(r, u))
      BY <1>7, <2>12, <3>1 DEF Sound
    <3>3. Sound(Proven(r, u))'
      BY <2>4, <3>2, SoundStays DEF outside
    <3>4. Concluding'
      BY <2>7, <2>9, <2>12, <3>3 DEF Concluding
    <3>5. QED  BY <2>4, <2>6, <3>4 DEF HandlerInv
  <2>13. QED  BY <2>5, <2>8, <2>10, <2>11, <2>12
<1>8. QED  BY <1>2, <1>5, <1>6, <1>7

\* The receipt, or the mission is blocked; then the claim is returned.
LEMMA ConcludingKeeps ==
  ASSUME ManagedInv, up = TRUE, Concluding, NEW e \in Head(todo), todo # <<>>, Do(e)
  PROVE  Base' /\ HandlerInv'
<1>1. PICK r \in Run, u \in Subject :
        /\ Vacant /\ lease = r /\ run = r /\ status \in {"review", "ready"}
        /\ \/ todo = <<{Proven(r, u)}, {Free(r)}>> /\ Sound(Proven(r, u))
           \/ todo = <<{Closed(r, u)}, {Free(r)}>> /\ Sound(Closed(r, u))
           \/ todo = <<{Transition(r, "blocked")}, {Free(r)}>>
  BY DEF Concluding
<1>2. Base /\ Stopped
  BY <1>1 DEF ManagedInv, Base, Stopped
<1>3. PICK x : /\ todo = <<{x}, {Free(r)}>>
               /\ x \in {Proven(r, u), Closed(r, u), Transition(r, "blocked")}
               /\ x # Transition(r, "blocked") => Sound(x)
  BY <1>1
<1>4. e = x /\ Rest(e) = <<{Free(r)}>>
  BY <1>3, RestTwo
<1>5. /\ e.do \in {"ready", "archived", "status"} /\ e.run = r
      /\ e.do = "status" => e.to = "blocked" /\ e = Transition(r, "blocked")
      /\ e = Transition(r, "blocked") => e.do = "status"
  BY <1>3, <1>4 DEF Proven, Closed, Transition
<1>6. Sound(e)
  <2>1. CASE e.do = "status"
    BY <1>5, <2>1 DEF Sound
  <2>2. CASE e.do # "status"
    BY <1>3, <1>4, <1>5, <2>2
  <2>3. QED  BY <2>1, <2>2
<1>7. Fits(e) /\ e.do \in Durable /\ Otherwise(e) = <<{Free(r)}>>
  BY <1>1, <1>4, <1>5 DEF Fits, Durable, Otherwise, Vacant
<1>8. /\ Base' /\ up' = TRUE /\ UNCHANGED <<provided, proving, outside>>
      /\ Succeeds(e) \/ Misses(e)
  BY <1>6, <1>7, CommitAt
<1>9. todo' = <<{Free(r)}>>
  BY <1>4, <1>7, <1>8 DEF Succeeds, Misses
<1>10. Stopped'
  <2>1. CASE Misses(e)
    BY <1>2, <1>8, <2>1, CalmStays
  <2>2. CASE Succeeds(e)
    BY <1>5, <2>2, ApplyFrame DEF Succeeds, Stopped
  <2>3. QED  BY <1>8, <2>1, <2>2
<1>11. Launching'
  BY <1>1, <1>8, <1>9, <1>10, FreeIsNext
<1>12. QED  BY <1>8, <1>11 DEF HandlerInv

\* A process that is gone leaves the journal and no claim of its own.
LEMMA GoneKeeps ==
  ASSUME Base, Gone, faults' \in 0..MaxFaults
  PROVE  Base' /\ HandlerInv'
<1>1. /\ UNCHANGED <<projection, poisoned, tail, checks, sent>>
      /\ managed' = {} /\ recovered' = {} /\ announced' = {} /\ channel' = {}
      /\ proving' = {} /\ lease' \in {NoRun, Other} /\ todo' = <<>> /\ up' = FALSE
      /\ inflight' = [a \in Attention |-> 0]
  BY DEF Gone
<1>2. inflight' \in [Attention -> 0..MaxAttempt]
  BY <1>1, BoundAssumption
<1>3. MemoryTypeOK'
  BY <1>1, <1>2 DEF Base, MemoryTypeOK
<1>4. WorkInv'
  BY <1>1 DEF WorkInv
<1>5. Base'
  BY <1>1, <1>3, <1>4, BaseStays
<1>6. Down'
  BY <1>1, NoneAssumption, OtherAssumption DEF Down, Vacant
<1>7. QED  BY <1>1, <1>5, <1>6 DEF HandlerInv

\* A shutdown records the answers in flight and exits.
LEMMA LeavingKeeps ==
  ASSUME ManagedInv, up = TRUE, Leaving, NEW e \in Head(todo), todo # <<>>, Do(e)
  PROVE  Base' /\ HandlerInv'
<1>1. Base
  BY DEF ManagedInv, Base
<1>2. CASE todo = <<{Exit}>>
  <2>1. e = Exit
    BY <1>2, RestOne
  <2>2. ExitStep(e)
    BY <2>1, StepOf DEF Exit
  <2>3. Gone /\ faults' \in 0..MaxFaults
    BY <1>1, <2>2 DEF ExitStep, Base, MemoryTypeOK
  <2>4. QED  BY <1>1, <2>3, GoneKeeps
<1>3. ASSUME NEW U \in SUBSET Lost, U # {}, todo = <<U, {Exit}>>
      PROVE  Base' /\ HandlerInv'
  <2>1. /\ e \in U
        /\ \/ Rest(e) = <<{Exit}>>
           \/ U \ {e} # {} /\ Rest(e) = <<U \ {e}, {Exit}>>
    BY <1>3, RestOfLoop
  <2>2. e.do = "unknown"
    BY <2>1 DEF Lost, Unknown
  <2>3. Sound(e) /\ Fits(e) /\ e.do \in Durable /\ Otherwise(e) = Rest(e)
    BY <2>2 DEF Sound, Fits, Durable, Otherwise
  <2>4. Base' /\ up' = TRUE /\ (Succeeds(e) \/ Misses(e))
    BY <2>3, CommitAt
  <2>5. todo' = Rest(e)
    BY <2>3, <2>4 DEF Succeeds, Misses
  <2>6. U \ {e} \in SUBSET Lost
    OBVIOUS
  <2>7. Leaving'
    BY <2>1, <2>5, <2>6 DEF Leaving
  <2>8. QED  BY <2>4, <2>7 DEF HandlerInv
<1>4. QED  BY <1>2, <1>3 DEF Leaving

\* After a restart the run is resumed or blocked.
LEMMA RecoveringKeeps ==
  ASSUME ManagedInv, up = TRUE, Recovering, NEW e \in Head(todo), todo # <<>>, Do(e)
  PROVE  Base' /\ HandlerInv'
<1>1. /\ Vacant /\ lease \notin Run
      /\ Base /\ MemoryTypeOK /\ WorkInv /\ RunlessIsNew /\ run \in Run \cup {NoRun}
  BY DEF Recovering, ManagedInv, Base, JournalInv, IInv, TypeOK
<1>2. Balanced /\ announced = {} /\ recovered = {}
  BY <1>1 DEF Balanced, Vacant, MemoryTypeOK
<1>3. CASE todo = <<{Recover}>>
  <2>1. e = Recover
    BY <1>3, RestOne
  <2>2. RecoverStep(e)
    BY <2>1, StepOf DEF Recover
  <2>3. UNCHANGED <<projection, up, poisoned, tail, faults, announced, channel,
                    inflight, proving, checks, sent>>
    BY <2>2 DEF RecoverStep
  <2>4. CASE /\ run = NoRun \/ status \notin {"preparing", "active"}
             /\ todo' = <<>> /\ UNCHANGED <<managed, recovered, lease>>
    <3>1. Stopped
      BY <1>1, <2>4 DEF Stopped, RunlessIsNew
    <3>2. Calm
      BY <1>2, <3>1 DEF Calm, Tended, Greeted
    <3>3. MemoryTypeOK' /\ WorkInv'
      BY <1>1, <2>3, <2>4 DEF MemoryTypeOK, WorkInv, projection, mission, work
    <3>4. Base' /\ Calm'
      BY <1>1, <2>3, <2>4, <3>2, <3>3, BaseStays, CalmKept
    <3>5. QED  BY <2>3, <2>4, <3>4 DEF HandlerInv, Entering
  <2>5. CASE /\ run # NoRun /\ todo' = <<{Transition(run, "blocked")}>>
             /\ UNCHANGED <<managed, recovered, lease>>
    <3>1. MemoryTypeOK' /\ WorkInv'
      BY <1>1, <2>3, <2>5 DEF MemoryTypeOK, WorkInv, projection, mission, work
    <3>2. Base'
      BY <1>1, <2>3, <3>1, BaseStays
    <3>3. Recovering'
      BY <1>1, <2>3, <2>5 DEF Recovering, Vacant, projection, mission, work
    <3>4. QED  BY <2>3, <3>2, <3>3 DEF HandlerInv
  <2>6. CASE /\ status = "active" /\ run # NoRun /\ lease' = run
             /\ managed' = managed \cup {run} /\ recovered' = recovered \cup {run}
             /\ todo' = <<>>
    <3>1. run \in Run /\ managed' = {run} /\ recovered' = {run} /\ proving = {} /\ run' = run
          /\ status' = "active"
      BY <1>1, <1>2, <2>3, <2>6 DEF Vacant, projection, mission, work
    <3>2. MemoryTypeOK'
      BY <1>1, <1>2, <2>3, <2>6, <3>1 DEF MemoryTypeOK
    <3>3. WorkInv'
      BY <2>3, <3>1 DEF WorkInv
    <3>4. Base'
      BY <1>1, <2>3, <3>2, <3>3, BaseStays
    <3>5. Calm'
      BY <1>2, <2>3, <2>6, <3>1 DEF Calm, Balanced, Tended, Greeted
    <3>6. QED  BY <2>3, <2>6, <3>4, <3>5 DEF HandlerInv, Entering
  <2>7. QED  BY <2>2, <2>4, <2>5, <2>6 DEF RecoverStep
<1>4. CASE run # NoRun /\ todo = <<{Transition(run, "blocked")}>>
  <2>1. e = Transition(run, "blocked") /\ Rest(e) = <<>>
    BY <1>4, RestOne
  <2>2. e.do = "status" /\ e.to = "blocked"
    BY <2>1 DEF Transition
  <2>3. Sound(e) /\ Fits(e) /\ e.do \in Durable /\ Otherwise(e) = Rest(e)
    BY <1>1, <2>2 DEF Sound, Fits, Durable, Otherwise, Vacant
  <2>4. /\ Base' /\ up' = TRUE /\ UNCHANGED <<provided, proving, outside>>
        /\ Succeeds(e) \/ Misses(e)
    BY <2>3, CommitAt
  <2>5. Stopped' /\ todo' = <<>>
    BY <1>1, <2>1, <2>3, <2>4, TransitionStops DEF Succeeds, Misses
  <2>6. Balanced' /\ announced' = {}
    BY <1>2, <2>4 DEF Balanced, provided, outside
  <2>7. Entering'
    BY <2>5, <2>6 DEF Entering, Calm, Tended, Greeted
  <2>8. QED  BY <2>4, <2>7 DEF HandlerInv
<1>5. QED  BY <1>3, <1>4 DEF Recovering

\* A step of the current handler.
LEMMA StepKeeps == ASSUME ManagedInv, Step PROVE ManagedInv'
<1>1. up /\ todo # <<>> /\ \E e \in Head(todo) : Do(e)
  BY StepHasEffect
<1>2. PICK e \in Head(todo) : Do(e)
  BY <1>1
<1>3. HandlerInv /\ up = TRUE
  BY <1>1 DEF ManagedInv, HandlerInv
<1>4. Base' /\ HandlerInv'
  BY <1>1, <1>2, <1>3, EnteringKeeps, ContinuingKeeps, ClaimingKeeps, ClaimedKeeps,
     LaunchingKeeps, AnsweringKeeps, AskingKeeps, GreetingKeeps, ReviewingKeeps,
     EndingKeeps, ProvingKeeps, ConcludingKeeps, LeavingKeeps, RecoveringKeeps
  DEF HandlerInv
<1>5. QED  BY <1>4 DEF ManagedInv, Base

(***************************************************************************)
(* The beginnings of the handlers.                                         *)
(***************************************************************************)
\* Between two handlers.
LEMMA IdleIsCalm ==
  ASSUME ManagedInv, Idle
  PROVE  Calm /\ up = TRUE /\ Base /\ MemoryTypeOK /\ WorkInv
<1>1. up = TRUE /\ todo = <<>>
  BY DEF ManagedInv, HandlerInv, Idle
<1>2. ~Continuing /\ ~Claiming /\ ~Claimed /\ ~Launching
  BY <1>1 DEF Continuing, Claiming, Claimed, Launching
<1>3. ~Answering /\ ~Asking /\ ~Greeting /\ ~Reviewing /\ ~Ending
  BY <1>1 DEF Answering, Asking, Greeting, Reviewing, Ending
<1>4. ~Proving /\ ~Concluding /\ ~Leaving /\ ~Recovering
  BY <1>1 DEF Proving, Concluding, Leaving, Recovering
<1>5. Entering
  BY <1>1, <1>2, <1>3, <1>4 DEF ManagedInv, HandlerInv
<1>6. QED  BY <1>1, <1>5 DEF Entering, ManagedInv, Base

\* A handler that begins without touching what the server holds.
LEMMA BeginKeeps ==
  ASSUME ManagedInv, NEW q, Begin(q), UNCHANGED <<provided, proving>>
  PROVE  /\ Base' /\ Calm' /\ up' = TRUE /\ todo' = q
         /\ UNCHANGED <<projection, poisoned, managed, recovered, announced, channel,
                        inflight, proving, lease, sent>>
         /\ Calm /\ MemoryTypeOK /\ WorkInv /\ Base
<1>1. Calm /\ up = TRUE /\ Base /\ MemoryTypeOK /\ WorkInv
  BY IdleIsCalm DEF Begin
<1>2. /\ todo' = q
      /\ UNCHANGED <<projection, up, poisoned, tail, faults, checks, lease, sent, managed,
                     recovered, announced, channel, inflight, proving>>
  BY DEF Begin, outside, provided
<1>3. MemoryTypeOK' /\ WorkInv'
  BY <1>1, <1>2 DEF MemoryTypeOK, WorkInv, projection, mission, work
<1>4. Base' /\ Calm'
  BY <1>1, <1>2, <1>3, BaseStays, CalmKept
<1>5. QED  BY <1>1, <1>2, <1>4

\* Create and Configure begin.
LEMMA CreateKeeps == ASSUME ManagedInv, Create \/ Configure PROVE ManagedInv'
<1>1. PICK q \in {<<{Created}>>, <<{Configured}>>} : Begin(q) /\ UNCHANGED <<provided, proving>>
  BY DEF Create, Configure
<1>2. Base' /\ Calm' /\ up' = TRUE /\ todo' = q
  BY <1>1, BeginKeeps
<1>3. QED  BY <1>1, <1>2 DEF ManagedInv, Base, HandlerInv, Entering

\* Start begins.
LEMMA StartKeeps ==
  ASSUME ManagedInv, NEW r \in Run, NEW v \in Provider, Start(r, v)
  PROVE  ManagedInv'
<1> DEFINE q == <<{Claim(r)}, {Started(r, v)}, {Launch(r)}>>
<1>1. Begin(q) /\ UNCHANGED <<provided, proving>> /\ run = NoRun /\ status = "draft"
  BY DEF Start
<1>2. /\ Base' /\ Calm' /\ up' = TRUE /\ todo' = q /\ UNCHANGED <<projection, managed>>
      /\ MemoryTypeOK /\ WorkInv
  BY <1>1, BeginKeeps
<1>3. managed' = {} /\ Balanced' /\ Stopped'
  BY <1>1, <1>2, NoneAssumption
  DEF MemoryTypeOK, WorkInv, Calm, Stopped, projection, mission
<1>4. Claiming'
  BY <1>2, <1>3 DEF Claiming
<1>5. QED  BY <1>2, <1>4 DEF ManagedInv, Base, HandlerInv

\* Continue begins.
LEMMA ContinueKeeps ==
  ASSUME ManagedInv, NEW r \in Run, NEW v \in Provider, Continue(r, v)
  PROVE  ManagedInv'
<1> DEFINE q == <<{Drop(run)}, {Claim(r)}, {Continued(r, v)}, {Launch(r)}>>
<1>1. /\ Begin(q) /\ UNCHANGED <<provided, proving>> /\ run # NoRun
      /\ status \in {"blocked", "failed", "review", "ready"}
  BY DEF Continue
<1>2. /\ Base' /\ Calm' /\ up' = TRUE /\ todo' = q /\ UNCHANGED projection
  BY <1>1, BeginKeeps
<1>3. run' = run /\ run \in Run /\ Stopped'
  BY <1>1, <1>2
  DEF ManagedInv, JournalInv, IInv, TypeOK, Stopped, projection, mission, work
<1>4. Continuing'
  BY <1>2, <1>3 DEF Continuing
<1>5. QED  BY <1>2, <1>4 DEF ManagedInv, Base, HandlerInv

\* Respond begins.
LEMMA RespondKeeps ==
  ASSUME ManagedInv, NEW a \in Attention, NEW n \in Attempt, Respond(a, n)
  PROVE  ManagedInv'
<1> DEFINE q == <<{Requested(a, n)}, {Send(a, n)}>>
<1>1. Begin(q) /\ UNCHANGED <<provided, proving>> /\ Asker[a] \in managed
  BY DEF Respond
<1>2. Base' /\ Calm' /\ up' = TRUE /\ todo' = q /\ UNCHANGED managed
  BY <1>1, BeginKeeps
<1>3. Answering'
  BY <1>1, <1>2 DEF Answering
<1>4. QED  BY <1>2, <1>3 DEF ManagedInv, Base, HandlerInv

\* A provider asks, or has applied an answer.
LEMMA AttentionKeeps ==
  ASSUME ManagedInv, NEW a \in Attention, AttentionRequested(a) \/ ResponseResolved(a)
  PROVE  ManagedInv'
<1>1. CASE AttentionRequested(a)
  <2> DEFINE q == <<{Opened(a)}, {Offer(a)}>>
  <2>1. Begin(q) /\ UNCHANGED <<provided, proving>> /\ Asker[a] \in announced
    BY <1>1 DEF AttentionRequested
  <2>2. Base' /\ Calm' /\ up' = TRUE /\ todo' = q /\ UNCHANGED managed /\ MemoryTypeOK
    BY <2>1, BeginKeeps
  <2>3. Asking'
    BY <2>1, <2>2 DEF Asking, MemoryTypeOK
  <2>4. QED  BY <2>2, <2>3 DEF ManagedInv, Base, HandlerInv
<1>2. CASE ResponseResolved(a)
  <2> DEFINE n == inflight[a]
             q == <<{Acknowledged(a, n)}, {Settle(a)}>>
  <2>1. Begin(q) /\ UNCHANGED <<provided, proving>> /\ n # 0
    BY <1>2 DEF ResponseResolved
  <2>2. Base' /\ Calm' /\ up' = TRUE /\ todo' = q /\ MemoryTypeOK
    BY <2>1, BeginKeeps
  <2>3. n \in Attempt
    BY <2>1, <2>2, BoundAssumption DEF MemoryTypeOK, Attempt
  <2>4. Asking'
    BY <2>2, <2>3 DEF Asking
  <2>5. QED  BY <2>2, <2>4 DEF ManagedInv, Base, HandlerInv
<1>3. QED  BY <1>1, <1>2

\* The answers in flight have attempts.
LEMMA UnknownsAreLost ==
  ASSUME MemoryTypeOK, NEW r PROVE Unknowns(r) \in SUBSET Lost
<1>1. \A a \in Attention : inflight[a] # 0 => inflight[a] \in Attempt
  BY BoundAssumption DEF MemoryTypeOK, Attempt
<1>2. QED  BY <1>1 DEF Unknowns, Lost, Attentions

\* The places of a handler that ends a run.
LEMMA EndingBegins ==
  ASSUME ManagedInv, NEW r \in managed, NEW to \in {"blocked", "failed"},
         NEW U \in SUBSET Lost,
         Begin(<<{Transition(r, to)}>> \o Then(U, <<{Drop(r)}>>)),
         UNCHANGED <<provided, proving>>
  PROVE  ManagedInv'
<1> DEFINE q == <<{Transition(r, to)}>> \o Then(U, <<{Drop(r)}>>)
<1>1. Base' /\ Calm' /\ up' = TRUE /\ todo' = q /\ UNCHANGED managed
  BY BeginKeeps
<1>2. CASE U = {}
  <2>1. q = <<{Transition(r, to)}, {Drop(r)}>>
    BY <1>2, JoinTwo DEF Then
  <2>2. Ending'
    BY <1>1, <2>1 DEF Ending, Calm
  <2>3. QED  BY <1>1, <2>2 DEF ManagedInv, Base, HandlerInv
<1>3. CASE U # {}
  <2>1. Then(U, <<{Drop(r)}>>) = <<U, {Drop(r)}>>
    BY <1>3, JoinTwo DEF Then
  <2>2. q = <<{Transition(r, to)}, U, {Drop(r)}>>
    BY <2>1, JoinThree
  <2>3. Ending'
    BY <1>1, <1>3, <2>2 DEF Ending, Calm
  <2>4. QED  BY <1>1, <2>3 DEF ManagedInv, Base, HandlerInv
<1>4. QED  BY <1>2, <1>3

\* A turn ends or the connection is lost.
LEMMA TurnKeeps ==
  ASSUME ManagedInv, NEW r \in Run, TurnCompleted(r) \/ TransportFailed(r)
  PROVE  ManagedInv'
<1>0. UNCHANGED <<provided, proving>> /\ Idle
  BY DEF TurnCompleted, TransportFailed, Begin
<1>1. Calm /\ MemoryTypeOK
  BY <1>0, IdleIsCalm
<1>2. r \in managed /\ Unknowns(r) \in SUBSET Lost
  BY <1>1, UnknownsAreLost DEF TurnCompleted, TransportFailed, MemoryTypeOK
<1>3. CASE TransportFailed(r)
  BY <1>0, <1>2, <1>3, EndingBegins DEF TransportFailed
<1>4. CASE TurnCompleted(r)
  <2>1. r \in announced /\ (status # "preparing" \/ Closing)
    BY <1>1, <1>4 DEF TurnCompleted, Calm, Greeted
  <2>2. ASSUME NEW x \in {Prove(r), Drop(r)}, Begin(<<{Transition(r, "review")}, {x}>>)
        PROVE  ManagedInv'
    <3>1. /\ Base' /\ Calm' /\ up' = TRUE /\ todo' = <<{Transition(r, "review")}, {x}>>
          /\ UNCHANGED <<projection, poisoned, managed>>
      BY <1>0, <2>2, BeginKeeps
    <3>2. (status # "preparing" \/ Closing)'
      BY <2>1, <3>1 DEF Closing, projection, mission
    <3>3. Reviewing'
      BY <1>2, <2>2, <3>1, <3>2 DEF Reviewing, Calm
    <3>4. QED  BY <3>1, <3>3 DEF ManagedInv, Base, HandlerInv
  <2>3. CASE Begin(<<{Transition(r, "blocked")}, {Drop(r)}>>)
    <3>1. /\ Base' /\ Calm' /\ up' = TRUE /\ UNCHANGED managed
          /\ todo' = <<{Transition(r, "blocked")}, {Drop(r)}>>
      BY <1>0, <2>3, BeginKeeps
    <3>2. Ending'
      BY <1>2, <3>1 DEF Ending, Calm
    <3>3. QED  BY <3>1, <3>2 DEF ManagedInv, Base, HandlerInv
  <2>4. CASE Begin(<<{Transition(r, "failed")}>> \o Then(Unknowns(r), <<{Drop(r)}>>))
    BY <1>0, <1>2, <2>4, EndingBegins
  <2>5. CASE Begin(<<{Transition(r, "review")}, {IF checks THEN Prove(r) ELSE Drop(r)}>>)
    <3>1. (IF checks THEN Prove(r) ELSE Drop(r)) \in {Prove(r), Drop(r)}
      OBVIOUS
    <3>2. QED  BY <2>2, <2>5, <3>1
  <2>6. QED  BY <1>4, <2>3, <2>4, <2>5 DEF TurnCompleted
<1>5. QED  BY <1>3, <1>4

\* The provider reports its session.
LEMMA ReadyKeeps ==
  ASSUME ManagedInv, NEW r \in Run, NEW s \in Session, Ready(r, s)
  PROVE  ManagedInv'
<1>0. Idle
  BY DEF Ready, Begin
<1>1. Calm /\ up = TRUE /\ Base /\ MemoryTypeOK /\ WorkInv
  BY <1>0, IdleIsCalm
<1>2. /\ r \in managed /\ announced' = announced \cup {r}
      /\ UNCHANGED <<projection, up, poisoned, tail, faults, checks, lease, sent, managed,
                     recovered, channel, inflight, proving>>
      /\ \/ todo' = <<>> /\ status = "active"
         \/ todo' = <<{Bound(r, s)}>>
  BY DEF Ready, Begin, outside
<1>3. MemoryTypeOK' /\ WorkInv'
  BY <1>1, <1>2 DEF MemoryTypeOK, WorkInv, projection, mission, work
<1>4. Base' /\ Balanced' /\ Tended'
  BY <1>1, <1>2, <1>3, BaseStays
  DEF Calm, Balanced, Tended, Stopped, Closing, projection, mission, work
<1>5. CASE todo' = <<>> /\ status = "active"
  <2>1. Entering'
    BY <1>2, <1>4, <1>5 DEF Entering, Calm, Greeted, projection, mission
  <2>2. QED  BY <1>1, <1>2, <1>4, <2>1 DEF ManagedInv, Base, HandlerInv
<1>6. CASE todo' = <<{Bound(r, s)}>>
  <2>1. Greeting'
    BY <1>2, <1>4, <1>6 DEF Greeting
  <2>2. QED  BY <1>1, <1>2, <1>4, <2>1 DEF ManagedInv, Base, HandlerInv
<1>7. QED  BY <1>2, <1>5, <1>6

\* The second proof begins.
LEMMA CloseKeeps == ASSUME ManagedInv, Close PROVE ManagedInv'
<1>1. Calm /\ up = TRUE /\ Base /\ MemoryTypeOK /\ WorkInv
  BY IdleIsCalm DEF Close
<1>2. /\ todo = <<>> /\ status = "ready" /\ run # NoRun
      /\ run \notin proving /\ run \notin managed /\ lease' = run
      /\ proving' = proving \cup {run}
      /\ UNCHANGED <<projection, up, todo, poisoned, tail, faults, managed, recovered,
                     announced, channel, inflight, checks, sent>>
  BY DEF Close, Idle, process, provided
<1>3. run \in Run /\ managed = {} /\ proving' = {run} /\ announced = {}
  BY <1>1, <1>2 DEF WorkInv, MemoryTypeOK, Base, JournalInv, IInv, TypeOK
<1>4. MemoryTypeOK'
  BY <1>1, <1>2, <1>3 DEF MemoryTypeOK
<1>5. WorkInv' /\ status' = "ready"
  BY <1>2, <1>3 DEF WorkInv, projection, mission, work
<1>6. Base'
  BY <1>1, <1>2, <1>4, <1>5, BaseStays
<1>7. Entering'
  BY <1>2, <1>3, <1>5 DEF Entering, Calm, Balanced, Tended, Stopped, Greeted
<1>8. QED  BY <1>1, <1>2, <1>6, <1>7 DEF ManagedInv, Base, HandlerInv

\* The worker reports.
LEMMA ProofFinishedKeeps ==
  ASSUME ManagedInv, NEW r \in Run, ProofFinished(r)
  PROVE  ManagedInv'
<1>0. Idle
  BY DEF ProofFinished, Begin
<1>1. Calm /\ up = TRUE /\ Base /\ MemoryTypeOK /\ WorkInv
  BY <1>0, IdleIsCalm
<1>2. /\ run = r /\ managed = {} /\ proving = {r} /\ lease = r
      /\ status \in {"review", "ready"}
  BY <1>1 DEF ProofFinished, WorkInv, MemoryTypeOK, Calm, Balanced
<1>3. /\ proving' = {} /\ managed' = {} /\ lease' = r
      /\ UNCHANGED <<projection, up, poisoned, tail, faults, checks, sent, managed,
                     recovered, announced, channel, inflight>>
  BY <1>2 DEF ProofFinished, Begin, provided, outside
<1>4. MemoryTypeOK' /\ WorkInv'
  BY <1>1, <1>2, <1>3 DEF MemoryTypeOK, WorkInv
<1>5. Base'
  BY <1>1, <1>3, <1>4, BaseStays
<1>6. /\ Vacant' /\ lease' = r /\ run' = r /\ status' \in {"review", "ready"} /\ Stopped'
  BY <1>2, <1>3 DEF Vacant, Stopped, projection, mission, work
<1>7. CASE todo' = <<{Free(r)}>>
  <2>1. Launching'
    BY <1>6, <1>7 DEF Launching
  <2>2. QED  BY <1>1, <1>3, <1>5, <2>1 DEF ManagedInv, Base, HandlerInv
<1>8. ASSUME NEW passed \in SUBSET Check, NEW u \in Subject, NEW fresh \in BOOLEAN,
             Begin(<<{Packed(r)}>>
                   \o Then({Checked(r, c, IF c \in passed THEN "passed" ELSE "failed") : c \in Check},
                           <<{Conclude(r, u, fresh /\ passed = Check)}, {Free(r)}>>))
      PROVE  ManagedInv'
  <2> DEFINE C == {Checked(r, c, IF c \in passed THEN "passed" ELSE "failed") : c \in Check}
             ok == fresh /\ passed = Check
             end == <<{Conclude(r, u, ok)}, {Free(r)}>>
  <2>1. todo' = <<{Packed(r)}>> \o Then(C, end)
    BY <1>8 DEF Begin
  <2>2. C \in SUBSET Results(r) /\ ok \in BOOLEAN
    BY DEF Results
  <2>3. Honest(r, C, ok)'
    <3>1. SUFFICES ASSUME ok
                   PROVE  /\ \A e \in C : e.result = "passed"
                          /\ \A c \in Check : Checked(r, c, "passed") \in C
      BY DEF Honest
    <3>2. \A c \in Check : c \in passed
      BY <3>1
    <3>3. \A c \in Check : Checked(r, c, "passed").result = "passed"
      BY DEF Checked
    <3>4. QED  BY <3>2, <3>3
  <2> HIDE DEF C, ok
  <2>4. CASE C = {}
    <3>1. todo' = <<{Packed(r)}, {Conclude(r, u, ok)}, {Free(r)}>>
      BY <2>1, <2>4, JoinThree DEF Then
    <3>2. Proving'
      BY <1>6, <2>2, <2>3, <2>4, <3>1 DEF Proving
    <3>3. QED  BY <1>1, <1>3, <1>5, <3>2 DEF ManagedInv, Base, HandlerInv
  <2>5. CASE C # {}
    <3>1. Then(C, end) = <<C, {Conclude(r, u, ok)}, {Free(r)}>>
      BY <2>5, JoinThree DEF Then
    <3>2. todo' = <<{Packed(r)}, C, {Conclude(r, u, ok)}, {Free(r)}>>
      BY ZenonT(40), <2>1, <3>1, JoinFour
    <3>3. Proving'
      BY <1>6, <2>2, <2>3, <2>5, <3>2 DEF Proving
    <3>4. QED  BY <1>1, <1>3, <1>5, <3>3 DEF ManagedInv, Base, HandlerInv
  <2>6. QED  BY <2>4, <2>5
<1>9. CASE Begin(<<{Free(r)}>>)
  BY <1>7, <1>9 DEF Begin
<1>10. QED  BY <1>2, <1>8, <1>9 DEF ProofFinished

\* A shutdown begins.
LEMMA ShutdownKeeps == ASSUME ManagedInv, Shutdown PROVE ManagedInv'
<1> DEFINE U == UNION {Unknowns(r) : r \in managed}
           q == Then(U, <<{Exit}>>)
<1>1. Begin(q) /\ UNCHANGED <<provided, proving>>
  BY DEF Shutdown
<1>2. Base' /\ up' = TRUE /\ todo' = q /\ MemoryTypeOK
  BY <1>1, BeginKeeps
<1>3. U \in SUBSET Lost
  BY <1>2, UnknownsAreLost
<1> HIDE DEF U
<1>4. Leaving'
  <2>1. CASE U = {}
    BY <1>2, <2>1 DEF Leaving, Then
  <2>2. CASE U # {}
    <3>1. todo' = <<U, {Exit}>>
      BY <1>2, <2>2, JoinTwo DEF Then
    <3>2. QED  BY <1>3, <2>2, <3>1 DEF Leaving
  <2>3. QED  BY <2>1, <2>2
<1>5. QED  BY <1>2, <1>4 DEF ManagedInv, Base, HandlerInv

\* The process dies anywhere.
LEMMA CrashKeeps == ASSUME ManagedInv, Crash PROVE ManagedInv'
<1>1. Base /\ Gone /\ faults \in 0..MaxFaults /\ faults < MaxFaults /\ faults' = faults + 1
  BY DEF Crash, ManagedInv, Base, MemoryTypeOK
<1>2. faults' \in 0..MaxFaults
  BY <1>1, FaultsAssumption
<1>3. QED  BY <1>1, <1>2, GoneKeeps DEF ManagedInv, Base

\* A restart replays the frame that a failed commit may have left behind.
LEMMA BootKeeps == ASSUME ManagedInv, Boot PROVE ManagedInv'
<1>1. Base /\ Down
  BY DEF ManagedInv, Base, HandlerInv, Boot
<1>2. /\ up' = TRUE /\ poisoned' = FALSE /\ tail' = {} /\ todo' = <<{Recover}>>
      /\ UNCHANGED <<faults, managed, recovered, announced, channel, inflight, proving,
                     checks, lease, sent>>
  BY DEF Boot, provided, outside
<1>3. JournalInv'
  <2>1. CASE tail = {}
    <3>1. UNCHANGED projection
      BY <2>1 DEF Boot
    <3>2. SentIsRecorded'
      BY <1>1, <1>2, <3>1 DEF Base, JournalInv, SentIsRecorded, projection, mission, answers
    <3>3. QED  BY <1>1, <3>1, <3>2, JournalStays DEF Base
  <2>2. CASE tail # {}
    <3>1. PICK e \in tail : Apply(e)
      BY <2>2 DEF Boot
    <3>2. e \in Effect /\ Sound(e)
      BY <1>1 DEF Base, TailInv
    <3>3. QED  BY <1>1, <1>2, <3>1, <3>2, ApplyKeepsJournal DEF Base
  <2>3. QED  BY <2>1, <2>2
<1>4. MemoryTypeOK'
  BY <1>1, <1>2 DEF Base, MemoryTypeOK
<1>5. TailInv'
  BY <1>2 DEF TailInv
<1>6. Vacant' /\ lease' \notin Run /\ WorkInv'
  BY <1>1, <1>2 DEF Down, Vacant, WorkInv
<1>7. Recovering'
  BY <1>2, <1>6 DEF Recovering
<1>8. QED  BY <1>2, <1>3, <1>4, <1>5, <1>6, <1>7 DEF ManagedInv, HandlerInv

\* Neither a stuttering step nor another mission's claim moves a handler.
LEMMA HandlerStays ==
  ASSUME ManagedInv,
         UNCHANGED <<projection, process, provided, proving, checks, sent>>,
         \A r \in Run : lease' = r <=> lease = r,
         lease' \in Run \cup {NoRun, Other}
  PROVE  ManagedInv'
<1>1. /\ UNCHANGED <<sequence, status, configured, run, attention, response, evidence, pack, ready>>
      /\ UNCHANGED <<up, todo, poisoned, tail, faults, managed, recovered, announced,
                     channel, inflight>>
  BY DEF projection, mission, work, answers, proof, process, provided
<1>2. Base /\ HandlerInv
  BY DEF ManagedInv, Base
<1>3. Base'
  <2>1. MemoryTypeOK' /\ WorkInv'
    BY <1>1, <1>2 DEF Base, MemoryTypeOK, WorkInv
  <2>2. QED  BY <1>1, <1>2, <2>1, BaseStays
<1>4. /\ Balanced' <=> Balanced
      /\ Vacant' <=> Vacant
      /\ Stopped' <=> Stopped
      /\ Closing' <=> Closing
      /\ Calm' <=> Calm
  <2>1. (Balanced' <=> Balanced) /\ (Vacant' <=> Vacant)
    BY <1>1 DEF Balanced, Vacant
  <2>2. (Stopped' <=> Stopped) /\ (Closing' <=> Closing)
    BY <1>1 DEF Stopped, Closing
  <2>3. Calm' <=> Calm
    BY <1>1, <2>1, <2>2 DEF Calm, Tended, Greeted
  <2>4. QED  BY <2>1, <2>2, <2>3
<1>5. \A e : Sound(e)' <=> Sound(e)
  BY SoundStays
<1>6. \A r, C, ok : Honest(r, C, ok)' <=> Honest(r, C, ok)
  BY <1>1 DEF Honest
<1>7. (Entering => Entering') /\ (Continuing => Continuing')
  BY <1>1, <1>4 DEF Entering, Continuing
<1>8. (Claiming => Claiming') /\ (Claimed => Claimed') /\ (Launching => Launching')
  BY <1>1, <1>4 DEF Claiming, Claimed, Launching
<1>9. (Answering => Answering') /\ (Asking => Asking')
  BY <1>1, <1>4 DEF Answering, Asking
<1>10. (Greeting => Greeting') /\ (Reviewing => Reviewing') /\ (Ending => Ending')
  BY <1>1, <1>4 DEF Greeting, Reviewing, Ending
<1>11. Proving => Proving'
  BY <1>1, <1>4, <1>6 DEF Proving
<1>12. Concluding => Concluding'
  BY <1>1, <1>4, <1>5 DEF Concluding
<1>13. (Leaving => Leaving') /\ (Recovering => Recovering') /\ (Down => Down')
  BY <1>1, <1>4 DEF Leaving, Recovering, Down
<1>14. HandlerInv'
  BY <1>1, <1>2, <1>7, <1>8, <1>9, <1>10, <1>11, <1>12, <1>13 DEF HandlerInv
<1>15. QED  BY <1>3, <1>14 DEF ManagedInv, Base

\* Another mission's claim comes and goes.
LEMMA OtherMissionKeeps == ASSUME ManagedInv, OtherMission PROVE ManagedInv'
<1>1. \A r \in Run : lease' = r <=> lease = r
  BY NoneAssumption, OtherAssumption DEF OtherMission
<1>2. /\ UNCHANGED <<projection, process, provided, proving, checks, sent>>
      /\ lease' \in Run \cup {NoRun, Other}
  BY DEF OtherMission
<1>3. QED  BY <1>1, <1>2, HandlerStays

\* The invariant holds at first.
LEMMA ManagedInitHolds == ManagedInit => ManagedInv
<1> SUFFICES ASSUME ManagedInit PROVE ManagedInv
  OBVIOUS
<1>1. Init /\ IInv
  BY InitHolds DEF ManagedInit
<1>2. /\ SentIsRecorded /\ ClosedOnEvidence /\ EvidenceHasRun /\ RunlessIsNew
  BY <1>1 DEF ManagedInit, Init, SentIsRecorded, ClosedOnEvidence, EvidenceHasRun, RunlessIsNew
<1>3. TailInv /\ WorkInv
  BY DEF ManagedInit, TailInv, WorkInv
<1>4. MemoryTypeOK
  <2>1. faults \in 0..MaxFaults /\ inflight \in [Attention -> 0..MaxAttempt]
        /\ sent \in [Attention -> Nat]
    BY FaultsAssumption, BoundAssumption DEF ManagedInit
  <2>2. QED  BY <2>1 DEF ManagedInit, MemoryTypeOK
<1>5. Entering /\ up = TRUE
  BY <1>1, NoneAssumption
  DEF ManagedInit, Init, Entering, Calm, Balanced, Tended, Stopped, Greeted
<1>6. QED  BY <1>1, <1>2, <1>3, <1>4, <1>5 DEF ManagedInv, JournalInv, HandlerInv

\* Every step keeps the invariant.
LEMMA ManagedNextKeeps == ManagedInv /\ [ManagedNext]_managedVars => ManagedInv'
<1> SUFFICES ASSUME ManagedInv, [ManagedNext]_managedVars PROVE ManagedInv'
  OBVIOUS
<1>1. CASE UNCHANGED managedVars
  <2>1. /\ UNCHANGED <<projection, process, provided, proving, checks, sent>>
        /\ lease' = lease
    BY <1>1 DEF managedVars, outside
  <2>2. lease \in Run \cup {NoRun, Other}
    BY DEF ManagedInv, MemoryTypeOK
  <2>3. QED  BY <2>1, <2>2, HandlerStays
<1>2. CASE ProviderEvent
  BY <1>2, TurnKeeps, ReadyKeeps, AttentionKeeps DEF ProviderEvent
<1>3. CASE UserRequest
  BY <1>3, CreateKeeps, CloseKeeps, StartKeeps, ContinueKeeps, RespondKeeps DEF UserRequest
<1>4. CASE ProofEnds
  BY <1>4, ProofFinishedKeeps DEF ProofEnds
<1>5. CASE Step \/ Shutdown \/ Crash \/ Boot \/ OtherMission
  BY <1>5, StepKeeps, ShutdownKeeps, CrashKeeps, BootKeeps, OtherMissionKeeps
<1>6. QED  BY <1>1, <1>2, <1>3, <1>4, <1>5 DEF ManagedNext

\* The inductive invariant of the server.
LEMMA ManagedInvariance == ManagedSpec => []ManagedInv
BY ManagedInitHolds, ManagedNextKeeps, PTL DEF ManagedSpec

-----------------------------------------------------------------------------
\* The server's maps, what is left of its handler and the frame of a failed
\* commit have their types after every step, fault and restart.
THEOREM ManagedTypeHolds == ManagedSpec => []ManagedTypeOK
<1>1. ManagedInv => ManagedTypeOK
  <2> SUFFICES ASSUME ManagedInv PROVE ManagedTypeOK
    OBVIOUS
  <2>1. TypeOK /\ MemoryTypeOK /\ HandlerInv /\ tail \in SUBSET Effect
    BY DEF ManagedInv, JournalInv, IInv, TailInv
  <2>2. todo \in Seq(SUBSET Effect)
    BY <2>1, HandlerTyped DEF Turn
  <2>3. up \in BOOLEAN
    BY <2>1 DEF HandlerInv
  <2>4. QED  BY <2>1, <2>2, <2>3 DEF ManagedTypeOK, MemoryTypeOK
<1>2. QED  BY <1>1, ManagedInvariance, PTL

\* handle_mission_respond_authorized commits the attempt before it sends it,
\* so wherever a commit fails or the process dies, an answer that reached a
\* provider is on record and is not sent again.
THEOREM SentIsRecordedHolds == ManagedSpec => []SentIsRecorded
<1>1. ManagedInv => SentIsRecorded  BY DEF ManagedInv, JournalInv
<1>2. QED  BY <1>1, ManagedInvariance, PTL

\* Every way a handler can end, and the recovery after a restart, leaves a
\* provider behind every mission shown as preparing or active, unless the
\* journal takes no more events.
THEOREM NoOrphanRunHolds == ManagedSpec => []NoOrphanRun
<1>1. ManagedInv => NoOrphanRun
  <2> SUFFICES ASSUME ManagedInv, Idle, ~poisoned, sequence < MaxSequence,
                      status \in {"preparing", "active"}
               PROVE  run \in managed
    BY DEF NoOrphanRun
  <2>1. Tended
    BY IdleIsCalm DEF Calm
  <2>2. sequence # MaxSequence
    BY BoundAssumption
  <2>3. QED  BY <2>1, <2>2 DEF Tended, Stopped, Closing
<1>2. QED  BY <1>1, ManagedInvariance, PTL

\* Between handlers the worktree's claim is held exactly for the provider or
\* the proof worker of the current run: no error path of a launch, a turn, a
\* proof or a restart leaks the claim or gives it up early.
THEOREM LeaseMatchesWorkHolds == ManagedSpec => []LeaseMatchesWork
<1>1. ManagedInv => LeaseMatchesWork
  <2> SUFFICES ASSUME ManagedInv PROVE LeaseMatchesWork
    OBVIOUS
  <2>1. managed \cup proving \subseteq {run} /\ managed \cap proving = {}
    BY DEF ManagedInv, WorkInv
  <2>2. ASSUME Idle PROVE {r \in Run : lease = r} = managed \cup proving
    <3>1. Balanced /\ managed \cup proving \subseteq Run
      BY <2>2, IdleIsCalm DEF Calm, MemoryTypeOK
    <3>2. QED  BY <3>1 DEF Balanced
  <2>3. QED  BY <2>1, <2>2 DEF LeaseMatchesWork
<1>2. QED  BY <1>1, ManagedInvariance, PTL

\* finalize_evidence_pack commits the pack, the result of every check and the
\* receipt one after the other; whichever of them fails, or is replayed by a
\* restart, a mission is verified with every question settled and closed on a
\* pack of its current run in which every check passed.
THEOREM ClosedOnEvidenceHolds == ManagedSpec => []ClosedOnEvidence
<1>1. ManagedInv => ClosedOnEvidence  BY DEF ManagedInv, JournalInv
<1>2. QED  BY <1>1, ManagedInvariance, PTL

\* A step of the server is an event of the projection or leaves it alone.
LEMMA StepIsEvent == ManagedInv /\ [ManagedNext]_managedVars => [Next]_projection
<1> SUFFICES ASSUME ManagedInv, [ManagedNext]_managedVars
             PROVE  Next \/ UNCHANGED projection
  OBVIOUS
<1>1. ASSUME NEW e \in Effect, Apply(e) PROVE Next
  BY <1>1, ApplyIsEvent, NowIsTime DEF Next
<1>2. CASE Step
  <2>1. PICK e \in Head(todo) : Do(e)
    BY <1>2, StepHasEffect
  <2>2. e \in Effect
    BY <1>2, HeadTyped, StepHasEffect
  <2>3. CASE CommitStep(e)
    BY <1>1, <2>2, <2>3 DEF CommitStep, Committed, Refused, CommitFails
  <2>4. CASE ~CommitStep(e)
    BY <2>1, <2>4 DEF Do, ClaimStep, LaunchStep, ChannelStep, SendStep, DropStep,
       FreeStep, ProveStep, ConcludeStep, RecoverStep, ExitStep, Gone
  <2>5. QED  BY <2>3, <2>4
<1>3. CASE ProviderEvent
  BY <1>3 DEF ProviderEvent, TurnCompleted, TransportFailed, Ready,
     AttentionRequested, ResponseResolved, Begin
<1>4. CASE UserRequest
  BY <1>4 DEF UserRequest, Create, Configure, Close, Start, Continue, Respond, Begin
<1>5. CASE ProofEnds \/ Shutdown
  BY <1>5 DEF ProofEnds, ProofFinished, Shutdown, Begin
<1>6. CASE Boot
  <2>1. tail \subseteq Effect
    BY DEF ManagedInv, TailInv
  <2>2. QED  BY <1>1, <1>6, <2>1 DEF Boot
<1>7. CASE Crash \/ OtherMission \/ UNCHANGED managedVars
  BY <1>7 DEF Crash, Gone, OtherMission, managedVars
<1>8. QED  BY <1>2, <1>3, <1>4, <1>5, <1>6, <1>7 DEF ManagedNext

\* The handlers, the recovery and the replay of a lost frame change a mission
\* only by events that MissionProjection::apply accepts, so all that is proved
\* of the projection holds of the server's missions.
THEOREM ManagedImplementsProjection == ManagedSpec => Spec
<1>1. ManagedInit => Init  BY DEF ManagedInit
<1>2. QED  BY <1>1, StepIsEvent, ManagedInvariance, PTL DEF ManagedSpec, Spec
=============================================================================
