--------------------------- MODULE AttentionInbox ---------------------------
(***************************************************************************)
(* The inbox of requests that need the user (src/src/mission/attention.rs): *)
(* ingesting provider events, deciding and answering, the response attempts *)
(* on the wire to the provider, their confirmation or failure, expiry and   *)
(* dismissal.  The inbox is a value that every operation maps to a new one; *)
(* a call that returns an error and the same inbox is a stuttering step.    *)
(* A caller stamps its call with a time not later than now.                 *)
(***************************************************************************)
EXTENDS Option, Naturals, Sequences, FiniteSets

CONSTANTS
    Event,        \* event ids; an item has the id of its first event
    Payload,      \* what an event says, see PayloadType
    Request,      \* identities of provider requests (generation included)
    MaxTime,      \* bound of the clock
    MaxAttempts   \* bound: responses sent for one item

Time == 0..MaxTime
Kind == {"PermissionRequest", "ProviderQuestion", "CommandFailed", "WorktreeConflict",
         "TurnComplete", "Disconnected", "SecurityWarning", "ManualVerification"}
Risk == {"Low", "Medium", "High", "Critical"}
PayloadType ==
    [kind: Kind, risk: Risk, request: Request \cup {None},
     native: BOOLEAN,        \* OpenPaneOnly, or not from a structured source
     created: Time, expires: Time \cup {None}]

ASSUME InboxAssumption ==
    /\ MaxTime \in Nat /\ MaxAttempts \in Nat
    /\ None \notin Nat /\ None \notin Request /\ None \notin Event
    /\ Payload \subseteq PayloadType

VARIABLES
    now,        \* the clock
    st,         \* item -> AttentionStatus, "absent" if there is no such item
    payload,    \* item -> its payload
    unread,     \* item -> unread
    since,      \* item -> time of the status PendingResponse or ReconciliationRequired
    attempts,   \* item -> response_attempts, each by its status
    seen,       \* seen_event_ids: event -> item
    index,      \* provider_requests: request -> item
    wire        \* external: item -> what became of each response sent

inbox == <<st, payload, unread, since, attempts, seen, index>>
inboxVars == <<now, inbox, wire>>

AttentionStatus == {"absent", "Open", "PendingResponse", "Resolved", "ReconciliationRequired",
           "Dismissed", "Expired"}
AttemptStatus == {"Pending", "Acknowledged", "DefinitelyNotApplied", "DeliveryUnknown"}
Live == {"Open", "PendingResponse"}
Unsettled == Live \cup {"ReconciliationRequired"}

Last(s) == s[Len(s)]
WithLast(s, x) == [s EXCEPT ![Len(s)] = x]
Past(i, at) == payload[i].expires # None /\ at >= payload[i].expires

(***************************************************************************)
(* AttentionInbox::ingest.  A known event id changes nothing, whether its   *)
(* payload agrees or not.                                                   *)
(***************************************************************************)
Reoccur(e, i) ==
    /\ unread' = [unread EXCEPT ![i] = @ \/ st[i] \in Live]
    /\ seen' = [seen EXCEPT ![e] = i]
    /\ UNCHANGED <<st, payload, since, attempts, index>>

Insert(e, p) ==
    /\ st' = [st EXCEPT ![e] = "Open"]
    /\ payload' = [payload EXCEPT ![e] = p]
    /\ unread' = [unread EXCEPT ![e] = TRUE]
    /\ seen' = [seen EXCEPT ![e] = e]
    /\ index' = IF p.request = None THEN index ELSE [index EXCEPT ![p.request] = e]
    /\ UNCHANGED <<since, attempts>>

Known(p) == p.request # None /\ index[p.request] # None
SameSemantics(p) == {i \in Event : st[i] \in Live /\ payload[i] = p}

ingest(e, p) ==
    /\ seen[e] = None
    /\ IF Known(p)
       THEN /\ payload[index[p.request]] = p       \* else ProviderRequestConflict
            /\ Reoccur(e, index[p.request])
       ELSE IF SameSemantics(p) # {} THEN \E i \in SameSemantics(p) : Reoccur(e, i) ELSE Insert(e, p)

Ingest(e, p) == ingest(e, p) /\ UNCHANGED <<now, wire>>

(* Mutant of Refresh: a pending response past its deadline counts as not applied. *)
RefreshReopening ==
    /\ st' = [i \in Event |-> IF st[i] \in Live /\ Past(i, now) THEN "Expired" ELSE st[i]]
    /\ attempts' = [i \in Event |->
                IF st[i] = "PendingResponse" /\ Past(i, now)
                THEN WithLast(attempts[i], "DefinitelyNotApplied")
                ELSE attempts[i]]
    /\ UNCHANGED <<now, payload, unread, since, seen, index, wire>>

(***************************************************************************)
(* AttentionInbox::refresh, over all items at once.                         *)
(***************************************************************************)
Refresh ==
    /\ st' = [i \in Event |->
                IF st[i] \in Live /\ Past(i, now)
                THEN IF st[i] = "Open" THEN "Expired" ELSE "ReconciliationRequired"
                ELSE st[i]]
    /\ since' = [i \in Event |-> IF st[i] = "PendingResponse" /\ Past(i, now) THEN now ELSE since[i]]
    /\ attempts' = [i \in Event |->
                IF st[i] = "PendingResponse" /\ Past(i, now) /\ Last(attempts[i]) = "Pending"
                THEN WithLast(attempts[i], "DeliveryUnknown")
                ELSE attempts[i]]
    /\ UNCHANGED <<now, payload, unread, seen, index, wire>>

(***************************************************************************)
(* AttentionInbox::decide and answer.  Both look at the deadline before     *)
(* they look at the status; both hand out an intent to open the pane when   *)
(* nothing can be sent, which leaves the inbox alone.                       *)
(***************************************************************************)
Expire(i, at) ==
    /\ st[i] \notin {"absent", "Expired"}
    /\ at >= payload[i].created
    /\ Past(i, at)
    /\ st' = [st EXCEPT ![i] = "Expired"]
    /\ UNCHANGED <<now, payload, unread, since, attempts, seen, index, wire>>

Respond(i, at) ==
    /\ Len(attempts[i]) < MaxAttempts
    /\ payload[i].request # None
    /\ st' = [st EXCEPT ![i] = "PendingResponse"]
    /\ since' = [since EXCEPT ![i] = at]
    /\ unread' = [unread EXCEPT ![i] = FALSE]
    /\ attempts' = [attempts EXCEPT ![i] = Append(@, "Pending")]
    /\ wire' = [wire EXCEPT ![i] = Append(@, "inflight")]
    /\ UNCHANGED <<now, payload, seen, index>>

Answerable(i, at) == st[i] = "Open" /\ at >= payload[i].created /\ ~Past(i, at)

decision_allowed(p, d) ==
    /\ p.kind = "PermissionRequest"
    /\ d \in {"ApproveForSession", "AllowForMission"} => p.risk \in {"Low", "Medium"}
    /\ d # "Answer"

decide(i, d, at) ==
    \/ Expire(i, at)
    \/ /\ Answerable(i, at)
       /\ ~payload[i].native
       /\ payload[i].risk = "Critical" => d = "Deny"
       /\ decision_allowed(payload[i], d)
       /\ Respond(i, at)

answer(i, at) ==
    \/ Expire(i, at)
    \/ /\ Answerable(i, at)
       /\ payload[i].kind = "ProviderQuestion"
       /\ ~payload[i].native
       /\ Respond(i, at)

(***************************************************************************)
(* AttentionInbox::confirm_response for the token of attempt n; repeated on *)
(* an acknowledged attempt it changes nothing.                              *)
(***************************************************************************)
IsLast(i, n) == n = Len(attempts[i])

confirm_response(i, n, at) ==
    /\ at >= payload[i].created
    /\ IsLast(i, n)
    /\ attempts[i][n] \in {"Pending", "DeliveryUnknown"}
    /\ st[i] \in {"PendingResponse", "ReconciliationRequired"}
    /\ at >= since[i]
    /\ attempts' = [attempts EXCEPT ![i] = WithLast(@, "Acknowledged")]
    /\ st' = [st EXCEPT ![i] = "Resolved"]
    /\ UNCHANGED <<now, payload, unread, since, seen, index, wire>>

(***************************************************************************)
(* AttentionInbox::fail_response with its disposition.                      *)
(***************************************************************************)
Reopened(i, at) == IF Past(i, at) THEN "Expired" ELSE "Open"

(* Mutant of fail_response: an unknown delivery reopens the item. *)
fail_responseReopening(i, n, disposition, at) ==
    /\ at >= payload[i].created
    /\ IsLast(i, n)
    /\ attempts[i][n] = "Pending"
    /\ st[i] = "PendingResponse"
    /\ at >= since[i]
    /\ attempts' = [attempts EXCEPT ![i] = WithLast(@, disposition)]
    /\ st' = [st EXCEPT ![i] = Reopened(i, at)]
    /\ since' = [since EXCEPT ![i] = at]
    /\ unread' = [unread EXCEPT ![i] = TRUE]
    /\ UNCHANGED <<now, payload, seen, index, wire>>

fail_response(i, n, disposition, at) ==
    /\ at >= payload[i].created
    /\ IsLast(i, n)
    /\ attempts[i][n] = "Pending"
    /\ st[i] = "PendingResponse"
    /\ at >= since[i]
    /\ attempts' = [attempts EXCEPT ![i] = WithLast(@, disposition)]
    /\ st' = [st EXCEPT ![i] = IF disposition = "DefinitelyNotApplied"
                               THEN Reopened(i, at) ELSE "ReconciliationRequired"]
    /\ since' = [since EXCEPT ![i] = at]
    /\ unread' = [unread EXCEPT ![i] = TRUE]
    /\ UNCHANGED <<now, payload, seen, index, wire>>

(***************************************************************************)
(* AttentionInbox::dismiss and mark_read.                                   *)
(***************************************************************************)
dismiss(i, at) ==
    /\ st[i] = "Open"
    /\ payload[i].kind = "TurnComplete"
    /\ at >= payload[i].created
    /\ st' = [st EXCEPT ![i] = "Dismissed"]
    /\ unread' = [unread EXCEPT ![i] = FALSE]
    /\ UNCHANGED <<now, payload, since, attempts, seen, index, wire>>

mark_read(i) ==
    /\ st[i] # "absent"
    /\ unread' = [unread EXCEPT ![i] = FALSE]
    /\ UNCHANGED <<now, st, payload, since, attempts, seen, index, wire>>

(* Mutant of effective_run_status: items under reconciliation do not count. *)
effective_run_statusLive(fallback) ==
    LET kinds == {payload[i].kind : i \in {j \in Event : st[j] \in Live}} IN
    IF "PermissionRequest" \in kinds THEN "NeedsApproval"
    ELSE IF "ProviderQuestion" \in kinds THEN "NeedsAnswer"
    ELSE IF kinds # {} THEN "Blocked" ELSE fallback

(***************************************************************************)
(* AttentionInbox::effective_run_status of the one session all items        *)
(* belong to: the most pressing kind of an item that is not closed.         *)
(***************************************************************************)
effective_run_status(fallback) ==
    LET kinds == {payload[i].kind : i \in {j \in Event : st[j] \in Unsettled}} IN
    IF "PermissionRequest" \in kinds \/ (kinds # {} /\ fallback = "NeedsApproval")
    THEN "NeedsApproval"
    ELSE IF "ProviderQuestion" \in kinds \/ (kinds # {} /\ fallback = "NeedsAnswer")
    THEN "NeedsAnswer"
    ELSE IF kinds # {} THEN "Blocked" ELSE fallback

(***************************************************************************)
(* The provider and the wire (external): a response sent is applied or      *)
(* lost.  Only an applied response is confirmed, only a lost one is         *)
(* reported as definitely not applied; both reports can be late, and the    *)
(* sender can give up on a response at any time.                            *)
(***************************************************************************)
Settle(i, n, fate) ==
    /\ wire[i][n] = "inflight"
    /\ wire' = [wire EXCEPT ![i][n] = fate]
    /\ UNCHANGED <<now, inbox>>

Report(i, n, at) ==
    \/ wire[i][n] = "applied" /\ confirm_response(i, n, at)
    \/ wire[i][n] = "lost" /\ fail_response(i, n, "DefinitelyNotApplied", at)
    \/ fail_response(i, n, "DeliveryUnknown", at)

Tick == now < MaxTime /\ now' = now + 1 /\ UNCHANGED <<inbox, wire>>

InboxInit ==
    /\ now = 0
    /\ st = [e \in Event |-> "absent"]
    /\ payload = [e \in Event |-> None]
    /\ unread = [e \in Event |-> FALSE]
    /\ since = [e \in Event |-> 0]
    /\ attempts = [e \in Event |-> << >>]
    /\ seen = [e \in Event |-> None]
    /\ index = [r \in Request |-> None]
    /\ wire = [e \in Event |-> << >>]

Decision == {"ApproveOnce", "ApproveForSession", "AllowForMission", "Deny", "Answer"}

InboxNext ==
    \/ Tick
    \/ Refresh
    \/ \E e \in Event, p \in Payload : p.created <= now /\ Ingest(e, p)
    \/ \E i \in Event, at \in 0..now :
         \/ \E d \in Decision : decide(i, d, at)
         \/ answer(i, at)
         \/ dismiss(i, at)
         \/ \E n \in DOMAIN attempts[i] : Report(i, n, at)
    \/ \E i \in Event : mark_read(i)
    \/ \E i \in Event, fate \in {"applied", "lost"} :
         \E n \in DOMAIN wire[i] : Settle(i, n, fate)

InboxSpec == InboxInit /\ [][InboxNext]_inboxVars

-----------------------------------------------------------------------------
(***************************************************************************)
(* Types; and an item exists exactly if its own event id is seen as it.     *)
(***************************************************************************)
InboxTypeOK ==
    /\ now \in Time
    /\ st \in [Event -> AttentionStatus]
    /\ payload \in [Event -> Payload \cup {None}]
    /\ unread \in [Event -> BOOLEAN]
    /\ since \in [Event -> Time]
    /\ attempts \in [Event -> Seq(AttemptStatus)]
    /\ seen \in [Event -> Event \cup {None}]
    /\ index \in [Request -> Event \cup {None}]
    /\ wire \in [Event -> Seq({"inflight", "applied", "lost"})]

(***************************************************************************)
(* A provider request is answered at most once: it has one item, which both *)
(* indexes lead to, however often and with whatever contents it is          *)
(* redelivered, and of all responses ever sent for it, over retries and     *)
(* expiry, at most one has been or can still be applied by the provider.    *)
(***************************************************************************)
AnsweredOnce ==
    /\ \A e \in Event : seen[e] # None => st[seen[e]] # "absent"
    /\ \A i \in Event : st[i] # "absent" =>
         /\ seen[i] = i
         /\ payload[i].request # None => index[payload[i].request] = i
    /\ \A r \in Request : index[r] # None =>
         st[index[r]] # "absent" /\ payload[index[r]].request = r
    /\ \A r \in Request :
         Cardinality({t \in Event \X (1..MaxAttempts) :
            /\ st[t[1]] # "absent" /\ payload[t[1]].request = r
            /\ t[2] <= Len(wire[t[1]]) /\ wire[t[1]][t[2]] # "lost"}) <= 1

(***************************************************************************)
(* The audit trail agrees with the status and with the provider: a response *)
(* is pending or unknown only as the last attempt, a resolved item has an   *)
(* acknowledged attempt the provider did apply, and an item on offer has    *)
(* only attempts that were not applied.                                     *)
(***************************************************************************)
AuditTrail ==
    \A i \in Event :
        /\ \A n \in DOMAIN attempts[i] :
             /\ n < Len(attempts[i]) => attempts[i][n] = "DefinitelyNotApplied"
             /\ attempts[i][n] = "DefinitelyNotApplied" => wire[i][n] = "lost"
             /\ attempts[i][n] = "Acknowledged" => wire[i][n] = "applied"
        /\ st[i] = "PendingResponse" => attempts[i] # << >> /\ Last(attempts[i]) = "Pending"
        /\ st[i] = "ReconciliationRequired" =>
             attempts[i] # << >> /\ Last(attempts[i]) = "DeliveryUnknown"
        /\ st[i] = "Resolved" => attempts[i] # << >> /\ Last(attempts[i]) = "Acknowledged"
        /\ st[i] \in {"Open", "Dismissed"} =>
             \A n \in DOMAIN attempts[i] : attempts[i][n] = "DefinitelyNotApplied"

(***************************************************************************)
(* A session is not shown as free while the fate of a response is open, for *)
(* requests without a deadline: whatever fails, is retried or reported      *)
(* late, the item counts in effective_run_status until its last response    *)
(* is acknowledged.                                                         *)
(***************************************************************************)
InDoubt(i) == attempts[i] # << >> /\ Last(attempts[i]) \in {"Pending", "DeliveryUnknown"}

BlockedWhileInDoubt ==
    (\E i \in Event : InDoubt(i) /\ payload[i].expires = None)
        => effective_run_status("Ready") # "Ready"
=============================================================================
