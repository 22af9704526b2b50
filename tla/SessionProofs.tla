---------------------------- MODULE SessionProofs ----------------------------
(***************************************************************************)
(* Proofs about the session of a mission: AttentionInbox, for every set of *)
(* events, requests and payloads, and RunState, for every number of turns, *)
(* events and deliveries.                                                  *)
(***************************************************************************)
EXTENDS RunState, AttentionInbox, FiniteSetTheorems, TLAPS

(***************************************************************************)
(* AttentionInbox: the requests that need the user.                         *)
(***************************************************************************)

Fate == {"inflight", "applied", "lost"}

\* The three indexes of the inbox agree: the first part of AnsweredOnce.
IndexesAgree ==
  /\ \A e \in Event : seen[e] # None => st[seen[e]] # "absent"
  /\ \A i \in Event : st[i] # "absent" =>
       /\ seen[i] = i
       /\ payload[i] \in Payload
       /\ payload[i].request # None => index[payload[i].request] = i
  /\ \A r \in Request : index[r] # None =>
       st[index[r]] # "absent" /\ payload[index[r]].request = r

(***************************************************************************)
(* What holds of one item with status s, payload p, attempts a and          *)
(* responses on the wire w.  Every attempt is one response on the wire;     *)
(* only the last one can be in doubt, and the status says what it is.       *)
(***************************************************************************)
Trail(s, p, a, w) ==
  /\ Len(w) = Len(a) /\ Len(a) <= MaxAttempts
  /\ Len(a) > 0 => s # "absent" /\ p.request # None
  /\ \A n \in 1..Len(a) :
       /\ n < Len(a) => a[n] = "DefinitelyNotApplied"
       /\ a[n] = "DefinitelyNotApplied" => w[n] = "lost"
       /\ a[n] = "Acknowledged" => w[n] = "applied"
  /\ s = "PendingResponse" => Len(a) > 0 /\ a[Len(a)] = "Pending"
  /\ s = "ReconciliationRequired" => Len(a) > 0 /\ a[Len(a)] = "DeliveryUnknown"
  /\ s = "Resolved" => Len(a) > 0 /\ a[Len(a)] = "Acknowledged"
  /\ s \in {"Open", "Dismissed"} /\ Len(a) > 0 => a[Len(a)] = "DefinitelyNotApplied"
  /\ Len(a) > 0 /\ a[Len(a)] \in {"Pending", "DeliveryUnknown"} /\ p.expires = None
       => s \in {"PendingResponse", "ReconciliationRequired"}

TrailInv == \A i \in Event : Trail(st[i], payload[i], attempts[i], wire[i])

InboxInv == InboxTypeOK /\ IndexesAgree /\ TrailInv

-----------------------------------------------------------------------------
\* Replacing the last element of a sequence keeps the others.
LEMMA WithLastFacts ==
  ASSUME NEW S, NEW a \in Seq(S), NEW x \in S, Len(a) > 0
  PROVE  /\ WithLast(a, x) \in Seq(S)
         /\ Len(WithLast(a, x)) = Len(a)
         /\ \A n \in 1..Len(a) : WithLast(a, x)[n] = IF n = Len(a) THEN x ELSE a[n]
BY DEF WithLast

\* Appending to a sequence keeps its elements.
LEMMA AppendFacts ==
  ASSUME NEW S, NEW a \in Seq(S), NEW x \in S
  PROVE  /\ Append(a, x) \in Seq(S)
         /\ Len(Append(a, x)) = Len(a) + 1
         /\ \A n \in 1..Len(a) : Append(a, x)[n] = a[n]
         /\ Append(a, x)[Len(a) + 1] = x
OBVIOUS

\* What becomes of a response changes one element of the wire.
LEMMA SettleFacts ==
  ASSUME NEW w \in Seq(Fate), NEW n \in DOMAIN w, NEW x \in Fate
  PROVE  /\ [w EXCEPT ![n] = x] \in Seq(Fate)
         /\ Len([w EXCEPT ![n] = x]) = Len(w)
         /\ \A m \in 1..Len(w) : [w EXCEPT ![n] = x][m] = IF m = n THEN x ELSE w[m]
OBVIOUS

-----------------------------------------------------------------------------
(***************************************************************************)
(* One lemma for each thing that can happen to the trail of an item.        *)
(***************************************************************************)

\* A response sent for an open item is the attempt that counts from then on.
LEMMA TrailSend ==
  ASSUME NEW p, NEW a \in Seq(AttemptStatus), NEW w \in Seq(Fate),
         Trail("Open", p, a, w), Len(a) < MaxAttempts, p.request # None
  PROVE  Trail("PendingResponse", p, Append(a, "Pending"), Append(w, "inflight"))
<1> DEFINE b == Append(a, "Pending")
           v == Append(w, "inflight")
<1>1. /\ Len(b) = Len(a) + 1 /\ b[Len(a) + 1] = "Pending"
      /\ \A n \in 1..Len(a) : b[n] = a[n]
  BY AppendFacts DEF AttemptStatus
<1>2. /\ Len(v) = Len(w) + 1
      /\ \A n \in 1..Len(w) : v[n] = w[n]
  BY AppendFacts DEF Fate
<1>3. Len(a) \in Nat /\ Len(w) = Len(a) /\ MaxAttempts \in Nat
  BY InboxAssumption DEF Trail
<1>4. \A n \in 1..Len(a) : a[n] = "DefinitelyNotApplied" /\ w[n] = "lost"
  BY <1>3 DEF Trail
<1>5. Len(b) <= MaxAttempts
  BY <1>1, <1>3
<1> HIDE DEF b, v
<1>6. \A n \in 1..Len(b) :
        /\ n < Len(b) => b[n] = "DefinitelyNotApplied" /\ v[n] = "lost"
        /\ n = Len(b) => b[n] = "Pending"
  BY <1>1, <1>2, <1>3, <1>4
<1>7. Trail("PendingResponse", p, b, v)
  BY <1>1, <1>2, <1>3, <1>5, <1>6 DEF Trail
<1>8. QED  BY <1>7 DEF b, v

\* The last attempt gets another status x; the item gets the status t that
\* goes with it.
LEMMA TrailRevise ==
  ASSUME NEW s, NEW t, NEW p, NEW x \in AttemptStatus,
         NEW a \in Seq(AttemptStatus), NEW w \in Seq(Fate),
         Trail(s, p, a, w), Len(a) > 0,
         x = "DefinitelyNotApplied" => w[Len(a)] = "lost",
         x = "Acknowledged" => w[Len(a)] = "applied",
         t \in {"PendingResponse", "ReconciliationRequired", "Resolved", "Open", "Expired"},
         t = "PendingResponse" => x = "Pending",
         t = "ReconciliationRequired" => x = "DeliveryUnknown",
         t = "Resolved" => x = "Acknowledged",
         t = "Open" => x = "DefinitelyNotApplied",
         t = "Expired" => x \in {"DefinitelyNotApplied", "Acknowledged"} \/ p.expires # None
  PROVE  Trail(t, p, WithLast(a, x), w)
<1> DEFINE b == WithLast(a, x)
<1>1. /\ Len(b) = Len(a)
      /\ \A n \in 1..Len(a) : b[n] = IF n = Len(a) THEN x ELSE a[n]
  BY WithLastFacts
<1>2. Len(a) \in Nat /\ Len(w) = Len(a) /\ MaxAttempts \in Nat
  BY InboxAssumption DEF Trail
<1> HIDE DEF b
<1>3. b[Len(b)] = x
  BY <1>1, <1>2
<1>4. \A n \in 1..Len(b) :
        /\ n < Len(b) => b[n] = "DefinitelyNotApplied"
        /\ b[n] = "DefinitelyNotApplied" => w[n] = "lost"
        /\ b[n] = "Acknowledged" => w[n] = "applied"
  BY <1>1, <1>2 DEF Trail
<1>5. /\ Len(w) = Len(b) /\ Len(b) <= MaxAttempts /\ Len(b) > 0
      /\ p.request # None
  BY <1>1, <1>2 DEF Trail
<1>6. Trail(t, p, b, w)
  BY <1>3, <1>4, <1>5 DEF Trail, AttemptStatus
<1>7. QED  BY <1>6 DEF b

\* A response on its way is applied or lost: no attempt relied on its fate.
LEMMA TrailSettle ==
  ASSUME NEW s, NEW p, NEW a \in Seq(AttemptStatus), NEW w \in Seq(Fate),
         Trail(s, p, a, w), NEW n \in DOMAIN w, w[n] = "inflight", NEW x \in Fate
  PROVE  Trail(s, p, a, [w EXCEPT ![n] = x])
<1> DEFINE v == [w EXCEPT ![n] = x]
<1>1. Len(v) = Len(w) /\ \A m \in 1..Len(w) : v[m] = IF m = n THEN x ELSE w[m]
  BY SettleFacts
<1>2. Len(w) = Len(a) /\ Len(a) \in Nat
  BY DEF Trail
<1> HIDE DEF v
<1>3. \A m \in 1..Len(a) :
        /\ a[m] = "DefinitelyNotApplied" => v[m] = "lost"
        /\ a[m] = "Acknowledged" => v[m] = "applied"
  BY <1>1, <1>2 DEF Trail
<1>4. Trail(s, p, a, v)
  BY <1>1, <1>2, <1>3 DEF Trail
<1>5. QED  BY <1>4 DEF v

\* An item past its deadline expires, whatever its attempts are.
LEMMA TrailExpire ==
  ASSUME NEW s, NEW p, NEW a, NEW w, Trail(s, p, a, w), p.expires # None
  PROVE  Trail("Expired", p, a, w)
BY DEF Trail

\* An open item is dismissed.
LEMMA TrailDismiss ==
  ASSUME NEW p, NEW a, NEW w, Trail("Open", p, a, w)
  PROVE  Trail("Dismissed", p, a, w)
BY DEF Trail

\* An item without attempts is opened with any payload.
LEMMA TrailNew ==
  ASSUME NEW s, NEW p, NEW q, NEW a \in Seq(AttemptStatus), NEW w,
         Trail(s, p, a, w), Len(a) = 0
  PROVE  Trail("Open", q, a, w)
BY DEF Trail

-----------------------------------------------------------------------------
LEMMA InboxInitHolds == InboxInit => InboxInv
<1> SUFFICES ASSUME InboxInit PROVE InboxInv
  OBVIOUS
<1> USE DEF InboxInit
<1>1. InboxTypeOK
  BY InboxAssumption DEF InboxTypeOK, Time, AttentionStatus
<1>2. IndexesAgree
  BY DEF IndexesAgree
<1>3. TrailInv
  BY InboxAssumption DEF TrailInv, Trail
<1>4. QED  BY <1>1, <1>2, <1>3 DEF InboxInv

\* A step that leaves the items and the wire alone, and reads nothing, keeps
\* everything.
LEMMA ReadingKeeps ==
  ASSUME InboxInv, UNCHANGED <<st, payload, since, attempts, seen, index, wire>>,
         now' \in Time, unread' \in [Event -> BOOLEAN]
  PROVE  InboxInv'
BY DEF InboxInv, InboxTypeOK, IndexesAgree, TrailInv

\* A step that gives one item i another status, since and attempts, and
\* nothing else, keeps the indexes; the trail of i is all there is to show.
LEMMA OneItemKeeps ==
  ASSUME InboxInv, NEW i \in Event, NEW s \in AttentionStatus \ {"absent"},
         st[i] # "absent",
         st' = [st EXCEPT ![i] = s],
         UNCHANGED <<now, payload, seen, index>>,
         unread' \in [Event -> BOOLEAN], since' \in [Event -> Time],
         attempts' \in [Event -> Seq(AttemptStatus)],
         wire' \in [Event -> Seq(Fate)],
         \A j \in Event : j # i => attempts'[j] = attempts[j] /\ wire'[j] = wire[j],
         Trail(s, payload[i], attempts'[i], wire'[i])
  PROVE  InboxInv'
<1> USE DEF InboxInv
<1>1. InboxTypeOK'
  BY DEF InboxTypeOK, Fate
<1>2. \A j \in Event : (st'[j] # "absent") = (st[j] # "absent")
  BY DEF InboxTypeOK
<1>3. IndexesAgree'
  <2>1. \A e \in Event : seen[e] # None => seen[e] \in Event
    BY DEF InboxTypeOK
  <2>2. \A r \in Request : index[r] # None => index[r] \in Event
    BY DEF InboxTypeOK
  <2>3. QED  BY <1>2, <2>1, <2>2 DEF IndexesAgree
<1>4. TrailInv'
  <2> SUFFICES ASSUME NEW j \in Event
               PROVE  Trail(st'[j], payload[j], attempts'[j], wire'[j])
    BY DEF TrailInv
  <2>1. CASE j = i
    BY <2>1 DEF InboxTypeOK
  <2>2. CASE j # i
    <3>1. st'[j] = st[j] /\ attempts'[j] = attempts[j] /\ wire'[j] = wire[j]
      BY <2>2 DEF InboxTypeOK
    <3>2. QED  BY <3>1 DEF TrailInv
  <2>3. QED  BY <2>1, <2>2
<1>5. QED  BY <1>1, <1>3, <1>4

\* An item that is not in the inbox has no attempts, and its id is not seen.
LEMMA AbsentIsBlank ==
  ASSUME InboxInv, NEW e \in Event, seen[e] = None
  PROVE  st[e] = "absent" /\ Len(attempts[e]) = 0
<1>1. st[e] = "absent"
  BY InboxAssumption DEF InboxInv, IndexesAgree
<1>2. Len(attempts[e]) \in Nat
  BY DEF InboxInv, InboxTypeOK
<1>3. QED  BY <1>1, <1>2 DEF InboxInv, TrailInv, Trail

\* ingest: a redelivered request or repeated event leads to its item, a new
\* one gets an item of its own that no index led elsewhere before.
LEMMA IngestKeeps ==
  ASSUME InboxInv, NEW e \in Event, NEW p \in Payload, Ingest(e, p)
  PROVE  InboxInv'
<1> USE DEF InboxInv
<1>1. ASSUME NEW i \in Event, st[i] # "absent", Reoccur(e, i)
      PROVE  InboxInv'
  <2>1. InboxTypeOK'
    BY <1>1 DEF InboxTypeOK, Reoccur, Ingest
  <2>2. IndexesAgree'
    BY <1>1, AbsentIsBlank DEF IndexesAgree, InboxTypeOK, Reoccur, Ingest, ingest
  <2>3. TrailInv'
    BY <1>1 DEF TrailInv, Reoccur, Ingest
  <2>4. QED  BY <2>1, <2>2, <2>3
<1>2. ASSUME Insert(e, p), ~Known(p)
      PROVE  InboxInv'
  <2>1. st[e] = "absent" /\ Len(attempts[e]) = 0
    BY AbsentIsBlank DEF Ingest, ingest
  <2>2. p.request \in Request \cup {None}
    BY InboxAssumption DEF PayloadType
  <2>3. index' \in [Request -> Event \cup {None}]
    BY <1>2, <2>2 DEF Insert, InboxTypeOK
  <2>4. InboxTypeOK'
    BY <1>2, <2>3 DEF InboxTypeOK, Insert, Ingest, AttentionStatus
  <2>5. /\ \A j \in Event : j # e => st'[j] = st[j] /\ payload'[j] = payload[j] /\ seen'[j] = seen[j]
        /\ st'[e] = "Open" /\ payload'[e] = p /\ seen'[e] = e
    BY <1>2 DEF Insert, InboxTypeOK
  <2>6. \A r \in Request : index'[r] = IF r = p.request THEN e ELSE index[r]
    BY <1>2, <2>2, InboxAssumption DEF Insert, InboxTypeOK
  <2>7. \A r \in Request : index[r] # None => index[r] # e /\ r # p.request
    BY <1>2, <2>1, InboxAssumption DEF Known, IndexesAgree
  <2>8. IndexesAgree'
    <3>1. ASSUME NEW d \in Event, seen'[d] # None
          PROVE  st'[seen'[d]] # "absent"
      <4>1. CASE d = e
        BY <4>1, <2>5
      <4>2. CASE d # e
        <5>1. seen'[d] = seen[d] /\ seen[d] \in Event /\ st[seen[d]] # "absent"
          BY <4>2, <2>5, <3>1 DEF IndexesAgree, InboxTypeOK
        <5>2. QED  BY <5>1, <2>5
      <4>3. QED  BY <4>1, <4>2
    <3>2. ASSUME NEW i \in Event, st'[i] # "absent"
          PROVE  /\ seen'[i] = i
                 /\ payload'[i] \in Payload
                 /\ payload'[i].request # None => index'[payload'[i].request] = i
      <4>1. CASE i = e
        BY <4>1, <2>2, <2>5, <2>6
      <4>2. CASE i # e
        <5>1. st[i] # "absent" /\ seen'[i] = seen[i] /\ payload'[i] = payload[i]
          BY <3>2, <4>2, <2>5
        <5>2. payload[i] \in Payload /\ payload[i].request \in Request \cup {None}
          BY <5>1, InboxAssumption DEF IndexesAgree, PayloadType
        <5>3. ASSUME payload[i].request # None
              PROVE  index'[payload[i].request] = i
          <6>1. index[payload[i].request] = i /\ i # None
            BY <5>1, <5>3, InboxAssumption DEF IndexesAgree
          <6>2. QED  BY <6>1, <5>2, <5>3, <2>6, <2>7
        <5>4. QED  BY <5>1, <5>2, <5>3 DEF IndexesAgree
      <4>3. QED  BY <4>1, <4>2
    <3>3. ASSUME NEW r \in Request, index'[r] # None
          PROVE  st'[index'[r]] # "absent" /\ payload'[index'[r]].request = r
      <4>1. CASE r = p.request
        BY <4>1, <2>5, <2>6
      <4>2. CASE r # p.request
        BY <4>2, <3>3, <2>5, <2>6, <2>7 DEF IndexesAgree, InboxTypeOK
      <4>3. QED  BY <4>1, <4>2
    <3>4. QED  BY <3>1, <3>2, <3>3 DEF IndexesAgree
  <2>9. TrailInv'
    <3> SUFFICES ASSUME NEW j \in Event
                 PROVE  Trail(st'[j], payload'[j], attempts[j], wire[j])
      BY <1>2 DEF TrailInv, Insert, Ingest
    <3>1. CASE j = e
      <4>1. Trail(st[e], payload[e], attempts[e], wire[e]) /\ attempts[e] \in Seq(AttemptStatus)
        BY DEF TrailInv, InboxTypeOK
      <4>2. QED  BY <4>1, <3>1, <2>1, <2>5, TrailNew
    <3>2. CASE j # e
      BY <3>2, <2>5 DEF TrailInv
    <3>3. QED  BY <3>1, <3>2
  <2>10. QED  BY <2>4, <2>8, <2>9
<1>3. CASE Known(p)
  <2>1. index[p.request] \in Event /\ st[index[p.request]] # "absent"
    BY <1>3, InboxAssumption DEF Known, InboxTypeOK, IndexesAgree, PayloadType
  <2>2. QED  BY <1>1, <1>3, <2>1 DEF Ingest, ingest
<1>4. CASE ~Known(p) /\ SameSemantics(p) # {}
  <2>1. PICK i \in SameSemantics(p) : Reoccur(e, i)
    BY <1>4 DEF Ingest, ingest
  <2>2. i \in Event /\ st[i] # "absent"
    BY DEF SameSemantics, Live
  <2>3. QED  BY <1>1, <2>1, <2>2
<1>5. CASE ~Known(p) /\ SameSemantics(p) = {}
  BY <1>2, <1>5 DEF Ingest, ingest
<1>6. QED  BY <1>3, <1>4, <1>5

\* Facts about one item that every action on it starts from.
LEMMA ItemFacts ==
  ASSUME InboxInv, NEW i \in Event
  PROVE  /\ Trail(st[i], payload[i], attempts[i], wire[i])
         /\ attempts[i] \in Seq(AttemptStatus) /\ wire[i] \in Seq(Fate)
         /\ Len(attempts[i]) \in Nat /\ Len(wire[i]) = Len(attempts[i])
         /\ DOMAIN attempts[i] = 1..Len(attempts[i])
         /\ DOMAIN wire[i] = 1..Len(attempts[i])
<1>1. attempts[i] \in Seq(AttemptStatus) /\ wire[i] \in Seq(Fate)
  BY DEF InboxInv, InboxTypeOK, Fate
<1>2. Trail(st[i], payload[i], attempts[i], wire[i])
  BY DEF InboxInv, TrailInv
<1>3. Len(wire[i]) = Len(attempts[i])
  BY <1>2 DEF Trail
<1>4. QED  BY <1>1, <1>2, <1>3

\* decide and answer past the deadline.
LEMMA ExpireKeeps ==
  ASSUME InboxInv, NEW i \in Event, NEW at \in Time, Expire(i, at)
  PROVE  InboxInv'
<1>1. Trail("Expired", payload[i], attempts'[i], wire'[i])
  BY ItemFacts, TrailExpire DEF Expire, Past
<1>2. /\ st[i] # "absent" /\ st' = [st EXCEPT ![i] = "Expired"]
      /\ UNCHANGED <<now, payload, unread, since, attempts, seen, index, wire>>
  BY DEF Expire
<1>3. "Expired" \in AttentionStatus \ {"absent"}
  BY DEF AttentionStatus
<1>4. /\ unread \in [Event -> BOOLEAN] /\ since \in [Event -> Time]
      /\ attempts \in [Event -> Seq(AttemptStatus)] /\ wire \in [Event -> Seq(Fate)]
  BY DEF InboxInv, InboxTypeOK, Fate
<1>5. QED  BY <1>1, <1>2, <1>3, <1>4, OneItemKeeps

\* decide and answer: a response is sent for an open item.
LEMMA RespondKeeps ==
  ASSUME InboxInv, NEW i \in Event, NEW at \in Time, st[i] = "Open", Respond(i, at)
  PROVE  InboxInv'
<1>1. /\ attempts'[i] = Append(attempts[i], "Pending")
      /\ wire'[i] = Append(wire[i], "inflight")
      /\ \A j \in Event : j # i => attempts'[j] = attempts[j] /\ wire'[j] = wire[j]
  BY DEF Respond, InboxInv, InboxTypeOK
<1>2. Trail("PendingResponse", payload[i], attempts'[i], wire'[i])
  BY <1>1, ItemFacts, TrailSend DEF Respond
<1>3. /\ Append(attempts[i], "Pending") \in Seq(AttemptStatus)
      /\ Append(wire[i], "inflight") \in Seq(Fate)
  BY ItemFacts, AppendFacts DEF AttemptStatus, Fate
<1>4. /\ attempts' \in [Event -> Seq(AttemptStatus)] /\ wire' \in [Event -> Seq(Fate)]
      /\ unread' \in [Event -> BOOLEAN] /\ since' \in [Event -> Time]
  BY <1>3 DEF Respond, InboxInv, InboxTypeOK, Fate
<1>5. "PendingResponse" \in AttentionStatus \ {"absent"}
  BY DEF AttentionStatus
<1>6. QED  BY <1>1, <1>2, <1>4, <1>5, OneItemKeeps DEF Respond

\* A report on the last attempt of item i sets its status to x and that of
\* the item to t.
LEMMA ReviseKeeps ==
  ASSUME InboxInv, NEW i \in Event, st[i] # "absent", Len(attempts[i]) > 0,
         NEW x \in AttemptStatus, NEW t \in AttentionStatus,
         attempts' = [attempts EXCEPT ![i] = WithLast(@, x)],
         st' = [st EXCEPT ![i] = t],
         UNCHANGED <<now, payload, seen, index, wire>>,
         unread' \in [Event -> BOOLEAN], since' \in [Event -> Time],
         x = "DefinitelyNotApplied" => wire[i][Len(attempts[i])] = "lost",
         x = "Acknowledged" => wire[i][Len(attempts[i])] = "applied",
         t \in {"ReconciliationRequired", "Resolved", "Open", "Expired"},
         t = "ReconciliationRequired" => x = "DeliveryUnknown",
         t = "Resolved" => x = "Acknowledged",
         t = "Open" => x = "DefinitelyNotApplied",
         t = "Expired" => x = "DefinitelyNotApplied"
  PROVE  InboxInv'
<1>1. /\ attempts'[i] = WithLast(attempts[i], x)
      /\ \A j \in Event : j # i => attempts'[j] = attempts[j]
  BY DEF InboxInv, InboxTypeOK
<1>2. Trail(t, payload[i], WithLast(attempts[i], x), wire[i])
  BY ItemFacts, TrailRevise
<1>3. WithLast(attempts[i], x) \in Seq(AttemptStatus)
  BY ItemFacts, WithLastFacts
<1>4. attempts' \in [Event -> Seq(AttemptStatus)] /\ wire' \in [Event -> Seq(Fate)]
  BY <1>3 DEF InboxInv, InboxTypeOK, Fate
<1>5. QED  BY <1>1, <1>2, <1>4, OneItemKeeps

\* confirm_response and fail_response, as the provider and the wire call them.
LEMMA ReportKeeps ==
  ASSUME InboxInv, NEW i \in Event, NEW at \in Time,
         NEW n \in DOMAIN attempts[i], Report(i, n, at)
  PROVE  InboxInv'
<1> USE DEF IsLast
<1>1. Len(attempts[i]) > 0
  BY ItemFacts
<1>2. unread \in [Event -> BOOLEAN] /\ since \in [Event -> Time]
  BY DEF InboxInv, InboxTypeOK
<1>3. CASE wire[i][n] = "applied" /\ confirm_response(i, n, at)
  <2>1. "Acknowledged" \in AttemptStatus /\ "Resolved" \in AttentionStatus
    BY DEF AttemptStatus, AttentionStatus
  <2>2. st[i] # "absent" /\ wire[i][Len(attempts[i])] = "applied"
    BY <1>3 DEF confirm_response
  <2>3. QED  BY <1>1, <1>2, <1>3, <2>1, <2>2, ReviseKeeps DEF confirm_response
<1>4. ASSUME NEW d \in {"DefinitelyNotApplied", "DeliveryUnknown"}, fail_response(i, n, d, at),
             d = "DefinitelyNotApplied" => wire[i][n] = "lost"
      PROVE  InboxInv'
  <2> DEFINE t == IF d = "DefinitelyNotApplied" THEN Reopened(i, at) ELSE "ReconciliationRequired"
  <2>1. d \in AttemptStatus /\ t \in AttentionStatus
    BY DEF AttemptStatus, AttentionStatus, Reopened
  <2>2. /\ t \in {"ReconciliationRequired", "Open", "Expired"}
        /\ t = "ReconciliationRequired" => d = "DeliveryUnknown"
        /\ t \in {"Open", "Expired"} => d = "DefinitelyNotApplied"
    BY DEF Reopened
  <2>3. /\ st[i] # "absent" /\ st' = [st EXCEPT ![i] = t]
        /\ attempts' = [attempts EXCEPT ![i] = WithLast(@, d)]
        /\ UNCHANGED <<now, payload, seen, index, wire>>
        /\ n = Len(attempts[i])
    BY <1>4 DEF fail_response
  <2>4. unread' \in [Event -> BOOLEAN] /\ since' \in [Event -> Time]
    BY <1>2, <1>4 DEF fail_response
  <2> HIDE DEF t
  <2>5. QED  BY <1>1, <1>4, <2>1, <2>2, <2>3, <2>4, ReviseKeeps
<1>5. QED  BY <1>3, <1>4 DEF Report

\* dismiss.
LEMMA DismissKeeps ==
  ASSUME InboxInv, NEW i \in Event, NEW at \in Time, dismiss(i, at)
  PROVE  InboxInv'
<1>1. Trail("Dismissed", payload[i], attempts'[i], wire'[i])
  BY ItemFacts, TrailDismiss DEF dismiss
<1>2. "Dismissed" \in AttentionStatus \ {"absent"} /\ st[i] # "absent"
  BY DEF AttentionStatus, dismiss
<1>3. /\ unread' \in [Event -> BOOLEAN] /\ since \in [Event -> Time]
      /\ attempts \in [Event -> Seq(AttemptStatus)] /\ wire \in [Event -> Seq(Fate)]
  BY DEF InboxInv, InboxTypeOK, Fate, dismiss
<1>4. QED  BY <1>1, <1>2, <1>3, OneItemKeeps DEF dismiss

\* refresh: every item past its deadline expires, or is to be reconciled if
\* a response to it is pending.
LEMMA RefreshKeeps ==
  ASSUME InboxInv, Refresh
  PROVE  InboxInv'
<1> USE DEF InboxInv
<1>1. ASSUME NEW i \in Event, st[i] = "PendingResponse"
      PROVE  Len(attempts[i]) > 0 /\ Last(attempts[i]) = "Pending"
  BY <1>1, ItemFacts DEF Trail, Last
<1>2. ASSUME NEW i \in Event
      PROVE  /\ attempts'[i] \in Seq(AttemptStatus)
             /\ Trail(st'[i], payload[i], attempts'[i], wire[i])
             /\ (st'[i] = "absent") = (st[i] = "absent")
             /\ st'[i] \in AttentionStatus
  <2>1. CASE st[i] = "Open" /\ Past(i, now)
    <3>1. st'[i] = "Expired" /\ attempts'[i] = attempts[i] /\ payload[i].expires # None
      BY <2>1 DEF Refresh, Live, Past
    <3>2. QED  BY <2>1, <3>1, ItemFacts, TrailExpire DEF AttentionStatus
  <2>2. CASE st[i] = "PendingResponse" /\ Past(i, now)
    <3>1. /\ st'[i] = "ReconciliationRequired"
          /\ attempts'[i] = WithLast(attempts[i], "DeliveryUnknown")
          /\ Len(attempts[i]) > 0
      BY <1>1, <2>2 DEF Refresh, Live
    <3>2. "DeliveryUnknown" \in AttemptStatus
      BY DEF AttemptStatus
    <3>3. WithLast(attempts[i], "DeliveryUnknown") \in Seq(AttemptStatus)
      BY <3>1, <3>2, ItemFacts, WithLastFacts
    <3>4. Trail("ReconciliationRequired", payload[i], WithLast(attempts[i], "DeliveryUnknown"), wire[i])
      BY <3>1, <3>2, ItemFacts, TrailRevise
    <3>5. QED  BY <2>2, <3>1, <3>3, <3>4 DEF AttentionStatus
  <2>3. CASE ~(st[i] \in Live /\ Past(i, now))
    <3>1. st'[i] = st[i] /\ attempts'[i] = attempts[i]
      BY <2>3 DEF Refresh, Live
    <3>2. QED  BY <3>1, ItemFacts DEF InboxTypeOK
  <2>4. QED  BY <2>1, <2>2, <2>3 DEF Live
<1>3. InboxTypeOK'
  <2>1. st' \in [Event -> AttentionStatus]
    BY <1>2 DEF Refresh
  <2>2. attempts' \in [Event -> Seq(AttemptStatus)]
    BY <1>2 DEF Refresh
  <2>3. since' \in [Event -> Time]
    BY DEF Refresh, InboxTypeOK
  <2>4. QED  BY <2>1, <2>2, <2>3 DEF Refresh, InboxTypeOK
<1>4. IndexesAgree'
  <2>1. \A e \in Event : seen[e] # None => seen[e] \in Event
    BY DEF InboxTypeOK
  <2>2. \A r \in Request : index[r] # None => index[r] \in Event
    BY DEF InboxTypeOK
  <2>3. QED  BY <1>2, <2>1, <2>2 DEF IndexesAgree, Refresh
<1>5. TrailInv'
  BY <1>2 DEF TrailInv, Refresh
<1>6. QED  BY <1>3, <1>4, <1>5

\* The provider applies a response, or the wire loses it.
LEMMA SettleKeeps ==
  ASSUME InboxInv, NEW i \in Event, NEW fate \in {"applied", "lost"},
         NEW n \in DOMAIN wire[i], Settle(i, n, fate)
  PROVE  InboxInv'
<1> DEFINE v == [wire[i] EXCEPT ![n] = fate]
<1>1. wire' = [wire EXCEPT ![i] = v] /\ UNCHANGED <<now, inbox>>
  BY DEF Settle
<1>2. fate \in Fate
  BY DEF Fate
<1>3. v \in Seq(Fate)
  BY <1>2, ItemFacts, SettleFacts
<1>4. Trail(st[i], payload[i], attempts[i], v)
  BY <1>2, ItemFacts, TrailSettle DEF Settle
<1> HIDE DEF v
<1>5. InboxTypeOK'
  BY <1>1, <1>3 DEF InboxInv, InboxTypeOK, inbox, Fate
<1>6. IndexesAgree'
  BY <1>1 DEF InboxInv, IndexesAgree, inbox
<1>7. TrailInv'
  BY <1>1, <1>4 DEF InboxInv, InboxTypeOK, TrailInv, inbox
<1>8. QED  BY <1>5, <1>6, <1>7 DEF InboxInv

LEMMA InboxNextKeeps == InboxInv /\ [InboxNext]_inboxVars => InboxInv'
<1> SUFFICES ASSUME InboxInv, [InboxNext]_inboxVars PROVE InboxInv'
  OBVIOUS
<1>1. now \in Time /\ \A at \in 0..now : at \in Time
  BY InboxAssumption DEF InboxInv, InboxTypeOK, Time
<1>2. CASE Tick
  <2>1. now' \in Time
    BY <1>1, <1>2, InboxAssumption DEF Tick, Time
  <2>2. QED  BY <1>2, <2>1, ReadingKeeps DEF Tick, inbox, InboxInv, InboxTypeOK
<1>3. CASE Refresh
  BY <1>3, RefreshKeeps
<1>4. ASSUME NEW e \in Event, NEW p \in Payload, Ingest(e, p) PROVE InboxInv'
  BY <1>4, IngestKeeps
<1>5. ASSUME NEW i \in Event, NEW at \in 0..now,
             \/ \E d \in Decision : decide(i, d, at)
             \/ answer(i, at)
             \/ dismiss(i, at)
             \/ \E n \in DOMAIN attempts[i] : Report(i, n, at)
      PROVE  InboxInv'
  <2>1. at \in Time
    BY <1>1
  <2>2. CASE Expire(i, at)
    BY <2>1, <2>2, ExpireKeeps
  <2>3. CASE Answerable(i, at) /\ Respond(i, at)
    BY <2>1, <2>3, RespondKeeps DEF Answerable
  <2>4. CASE dismiss(i, at)
    BY <2>1, <2>4, DismissKeeps
  <2>5. CASE \E n \in DOMAIN attempts[i] : Report(i, n, at)
    BY <2>1, <2>5, ReportKeeps
  <2>6. QED  BY <1>5, <2>2, <2>3, <2>4, <2>5 DEF decide, answer
<1>6. ASSUME NEW i \in Event, mark_read(i) PROVE InboxInv'
  BY <1>6, ReadingKeeps DEF mark_read, InboxInv, InboxTypeOK
<1>7. ASSUME NEW i \in Event, NEW fate \in {"applied", "lost"},
             NEW n \in DOMAIN wire[i], Settle(i, n, fate)
      PROVE  InboxInv'
  BY <1>7, SettleKeeps
<1>8. CASE UNCHANGED inboxVars
  BY <1>8, ReadingKeeps DEF inboxVars, inbox, InboxInv, InboxTypeOK
<1>9. QED  BY <1>2, <1>3, <1>4, <1>5, <1>6, <1>7, <1>8 DEF InboxNext

LEMMA InboxInvHolds == InboxSpec => []InboxInv
<1>1. QED  BY InboxInitHolds, InboxNextKeeps, PTL DEF InboxSpec

-----------------------------------------------------------------------------
\* Of the responses sent for one item only the last can still be applied.
LEMMA OneThatCounts ==
  ASSUME InboxInv, NEW i \in Event, NEW n \in 1..Len(wire[i]), wire[i][n] # "lost"
  PROVE  n = Len(attempts[i])
BY ItemFacts DEF Trail

(***************************************************************************)
(* The inbox only ever holds values of their types, whatever is ingested,   *)
(* answered, reported and refreshed in whatever order.                      *)
(***************************************************************************)
THEOREM InboxTypeHolds == InboxSpec => []InboxTypeOK
<1>1. InboxInv => InboxTypeOK
  BY DEF InboxInv
<1>2. QED  BY <1>1, InboxInvHolds, PTL

(***************************************************************************)
(* attention.rs, ingest / decide / answer / fail_response: a provider       *)
(* request has one item and at most one response that was or can still be   *)
(* applied, for any number of events, requests, payloads and retries.       *)
(***************************************************************************)
THEOREM AnsweredOnceHolds == InboxSpec => []AnsweredOnce
<1>1. InboxInv => AnsweredOnce
  <2> SUFFICES ASSUME InboxInv PROVE AnsweredOnce
    OBVIOUS
  <2>1. ASSUME NEW r \in Request
        PROVE  Cardinality({t \in Event \X (1..MaxAttempts) :
                  /\ st[t[1]] # "absent" /\ payload[t[1]].request = r
                  /\ t[2] <= Len(wire[t[1]]) /\ wire[t[1]][t[2]] # "lost"}) <= 1
    <3> DEFINE S == {t \in Event \X (1..MaxAttempts) :
                  /\ st[t[1]] # "absent" /\ payload[t[1]].request = r
                  /\ t[2] <= Len(wire[t[1]]) /\ wire[t[1]][t[2]] # "lost"}
    <3>1. ASSUME NEW t \in S
          PROVE  t = <<index[r], Len(attempts[index[r]])>>
      <4>1. t \in Event \X (1..MaxAttempts) /\ t[1] = index[r]
        BY InboxAssumption DEF InboxInv, IndexesAgree
      <4>2. Len(wire[t[1]]) \in Nat /\ t[2] \in 1..Len(wire[t[1]])
        BY <4>1, ItemFacts
      <4>3. t[2] = Len(attempts[t[1]])
        BY <4>1, <4>2, OneThatCounts
      <4>4. QED  BY <4>1, <4>3
    <3> HIDE DEF S
    <3>2. S = {} \/ S = {<<index[r], Len(attempts[index[r]])>>}
      BY <3>1
    <3>3. Cardinality(S) = 0 \/ Cardinality(S) = 1
      BY <3>2, FS_EmptySet, FS_Singleton, Zenon
    <3>4. Cardinality(S) <= 1
      BY <3>3
    <3>5. QED  BY <3>4 DEF S
  <2>2. QED  BY <2>1 DEF InboxInv, IndexesAgree, AnsweredOnce
<1>2. QED  BY <1>1, InboxInvHolds, PTL

(***************************************************************************)
(* attention.rs, response_attempts: the audit trail of an item agrees with  *)
(* its status and with what the provider did.                               *)
(***************************************************************************)
THEOREM AuditTrailHolds == InboxSpec => []AuditTrail
<1>1. InboxInv => AuditTrail
  <2> SUFFICES ASSUME InboxInv, NEW i \in Event
               PROVE  AuditTrail!(i)
    BY DEF AuditTrail
  <2>1. /\ Trail(st[i], payload[i], attempts[i], wire[i])
        /\ Len(attempts[i]) \in Nat /\ DOMAIN attempts[i] = 1..Len(attempts[i])
        /\ attempts[i] \in Seq(AttemptStatus)
    BY ItemFacts
  <2>2. Len(attempts[i]) > 0 => attempts[i] # << >>
    BY <2>1
  <2>3. QED  BY <2>1, <2>2 DEF Trail, Last
<1>2. QED  BY <1>1, InboxInvHolds, PTL

(***************************************************************************)
(* attention.rs, effective_run_status: while the fate of a response is      *)
(* open, a request without a deadline keeps its session from being shown    *)
(* as free.                                                                 *)
(***************************************************************************)
THEOREM BlockedWhileInDoubtHolds == InboxSpec => []BlockedWhileInDoubt
<1>1. InboxInv => BlockedWhileInDoubt
  <2> SUFFICES ASSUME InboxInv, NEW i \in Event, InDoubt(i), payload[i].expires = None
               PROVE  effective_run_status("Ready") # "Ready"
    BY DEF BlockedWhileInDoubt
  <2>1. Len(attempts[i]) > 0
    BY ItemFacts DEF InDoubt
  <2>2. st[i] \in Unsettled
    BY <2>1, ItemFacts DEF Trail, InDoubt, Last, Unsettled, Live
  <2>3. payload[i].kind \in {payload[j].kind : j \in {k \in Event : st[k] \in Unsettled}}
    BY <2>2
  <2>4. QED  BY <2>3 DEF effective_run_status
<1>2. QED  BY <1>1, InboxInvHolds, PTL

-----------------------------------------------------------------------------
(***************************************************************************)
(* RunState: the state of one session.                                      *)
(***************************************************************************)

\* What the provider emits: an observation before it is stamped.
Emitted ==
  [id: Nat \X {"provider", "local"}, status: RunStatus, source: Source,
   seq: Nat \cup {None}, turn: Turn \cup {None}, completed: BOOLEAN]

\* The provider and the receiver only hand on what SessionObservation allows.
ReceivedInv ==
  /\ sent \subseteq Emitted /\ IsFiniteSet(sent)
  /\ received \subseteq Observation /\ IsFiniteSet(received)
  /\ provTurn \in Turn

\* Nothing accepted is newer than the snapshot.
StampsInv == \A o \in accepted : o.recv <= recvSeq

SessionInv == RunStateTypeOK /\ ReceivedInv /\ StampsInv /\ SnapshotIsJustified

\* The fields of an observation have their types.
LEMMA ObservationFields ==
  ASSUME NEW o \in Observation
  PROVE  /\ o.id \in Nat \X {"provider", "local"} /\ o.status \in RunStatus
         /\ o.source \in Source /\ o.seq \in Nat \cup {None} /\ o.recv \in Nat
         /\ o.turn \in Turn \cup {None} /\ o.completed \in BOOLEAN
BY DEF Observation

(***************************************************************************)
(* normalize_heuristic yields an observation with the same stamp; only an   *)
(* exact one speaks of a turn and its completion, and one inferred from     *)
(* the screen never says that the session failed.                           *)
(***************************************************************************)
LEMMA Normalized ==
  ASSUME NEW raw \in Observation
  PROVE  /\ normalize_heuristic(raw) \in Observation
         /\ normalize_heuristic(raw).completed \/ normalize_heuristic(raw).turn # None
              => normalize_heuristic(raw).source \in Exact
         /\ normalize_heuristic(raw).source = "TerminalHeuristic"
              => normalize_heuristic(raw).status \in {"Ready", "Unknown"}
<1> DEFINE o == normalize_heuristic(raw)
<1>1. CASE raw.source \in Exact
  BY <1>1 DEF normalize_heuristic, Exact
<1>2. ASSUME NEW s \in RunStatus
      PROVE  /\ Kept(raw, s) \in Observation /\ Kept(raw, s).source = raw.source
             /\ Kept(raw, s).status = s /\ ~Kept(raw, s).completed /\ Kept(raw, s).turn = None
  BY ObservationFields DEF Kept, Observation
<1>3. CASE raw.source = "TerminalHeuristic" /\ (raw.completed \/ raw.status \notin {"Ready", "Unknown"})
  <2>1. o = Kept(raw, "Unknown")
    BY <1>3 DEF normalize_heuristic, Exact
  <2>2. "Unknown" \in RunStatus
    BY DEF RunStatus
  <2>3. QED  BY <1>2, <2>1, <2>2
<1>4. CASE /\ raw.source \notin Exact
           /\ ~(raw.source = "TerminalHeuristic" /\ (raw.completed \/ raw.status \notin {"Ready", "Unknown"}))
  <2>1. o = Kept(raw, raw.status)
    BY <1>4 DEF normalize_heuristic
  <2>2. raw.status \in RunStatus
    BY ObservationFields
  <2>3. QED  BY <1>2, <1>4, <2>1, <2>2
<1>5. QED  BY <1>1, <1>3, <1>4

LEMMA RunStateInitHolds == RunStateInit => SessionInv
<1> SUFFICES ASSUME RunStateInit PROVE SessionInv
  OBVIOUS
<1> USE DEF RunStateInit
<1>1. RunStateTypeOK
  BY DEF RunStateTypeOK, RunStatus, Source
<1>2. ReceivedInv
  BY RunStateAssumption, FS_EmptySet DEF ReceivedInv, Turn
<1>3. StampsInv /\ SnapshotIsJustified
  BY DEF StampsInv, SnapshotIsJustified
<1>4. QED  BY <1>1, <1>2, <1>3 DEF SessionInv

\* The provider and the receiver leave the snapshot alone.
LEMMA SnapshotKept ==
  ASSUME SessionInv, UNCHANGED <<snapshot, accepted>>, ReceivedInv'
  PROVE  SessionInv'
BY DEF SessionInv, RunStateTypeOK, StampsInv, SnapshotIsJustified, snapshot

LEMMA EmitKeeps ==
  ASSUME SessionInv, NEW s \in RunStatus, NEW seq \in BOOLEAN, NEW done \in BOOLEAN,
         Emit(s, seq, done)
  PROVE  SessionInv'
<1> DEFINE n == Cardinality(sent) + 1
           e == [id |-> <<n, "provider">>, status |-> s, source |-> "StructuredHook",
                 seq |-> IF seq THEN n ELSE None, turn |-> provTurn, completed |-> done]
<1>1. n \in Nat
  BY FS_CardinalityType DEF SessionInv, ReceivedInv
<1>2. sent' = sent \cup {e}
  BY DEF Emit
<1>3. (IF seq THEN n ELSE None) \in Nat \cup {None}
  BY <1>1
<1> HIDE DEF n
<1>4. e \in Emitted
  BY <1>1, <1>3 DEF Emitted, SessionInv, ReceivedInv, Source, Exact
<1> HIDE DEF e
<1>5. IsFiniteSet(sent')
  BY <1>2, FS_AddElement DEF SessionInv, ReceivedInv
<1>6. provTurn' \in Turn
  BY RunStateAssumption DEF Emit, SessionInv, ReceivedInv, Turn
<1>7. ReceivedInv'
  BY <1>2, <1>4, <1>5, <1>6 DEF Emit, SessionInv, ReceivedInv
<1>8. QED  BY <1>7, SnapshotKept DEF Emit

LEMMA StampKeeps ==
  ASSUME SessionInv, NEW o \in Observation, Stamp(o)
  PROVE  SessionInv'
<1>1. IsFiniteSet(received')
  BY FS_AddElement DEF Stamp, SessionInv, ReceivedInv
<1>2. ReceivedInv'
  BY <1>1 DEF Stamp, SessionInv, ReceivedInv
<1>3. QED  BY <1>2, SnapshotKept DEF Stamp

LEMMA ReceiveKeeps ==
  ASSUME SessionInv, NEW e \in sent, Receive(e)
  PROVE  SessionInv'
<1>1. Cardinality(received) + 1 \in Nat
  BY FS_CardinalityType DEF SessionInv, ReceivedInv
<1>2. e \in Emitted
  BY DEF SessionInv, ReceivedInv
<1>3. [id |-> e.id, status |-> e.status, source |-> e.source, seq |-> e.seq,
       recv |-> Cardinality(received) + 1, turn |-> e.turn, completed |-> e.completed] \in Observation
  BY <1>1, <1>2 DEF Emitted, Observation
<1>4. QED  BY <1>3, StampKeeps DEF Receive

LEMMA NoticeKeeps ==
  ASSUME SessionInv, NEW src \in Source, NEW s \in RunStatus, NEW claim \in BOOLEAN,
         Notice(src, s, claim)
  PROVE  SessionInv'
<1> DEFINE n == Cardinality(received) + 1
           t == IF claim THEN provTurn ELSE None
           o == [id |-> <<n, "local">>, status |-> s, source |-> src, seq |-> None,
                 recv |-> n, turn |-> t, completed |-> claim]
<1>1. n \in Nat
  BY FS_CardinalityType DEF SessionInv, ReceivedInv
<1>2. t \in Turn \cup {None}
  BY DEF SessionInv, ReceivedInv
<1>3. Stamp(o)
  BY DEF Notice
<1> HIDE DEF n, t
<1>4. o \in Observation
  BY <1>1, <1>2 DEF Observation
<1>5. QED  BY <1>3, <1>4, StampKeeps

\* apply accepts a normalised observation o.
LEMMA AcceptKeeps ==
  ASSUME SessionInv, NEW o \in Observation, o.id \notin applied, should_accept(o), Accept(o),
         o.completed \/ o.turn # None => o.source \in Exact,
         o.source = "TerminalHeuristic" => o.status \in {"Ready", "Unknown"},
         UNCHANGED <<sent, provTurn, received>>
  PROVE  SessionInv'
<1> USE DEF SessionInv
<1>1. /\ o.status \in RunStatus /\ o.source \in Source /\ o.recv \in Nat
      /\ o.seq \in Nat \cup {None} /\ o.turn \in Turn \cup {None} /\ o.completed \in BOOLEAN
  BY ObservationFields
<1>2. RunStateTypeOK'
  <2>1. accepted' \subseteq Observation /\ applied' = {p.id : p \in accepted'}
    BY DEF Accept, RunStateTypeOK
  <2>2. /\ runStatus' \in RunStatus /\ source' \in Source /\ recvSeq' \in Nat
        /\ provSeq' \in Nat \cup {None} /\ turn' \in Turn \cup {None}
    BY <1>1 DEF Accept, RunStateTypeOK
  <2>3. completed' \in BOOLEAN
    BY <1>1 DEF Accept, RunStateTypeOK
  <2>4. QED  BY <2>1, <2>2, <2>3 DEF RunStateTypeOK
<1>3. ReceivedInv'
  BY DEF ReceivedInv
<1>4. \A p \in accepted : p.recv \in Nat /\ p.recv <= recvSeq /\ p.recv < o.recv /\ p.id # o.id
  <2> SUFFICES ASSUME NEW p \in accepted
               PROVE  p.recv \in Nat /\ p.recv <= recvSeq /\ p.recv < o.recv /\ p.id # o.id
    OBVIOUS
  <2>1. p.recv \in Nat /\ recvSeq \in Nat
    BY ObservationFields DEF RunStateTypeOK
  <2>2. p.recv <= recvSeq /\ recvSeq < o.recv
    BY <1>1, <2>1 DEF StampsInv, should_accept, Newer
  <2>3. p.id \in applied
    BY DEF RunStateTypeOK
  <2>4. QED  BY <1>1, <2>1, <2>2, <2>3
<1>5. StampsInv'
  BY <1>1, <1>4 DEF StampsInv, Accept
<1>6. \A p, q \in accepted' : (p.id = q.id \/ p.recv = q.recv) => p = q
  BY <1>1, <1>4 DEF Accept, SnapshotIsJustified
<1>7. \E p \in accepted' : /\ p.recv = recvSeq' /\ p.status = runStatus' /\ p.source = source'
                           /\ \A q \in accepted' : q.recv <= p.recv
  BY <1>1, <1>4 DEF Accept
<1>8. ASSUME source' = "TerminalHeuristic", NEW p \in accepted'
      PROVE  p.source = "TerminalHeuristic"
  <2>1. o.source = "TerminalHeuristic"
    BY <1>8 DEF Accept
  <2>2. CASE source = "TerminalHeuristic"
    BY <2>1, <2>2 DEF Accept, SnapshotIsJustified
  <2>3. CASE source # "TerminalHeuristic"
    <3>1. priority(o.source) < priority(source)
      BY <2>1, <2>3 DEF priority, Exact, Source, RunStateTypeOK
    <3>2. applied = {}
      BY <2>1, <3>1 DEF should_accept, Outranked
    <3>3. accepted' = {o}
      BY <3>2 DEF RunStateTypeOK, Accept
    <3>4. QED  BY <2>1, <3>3
  <2>4. QED  BY <2>2, <2>3
<1>9. ASSUME completed'
      PROVE  \E p \in accepted' : p.source \in Exact /\ p.turn = turn' /\ p.completed
  <2>1. CASE o.turn # None /\ o.completed
    BY <2>1 DEF Accept
  <2>2. CASE o.turn = None \/ ~o.completed
    <3>1. completed /\ turn' = turn
      BY <1>9, <2>2 DEF Accept
    <3>2. QED  BY <3>1 DEF Accept, SnapshotIsJustified
  <2>3. QED  BY <2>1, <2>2
<1>10. SnapshotIsJustified'
  BY <1>6, <1>7, <1>8, <1>9 DEF SnapshotIsJustified
<1>11. QED  BY <1>2, <1>3, <1>5, <1>10

LEMMA ApplyKeeps ==
  ASSUME SessionInv, ApplyOne
  PROVE  SessionInv'
<1>1. PICK raw \in received : apply(raw) /\ UNCHANGED <<sent, provTurn, received>>
  BY DEF ApplyOne
<1> DEFINE o == normalize_heuristic(raw)
<1>2. raw \in Observation
  BY DEF SessionInv, ReceivedInv
<1>3. CASE o.id \in applied \/ ~should_accept(o)
  <2>1. UNCHANGED <<snapshot, accepted>>
    BY <1>1, <1>3 DEF apply
  <2>2. ReceivedInv'
    BY <1>1 DEF SessionInv, ReceivedInv
  <2>3. QED  BY <2>1, <2>2, SnapshotKept
<1>4. CASE o.id \notin applied /\ should_accept(o)
  <2>1. Accept(o)
    BY <1>1, <1>4 DEF apply
  <2>2. /\ o \in Observation
        /\ o.completed \/ o.turn # None => o.source \in Exact
        /\ o.source = "TerminalHeuristic" => o.status \in {"Ready", "Unknown"}
    BY <1>2, Normalized
  <2> HIDE DEF o
  <2>3. QED  BY <1>1, <1>4, <2>1, <2>2, AcceptKeeps
<1>5. QED  BY <1>3, <1>4

LEMMA RunStateNextKeeps == SessionInv /\ [RunStateNext]_runStateVars => SessionInv'
<1> SUFFICES ASSUME SessionInv, [RunStateNext]_runStateVars PROVE SessionInv'
  OBVIOUS
<1>1. {"Working", "Failed", "Ready", "Disconnected"} \subseteq RunStatus
  BY DEF RunStatus, is_safety_worsening
<1>2. {"Process", "TerminalHeuristic"} \subseteq Source
  BY DEF Source
<1>3. ASSUME NEW s \in {"Working", "Failed"}, NEW seq \in BOOLEAN, Emit(s, seq, FALSE)
      PROVE  SessionInv'
  BY <1>1, <1>3, EmitKeeps
<1>4. ASSUME NEW seq \in BOOLEAN, Emit("Ready", seq, TRUE) PROVE SessionInv'
  BY <1>1, <1>4, EmitKeeps
<1>5. ASSUME NEW e \in sent, Receive(e) PROVE SessionInv'
  BY <1>5, ReceiveKeeps
<1>6. ASSUME NEW s \in {"Working", "Disconnected"}, Notice("Process", s, FALSE)
      PROVE  SessionInv'
  BY <1>1, <1>2, <1>6, NoticeKeeps
<1>7. ASSUME NEW s \in {"Ready", "Failed"}, NEW claim \in BOOLEAN, Notice("TerminalHeuristic", s, claim)
      PROVE  SessionInv'
  BY <1>1, <1>2, <1>7, NoticeKeeps
<1>8. CASE ApplyOne
  BY <1>8, ApplyKeeps
<1>9. CASE UNCHANGED runStateVars
  <2>1. UNCHANGED <<snapshot, accepted>> /\ ReceivedInv'
    BY <1>9 DEF runStateVars, SessionInv, ReceivedInv
  <2>2. QED  BY <2>1, SnapshotKept
<1>10. QED  BY <1>3, <1>4, <1>5, <1>6, <1>7, <1>8, <1>9 DEF RunStateNext

LEMMA SessionInvHolds == RunStateSpec => []SessionInv
<1>1. QED  BY RunStateInitHolds, RunStateNextKeeps, PTL DEF RunStateSpec

(***************************************************************************)
(* run_state.rs, SessionSnapshot: the snapshot only ever holds values of    *)
(* their types, and its event ids are those of what was accepted.           *)
(***************************************************************************)
THEOREM RunStateTypeHolds == RunStateSpec => []RunStateTypeOK
<1>1. SessionInv => RunStateTypeOK
  BY DEF SessionInv
<1>2. QED  BY <1>1, SessionInvHolds, PTL

(***************************************************************************)
(* run_state.rs, SessionSnapshot::apply: the snapshot stands for the        *)
(* accepted observation with the latest stamp, inferred states only while   *)
(* nothing better was accepted, completed turns only on exact evidence,     *)
(* for any number of turns, events and deliveries.                          *)
(***************************************************************************)
THEOREM SnapshotIsJustifiedHolds == RunStateSpec => []SnapshotIsJustified
<1>1. SessionInv => SnapshotIsJustified
  BY DEF SessionInv
<1>2. QED  BY <1>1, SessionInvHolds, PTL

(***************************************************************************)
(* run_state.rs, should_accept: while the session stays in a completed turn *)
(* no step takes the completion back or makes the status better.            *)
(***************************************************************************)
THEOREM CompletedTurnHoldsAlways == RunStateSpec => CompletedTurnHolds
<1> DEFINE A == completed /\ turn' = turn =>
                  /\ completed'
                  /\ runStatus' = runStatus \/ runStatus' \in is_safety_worsening
<1>1. ASSUME SessionInv, [RunStateNext]_runStateVars PROVE [A]_runStateVars
  <2>1. CASE UNCHANGED <<snapshot, accepted>>
    BY <2>1 DEF snapshot
  <2>2. CASE ApplyOne
    <3>1. PICK raw \in received : apply(raw)
      BY <2>2 DEF ApplyOne
    <3> DEFINE o == normalize_heuristic(raw)
    <3>2. CASE o.id \in applied \/ ~should_accept(o)
      BY <2>1, <3>1, <3>2 DEF apply
    <3>3. CASE ~(o.id \in applied \/ ~should_accept(o))
      <4>1. Accept(o) /\ AfterCompletion(o)
        BY <3>1, <3>3 DEF apply, should_accept
      <4> HIDE DEF o
      <4>2. ASSUME completed, turn' = turn
            PROVE  completed' /\ runStatus' \in is_safety_worsening
        <5>1. o.turn = turn \/ o.turn = None
          BY <4>1, <4>2 DEF Accept
        <5>2. QED  BY <4>1, <4>2, <5>1 DEF Accept, AfterCompletion
      <4>3. QED  BY <4>2
    <3>4. QED  BY <3>2, <3>3
  <2>3. CASE RunStateNext /\ ~ApplyOne
    BY <2>1, <2>3 DEF RunStateNext, Emit, Receive, Notice, Stamp
  <2>4. CASE UNCHANGED runStateVars
    BY <2>4
  <2>5. QED  BY <1>1, <2>2, <2>3, <2>4
<1>2. QED  BY <1>1, SessionInvHolds, PTL DEF RunStateSpec, CompletedTurnHolds
=============================================================================
