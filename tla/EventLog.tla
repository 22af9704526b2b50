------------------------------ MODULE EventLog ------------------------------
(***************************************************************************)
(* What MissionStore::commit promises its callers, without files, locks,   *)
(* processes or crashes: a log of events that only grows, holds no         *)
(* identifier twice, and contains everything that was acknowledged.        *)
(***************************************************************************)
EXTENDS Naturals, Sequences

CONSTANTS EventId, Payload

VARIABLES log, acknowledged

Event == [id : EventId, payload : Payload]

Init == log = <<>> /\ acknowledged = {}

\* An event is appended, once; its caller need not learn of it.
Record(e) ==
  /\ \A i \in 1..Len(log) : log[i].id # e.id
  /\ log' = Append(log, e)
  /\ UNCHANGED acknowledged

\* A caller is told that an event is recorded, any number of times.
Acknowledge(e) ==
  /\ \E i \in 1..Len(log) : log[i] = e
  /\ acknowledged' = acknowledged \cup {e}
  /\ UNCHANGED log

Next == \E e \in Event : Record(e) \/ Acknowledge(e)

Spec == Init /\ [][Next]_<<log, acknowledged>>
=============================================================================
