--------------------------- MODULE MCMissionJournal ---------------------------
(***************************************************************************)
(* Model values for MissionJournal.  The two processes are the server and  *)
(* its handoff successor (or the same server restarted); two identifiers   *)
(* and two payloads suffice for a retry, a conflict and a second event.    *)
(***************************************************************************)
EXTENDS MissionJournal, TLC

Symmetry == Permutations(Process) \cup Permutations(EventId)
=============================================================================
