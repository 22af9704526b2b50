--------------------------- MODULE MCManagedRuns ---------------------------
(***************************************************************************)
(* Model values for ManagedRuns.  Two runs are a source and its handoff;   *)
(* both questions come from r1, which may be either of the two, so that a  *)
(* run can have two of them open.                                          *)
(***************************************************************************)
EXTENDS ManagedRuns, TLC

CONSTANTS r1, r2, a1, a2

MCAsker == a1 :> r1 @@ a2 :> r1
MCAskerOne == a1 :> r1
=============================================================================
