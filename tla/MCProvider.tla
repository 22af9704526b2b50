----------------------------- MODULE MCProvider -----------------------------
(***************************************************************************)
(* Model values for MissionProjection and OpenCodeAdapter: what a mission's *)
(* record admits of runs, questions and proofs, and what an adapter makes   *)
(* of what its provider says.  Both must keep what belongs to an earlier    *)
(* run or turn out of the one at hand.  They share no state: each behaviour *)
(* is of one of them, the other standing still.                             *)
(*                                                                         *)
(* The adapter is followed twice: with requests and up to two events under  *)
(* way, and without requests and with up to MaxStream.                      *)
(***************************************************************************)
EXTENDS MissionProjection, OpenCodeAdapter, TLC

VARIABLE focus    \* the part that works

ProviderInit == Init /\ OpenCodeInit /\ focus \in {"projection", "requests", "prompts"}

ProviderNext ==
    /\ UNCHANGED focus
    /\ \/ focus = "projection" /\ Next /\ UNCHANGED openCodeVars
       \/ focus = "requests" /\ OpenCodeNext /\ Len(stream') <= 2 /\ UNCHANGED projection
       \/ focus = "prompts" /\ OpenCodeNext /\ asked' \cup question' = {} /\ UNCHANGED projection

ProviderSpec == ProviderInit /\ [][ProviderNext]_<<focus, projection, openCodeVars>>

\* Nothing orders the runs or the questions of a mission.
ProviderSymmetry == Permutations(Run) \cup Permutations(Attention)
=============================================================================
