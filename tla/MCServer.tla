------------------------------ MODULE MCServer ------------------------------
(***************************************************************************)
(* Model values for LiveHandoff and PtyActor.  LiveHandoff has a pane's    *)
(* actor pause and resume in one step; PtyActor is that actor in detail.   *)
(* Neither reads the other's variables: each behaviour is of one of them,  *)
(* the other standing still.                                               *)
(***************************************************************************)
EXTENDS LiveHandoff, PtyActor

VARIABLE focus    \* the part that works

ServerInit == HandoffInit /\ PtyInit /\ focus \in {"handoff", "pty"}

ServerNext ==
    \/ focus = "handoff" /\ HandoffNext /\ UNCHANGED <<focus, ptyVars>>
    \/ focus = "pty" /\ PtyNext /\ UNCHANGED <<focus, handoffVars>>

ServerSpec ==
    /\ ServerInit /\ [][ServerNext]_<<focus, handoffVars, ptyVars>>
    /\ WF_handoffVars(focus = "handoff" /\ OldWorks)
    /\ \A n \in New : WF_handoffVars(focus = "handoff" /\ NewNext(n))
    /\ WF_ptyVars(focus = "pty" /\ ActorNext)
    /\ SF_ptyVars(focus = "pty" /\ WriteByte)
=============================================================================
