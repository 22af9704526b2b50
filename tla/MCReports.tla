------------------------------ MODULE MCReports -----------------------------
(***************************************************************************)
(* What is reported of agents: by the Claude adapter, with a provider and   *)
(* an owner that do whatever they may, and by the event subscriptions of    *)
(* the socket API.  They share no state: each behaviour is of one of them,  *)
(* the other standing still.                                                *)
(***************************************************************************)
EXTENDS ClaudeAdapter, EventSubscriptions

VARIABLE focus    \* the part that works

ReportsInit ==
    /\ ClaudeInit /\ EventsInit
    /\ focus \in {"claude", "events"}
    /\ focus # "events" => title = CHOOSE t \in Title : TRUE

ReportsNext ==
    \/ focus = "claude" /\ ClaudeNext /\ UNCHANGED <<focus, eventVars>>
    \/ focus = "events" /\ EventsNext /\ UNCHANGED <<focus, claudeVars>>

ReportsSpec ==
    /\ ReportsInit
    /\ [][ReportsNext]_<<focus, claudeVars, eventVars>>
    /\ WF_claudeVars(focus = "claude" /\ TimesOut)
    /\ WF_eventVars(focus = "events" /\ SubscriberWorks)
    /\ SF_eventVars(focus = "events" /\ PaneGet)
=============================================================================
