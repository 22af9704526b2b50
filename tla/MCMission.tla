------------------------------ MODULE MCMission ------------------------------
(***************************************************************************)
(* Model values for RunState, AttentionInbox and ClosureProof: what the    *)
(* user of a mission is told about its session, its requests and its       *)
(* proof.  The three share no state, so the reachable states of one do not *)
(* depend on the others: each behaviour is of one of them, the others      *)
(* standing still, and TLC explores the sum of the three state spaces.     *)
(***************************************************************************)
EXTENDS RunState, AttentionInbox, ClosureProof, TLC

CONSTANTS r1, r2, c1, c2, p1, p2

VARIABLE focus    \* the part that works

(* A permission with a deadline, the same request with other contents, a   *)
(* question without one, a finished turn that can only be dismissed.       *)
Permission == [kind |-> "PermissionRequest", risk |-> "Low", request |-> r1,
               native |-> FALSE, created |-> 0, expires |-> 2]
Conflicting == [kind |-> "PermissionRequest", risk |-> "Critical", request |-> r1,
               native |-> FALSE, created |-> 1, expires |-> None]
Question == [kind |-> "ProviderQuestion", risk |-> "Low", request |-> r2,
               native |-> FALSE, created |-> 0, expires |-> None]
TurnDone == [kind |-> "TurnComplete", risk |-> "Low", request |-> None,
               native |-> TRUE, created |-> 0, expires |-> 2]

EventSymmetry == Permutations(Event)
MCRequest == {r1, r2}
MCPayload == {Permission, Conflicting, Question, TurnDone}

\* Two checks share a path; each passes on some of the trees it can see.
MCPlan == <<c1, c2>>
MCScope == c1 :> {p1} @@ c2 :> {p1, p2}
MCGood == c1 :> {t \in Tree : t[p1] # 0} @@ c2 :> {t \in Tree : t[p1] = t[p2]}

MissionInit ==
    /\ RunStateInit /\ InboxInit /\ Init
    /\ focus \in {"state", "inbox", "proof"}
    /\ focus # "proof" => tree = [p \in Path |-> 0]

MissionNext ==
    \/ focus = "state" /\ RunStateNext /\ UNCHANGED <<focus, inboxVars, vars>>
    \/ focus = "inbox" /\ InboxNext /\ UNCHANGED <<focus, runStateVars, vars>>
    \/ focus = "proof" /\ Next /\ UNCHANGED <<focus, runStateVars, inboxVars>>

MissionSpec == MissionInit /\ [][MissionNext]_<<focus, runStateVars, inboxVars, vars>>
=============================================================================
