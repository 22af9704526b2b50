---------------------------- MODULE MCOwnership ----------------------------
(***************************************************************************)
(* Model values for AgentAuthority and PortRegistry.  Both decide whether  *)
(* a claim still counts whose claimant may be gone: a hook's word for a    *)
(* terminal, a process's lease on a port.  They share no state: each       *)
(* behaviour is of one of them, the other standing still.                  *)
(*                                                                         *)
(* pi reports its life cycle through hooks, claude only its sessions.      *)
(***************************************************************************)
EXTENDS AgentAuthority, PortRegistry, TLC

CONSTANTS pi, claude

MCAgentOf == pi :> "pi" @@ claude :> "claude"
MCReplaces == pi :> {"resume"} @@ claude :> {"resume"}
MCAgent == {"pi", "claude"}
MCScreen == {<<"Idle", FALSE>>, <<"Blocked", TRUE>>}
\* Nothing orders sessions, runtimes or requests; what is CHOOSEn among leases
\* is the only one, by RegistryLoads.
OwnershipSymmetry == Permutations(Session) \cup Permutations(Runtime) \cup Permutations(Request)

VARIABLE focus    \* the part that works

OwnershipInit ==
    /\ AuthorityInit /\ PortsInit
    /\ focus \in {"authority", "ports"}
    /\ focus = "ports" => persisted = None

OwnershipNext ==
    \/ focus = "authority" /\ AuthorityNext /\ UNCHANGED <<focus, portVars>>
    \/ focus = "ports" /\ PortsNext /\ UNCHANGED <<focus, authorityVars>>

OwnershipSpec == OwnershipInit /\ [][OwnershipNext]_<<focus, authorityVars, portVars>>
=============================================================================
