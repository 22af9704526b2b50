---------------------------- MODULE ClosureProof ----------------------------
(***************************************************************************)
(* The proof that closes a mission: a worker thread runs the declared      *)
(* checks one after the other in the worktree and scans the files around   *)
(* them (mission/executor.rs), the server evaluates the pack it returns    *)
(* (finalize_evidence_pack, ProofEvaluator::evaluate).  Meanwhile anything *)
(* may edit the worktree: the lease keeps other missions out, not editors, *)
(* build tools or the checks themselves.                                   *)
(*                                                                         *)
(* A check depends on the files of its relevant paths.  Its command is one *)
(* step, the moment it reads them.  The scan before the command only fills *)
(* base_tree_hash, which nothing compares, and is left out; so are manual  *)
(* checks, for which the worker produces no record.                        *)
(***************************************************************************)
EXTENDS Naturals, Sequences

CONSTANTS
  Path, Content,   \* a worktree maps paths to contents
  Plan,            \* the required checks, in the order declared
  Scope,           \* relevant_paths of every check
  Good,            \* the trees on which a check's command exits with 0
  NoTree

Tree == [Path -> Content]
Check == {Plan[i] : i \in DOMAIN Plan}

\* relevant_files: two trees look the same to a check.
Same(c, t, u) == \A p \in Scope[c] : t[p] = u[p]

ASSUME PlanAssumption == Plan \in Seq(Check) /\ Scope \in [Check -> SUBSET Path]
ASSUME NoTreeAssumption == NoTree \notin Tree
\* The relevant paths of a check are all it depends on.
ASSUME GoodAssumption ==
  /\ Good \in [Check -> SUBSET Tree]
  /\ \A c \in Check : \A t, u \in Tree : Same(c, t, u) => (t \in Good[c] <=> u \in Good[c])

VARIABLES
  tree,      \* the worktree
  status,    \* of the mission
  phase,     \* of the worker, "idle" when no proof is pending
  step,      \* the check whose turn it is
  exit,      \* exit_code = 0 of the command that ran last
  record,    \* evidence by check: the scan after it and whether it passed
  current,   \* the workspace of the pack
  ready, archive,   \* the workspaces of the two receipts
  disturbed  \* checks some file of which changed between command and scan,
             \* since the mission was last active

NoRecord == [tree |-> NoTree, passed |-> FALSE]
Record == [tree : Tree \cup {NoTree}, passed : BOOLEAN]
worker == <<phase, step, exit, record, current>>
verdict == <<status, ready, archive>>
vars == <<tree, verdict, worker, disturbed>>

Init ==
  /\ tree \in Tree
  /\ status = "active" /\ ready = NoTree /\ archive = NoTree
  /\ phase = "idle" /\ step = 1 /\ exit = FALSE
  /\ record = [c \in Check |-> NoRecord]
  /\ current = NoTree
  /\ disturbed = {}

\* Anything may write a file at any moment.
Edit(p, x) ==
  /\ tree[p] # x
  /\ tree' = [tree EXCEPT ![p] = x]
  /\ disturbed' = IF phase = "ran" /\ p \in Scope[Plan[step]]
                    THEN disturbed \cup {Plan[step]} ELSE disturbed
  /\ UNCHANGED <<verdict, worker>>

\* spawn_proof_worker
Spawn ==
  /\ phase = "idle"
  /\ phase' = "next" /\ step' = 1 /\ exit' = FALSE
  /\ record' = [c \in Check |-> NoRecord] /\ current' = NoTree
  /\ UNCHANGED tree

\* TurnCompleted of a run that executes its checks, and mission.close
TurnCompleted ==
  /\ status = "active" /\ status' = "review"
  /\ Spawn
  /\ disturbed' = {}
  /\ UNCHANGED <<ready, archive>>

Close ==
  /\ status = "ready"
  /\ Spawn
  /\ UNCHANGED <<verdict, disturbed>>

\* A handoff to another provider voids the receipts; it needs the lease the
\* worker holds.
Continue ==
  /\ status \in {"review", "ready", "blocked"} /\ phase = "idle"
  /\ status' = "active" /\ ready' = NoTree /\ archive' = NoTree
  /\ UNCHANGED <<tree, worker, disturbed>>

\* The command of the check reads the worktree.
RunCommand ==
  /\ phase = "next" /\ step <= Len(Plan)
  /\ exit' = (tree \in Good[Plan[step]])
  /\ phase' = "ran"
  /\ UNCHANGED <<tree, verdict, step, record, current, disturbed>>

\* The runner rejects the command or an artifact is missing: no record.
CommandRejected ==
  /\ phase = "next" /\ step <= Len(Plan)
  /\ step' = step + 1
  /\ UNCHANGED <<tree, verdict, phase, exit, record, current, disturbed>>

AfterScan ==
  /\ phase = "ran"
  /\ record' = [record EXCEPT ![Plan[step]] = [tree |-> tree, passed |-> exit]]
  /\ phase' = "next" /\ step' = step + 1
  /\ UNCHANGED <<tree, verdict, exit, current, disturbed>>

FinalScan ==
  /\ phase = "next" /\ step > Len(Plan)
  /\ current' = tree
  /\ phase' = "packed"
  /\ UNCHANGED <<tree, verdict, step, exit, record, disturbed>>

\* Cancelled, a failing scan, a pack that cannot be built, or a crash.
WorkerFails ==
  /\ phase # "idle"
  /\ phase' = "idle"
  /\ UNCHANGED <<tree, verdict, step, exit, record, current, disturbed>>

\* Mutant of Assessed: a record is not compared with the final scan.
AssessedBlindly(c) == record[c].tree # NoTree /\ record[c].passed

\* CommandEvidence::assess against the workspace of the pack.
Assessed(c) ==
  /\ record[c].tree # NoTree /\ record[c].passed
  /\ Same(c, record[c].tree, current)

\* Mutant of Finalize: the archive proof is not bound to the ready receipt.
FinalizeUnbound ==
  LET verified == \A c \in Check : Assessed(c)
  IN  /\ phase = "packed" /\ phase' = "idle"
      /\ \/ /\ status = "review" /\ verified
            /\ status' = "ready" /\ ready' = current /\ UNCHANGED archive
         \/ status = "review" /\ ~verified /\ UNCHANGED verdict
         \/ /\ status = "ready" /\ verified
            /\ status' = "archived" /\ archive' = current /\ UNCHANGED ready
         \/ /\ status = "ready" /\ ~verified
            /\ status' = "blocked" /\ UNCHANGED <<ready, archive>>
      /\ UNCHANGED <<tree, step, exit, record, current, disturbed>>

\* finalize_evidence_pack.  The worktree is not scanned again.
Finalize ==
  LET verified == \A c \in Check : Assessed(c)
  IN  /\ phase = "packed" /\ phase' = "idle"
      /\ \/ /\ status = "review" /\ verified
            /\ status' = "ready" /\ ready' = current /\ UNCHANGED archive
         \/ status = "review" /\ ~verified /\ UNCHANGED verdict
         \/ /\ status = "ready" /\ verified /\ current = ready
            /\ status' = "archived" /\ archive' = current /\ UNCHANGED ready
         \/ /\ status = "ready" /\ ~(verified /\ current = ready)
            /\ status' = "blocked" /\ UNCHANGED <<ready, archive>>
      /\ UNCHANGED <<tree, step, exit, record, current, disturbed>>

WorkerStep == RunCommand \/ CommandRejected \/ AfterScan \/ FinalScan \/ WorkerFails

Next ==
  \/ \E p \in Path, x \in Content : Edit(p, x)
  \/ TurnCompleted \/ Close \/ Continue
  \/ WorkerStep
  \/ Finalize

Spec == Init /\ [][Next]_vars

(***************************************************************************)
(* Properties.                                                             *)
(***************************************************************************)
\* The worker has its types: a command that ran has a check, a pack that is
\* evaluated holds the workspace of the final scan.
TypeOK ==
  /\ tree \in Tree
  /\ status \in {"active", "review", "ready", "blocked", "archived"}
  /\ phase \in {"idle", "next", "ran", "packed"}
  /\ step \in 1..Len(Plan) + 1 /\ (phase = "ran" => step <= Len(Plan))
  /\ exit \in BOOLEAN
  /\ record \in [Check -> Record]
  /\ current \in Tree \cup {NoTree} /\ (phase = "packed" => current # NoTree)
  /\ ready \in Tree \cup {NoTree} /\ archive \in Tree \cup {NoTree}
  /\ disturbed \subseteq Check

\* A verified workspace passes every check whose files were left alone between
\* its command and the scan after it, whatever was edited at any other time:
\* the comparison with the final scan catches every later change.
ProofIsSound ==
  \A c \in Check \ disturbed :
    /\ ready # NoTree => ready \in Good[c]
    /\ archive # NoTree => archive \in Good[c]

\* Both receipts of a closed mission are about one workspace.
ReceiptsAgree ==
  /\ status \in {"ready", "archived"} => ready # NoTree
  /\ status = "archived" => archive = ready

\* Evidence never outlives a change of what was checked: a workspace with a
\* ready receipt passes every check.
VerifiedPasses == ready # NoTree => \A c \in Check : ready \in Good[c]
=============================================================================
