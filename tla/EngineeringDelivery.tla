------------------------ MODULE EngineeringDelivery ------------------------
(* The engineering agency delivering a contract: the DAG that               *)
(* planning.plan_contract lays out (architecture, then analyze, implement   *)
(* and verify for each requirement, then integration), the cycles of        *)
(* EngineeringAgencyRuntime.run_dag that execute its ready nodes            *)
(* concurrently, one git worktree per requirement, the serialized merge of  *)
(* a verified branch into the base checkout, the recovery tasks that the    *)
(* replanner inserts, and the checkpoint a restarted process resumes from.  *)
(*                                                                          *)
(* Contents are abstracted to revisions: a requirement's work is the number *)
(* of edits made in its worktree (0: none), and a tree of the base checkout *)
(* gives the revision of each requirement that is merged in it. What the     *)
(* verification commands find is left open.                                  *)
EXTENDS Naturals, FiniteSets

CONSTANTS Reqs,          \* the contract's requirements
          None,
          MaxParallel,   \* max_parallel_nodes
          MaxActive,     \* the worktree manager's max_active
          MaxRecoveries, \* bound on the recovery nodes in the DAG
          Long,          \* the requirements whose node ids are long
          MaxEdits,      \* bound on the edits of a requirement
          MaxCrashes     \* bound on the process's crashes

ASSUME DeliveryAssumption ==
  /\ None \notin Reqs /\ IsFiniteSet(Reqs) /\ Long \subseteq Reqs
  /\ {MaxParallel, MaxActive} \subseteq Nat \ {0}
  /\ {MaxRecoveries, MaxEdits, MaxCrashes} \subseteq Nat

VARIABLES
  status,     \* the DAG in memory: the status of each of its nodes
  deps,       \* and the nodes each one depends on
  agency,     \* where run_dag is
  run,        \* the nodes of the current cycle, and the point each has reached
  made,       \* the replanner's counter of recovery nodes
  bindings,   \* the worktree manager's bindings
  worktree,   \* on disk: the revision in the worktree of a requirement
  branch,     \* on disk: the revision its branch is at
  base,       \* on disk: the tree committed in the base checkout
  staged,     \* on disk: a merge begun there and not committed
  dirty,      \* on disk: uncommitted edits made in the base checkout
  checkpoint, \* on disk: the last checkpoint
  seen,       \* history: the revisions that passed each requirement's verification
  accepted,   \* history: the trees that were staged or committed when the merged-tree
              \* verification passed
  crashes

memory == <<status, deps, agency, run, made, bindings>>
disk == <<worktree, branch, base, staged, dirty, checkpoint>>
vars == <<status, deps, agency, run, made, bindings, worktree, branch, base,
          staged, dirty, checkpoint, seen, accepted, crashes>>

\* A node: "verify" says that its id ends in _verify. A recovery node's id is
\* recovery_<number>_<kind>_<id of the failed node>, cut at 120 characters: it keeps
\* that ending, unless it recovers a recovery node of a requirement with a long id.
Task(kind, r) == [kind |-> kind, req |-> r, verify |-> kind = "verify", of |-> None, no |-> 0]
Architecture == Task("architecture", None)
Integration == Task("integration", None)
KeepsEnding(n) == n.of = None \/ n.req \notin Long
RecoveryOf(n, i) == [kind |-> "recovery", req |-> n.req, verify |-> n.verify /\ KeepsEnding(n),
                     of |-> n, no |-> i]
Planned == {Architecture, Integration}
             \cup {Task(k, r) : k \in {"analyze", "implement", "verify"}, r \in Reqs}

PlannedDeps(n) ==
  CASE n.kind = "architecture" -> {}
    [] n.kind = "analyze"      -> {Architecture}
    [] n.kind = "implement"    -> {Task("analyze", n.req)}
    [] n.kind = "verify"       -> {Task("implement", n.req)}
    [] n.kind = "integration"  -> {Task("verify", r) : r \in Reqs}

\* The kinds of nodes whose tool scope can change files: patch_file or run_command.
Writers == {"implement", "verify", "integration", "recovery"}
Transient == {"COGNITIVE_WORK", "VERIFYING"}
NoRun == [n \in {} |-> "done"]

-----------------------------------------------------------------------------
(* Types.                                                                    *)

TaskNodeStatus == {"PLANNED", "READY", "COGNITIVE_WORK", "VERIFYING", "SUCCEEDED", "REPLAN_REQUIRED"}
TaskNode(n, nodes) ==
  \/ n \in Planned
  \/ n.of \in nodes /\ n.no \in 1 .. MaxRecoveries /\ n = RecoveryOf(n.of, n.no)

\* The nodes of a graph depend on nodes of the graph.
TaskDAG(st, dp) ==
  /\ \A n \in DOMAIN st : TaskNode(n, DOMAIN st) /\ st[n] \in TaskNodeStatus
  /\ DOMAIN dp = DOMAIN st /\ \A n \in DOMAIN dp : dp[n] \subseteq DOMAIN st

Revision == 0 .. MaxEdits
Tree == [Reqs -> Revision]
RequirementWorktreeBinding == [verified : Revision, integrated : BOOLEAN]
Bindings == [Reqs -> {None} \cup RequirementWorktreeBinding]

ASSUME NoneAssumption == None \notin RequirementWorktreeBinding \cup Revision

EngineeringMissionCheckpoint(c) ==
  /\ TaskDAG(c.status, c.deps) /\ c.bindings \in Bindings
  /\ c.base \in [tree : Tree, dirty : BOOLEAN]
  /\ c.worktrees \in [{r \in Reqs : c.bindings[r] # None} -> {None} \cup Revision]

\* A run of a node, while its cycle lasts.
EngineeringNodeRun == {"acquire", "work", "verify", "commit", "merge", "merged tree", "commit merge",
                       "remove", "done"}

TypeOK ==
  /\ TaskDAG(status, deps) /\ bindings \in Bindings
  /\ agency \in {"running", "replanning", "stopped", "raised", "down"}
  /\ DOMAIN run \subseteq DOMAIN status /\ \A n \in DOMAIN run : run[n] \in EngineeringNodeRun
  /\ made \in 0 .. MaxRecoveries /\ crashes \in 0 .. MaxCrashes
  /\ worktree \in [Reqs -> {None} \cup Revision] /\ branch \in [Reqs -> {None} \cup Revision]
  /\ base \in Tree /\ staged \in {None} \cup Tree /\ dirty \in BOOLEAN
  /\ checkpoint = None \/ EngineeringMissionCheckpoint(checkpoint)
  /\ seen \in [Reqs -> SUBSET Revision] /\ accepted \subseteq Tree

Init ==
  /\ status = [n \in Planned |-> IF n = Architecture THEN "READY" ELSE "PLANNED"]
  /\ deps = [n \in Planned |-> PlannedDeps(n)]
  /\ agency = "running" /\ run = NoRun /\ made = 0
  /\ bindings = [r \in Reqs |-> None]
  /\ worktree = [r \in Reqs |-> None] /\ branch = [r \in Reqs |-> None]
  /\ base = [r \in Reqs |-> 0] /\ staged = None /\ dirty = FALSE
  /\ checkpoint = None
  /\ seen = [r \in Reqs |-> {}] /\ accepted = {[r \in Reqs |-> 0]}
  /\ crashes = 0

-----------------------------------------------------------------------------
(* The git commands. A branch is made only once, a commit needs changes, and *)
(* a worktree with uncommitted edits is not removed.                         *)

CreateTaskWorktree(r) ==
  /\ branch[r] = None
  /\ branch' = [branch EXCEPT ![r] = 0]
  /\ worktree' = [worktree EXCEPT ![r] = 0]
Commit(r) ==
  /\ worktree[r] # branch[r]
  /\ branch' = [branch EXCEPT ![r] = worktree[r]]
StatusClean == ~dirty /\ staged = None
\* A merge that brings nothing new leaves nothing to commit.
MergeNoCommit(r) == staged' = IF base[r] = branch[r] THEN None ELSE [base EXCEPT ![r] = branch[r]]
AbortMerge == staged' = None
CommitStaged == staged # None /\ base' = staged /\ staged' = None
RemoveTree(r) ==
  /\ worktree[r] = branch[r]
  /\ worktree' = [worktree EXCEPT ![r] = None]

-----------------------------------------------------------------------------
(* A cycle of run_dag.                                                       *)

\* TaskDAGMutator.ready_nodes: a planned node without dependencies is never ready.
Ready(n) == \/ status[n] = "READY"
            \/ /\ status[n] = "PLANNED" /\ deps[n] # {}
               /\ \A d \in deps[n] : status[d] = "SUCCEEDED"
ReadyNodes == {n \in DOMAIN status : Ready(n)}
Bound == {r \in Reqs : bindings[r] # None}

\* RequirementWorktreeManager.select_schedulable; which of the ready nodes come
\* first in the DAG is abstracted.
Fits(S) == /\ Cardinality(S) <= MaxParallel
           /\ Cardinality((Bound \cup {n.req : n \in S}) \ {None})
                <= (IF Cardinality(Bound) > MaxActive THEN Cardinality(Bound) ELSE MaxActive)
Selections == {S \in SUBSET ReadyNodes :
                 S # {} /\ Fits(S) /\ \A n \in ReadyNodes \ S : ~Fits(S \cup {n})}

StartCycle ==
  /\ agency = "running" /\ run = NoRun
  /\ status' = [n \in DOMAIN status |-> IF Ready(n) THEN "READY" ELSE status[n]]
  /\ IF Selections = {} THEN agency' = "stopped" /\ run' = run
     ELSE agency' = agency /\ \E S \in Selections : run' = [n \in S |-> "acquire"]
  /\ UNCHANGED <<deps, made, bindings, disk, seen, accepted, crashes>>

Goes(n, phase) == run' = [run EXCEPT ![n] = phase]

\* execute_node raises: gather raises, and run_dag with it; the other nodes of the
\* cycle run on, and nothing waits for them.
Raises(n) ==
  /\ agency' = "raised" /\ run' = [m \in DOMAIN run \ {n} |-> run[m]]
  /\ UNCHANGED <<status, deps, made>>

Unbound(n) == n.req # None /\ bindings[n.req] = None

\* acquire_for_node.
Acquire(n) ==
  /\ n \in DOMAIN run /\ run[n] = "acquire"
  /\ \/ ~Unbound(n) /\ UNCHANGED <<bindings, worktree, branch>>
     \/ /\ Unbound(n) /\ CreateTaskWorktree(n.req)
        /\ bindings' = [bindings EXCEPT ![n.req] = [verified |-> 0, integrated |-> FALSE]]
  /\ Goes(n, "work") /\ status' = [status EXCEPT ![n] = "COGNITIVE_WORK"]
  /\ UNCHANGED <<deps, agency, made, base, staged, dirty, checkpoint, seen, accepted, crashes>>

AcquireFails(n) ==
  /\ n \in DOMAIN run /\ run[n] = "acquire"
  /\ Unbound(n) /\ Raises(n)
  /\ UNCHANGED <<bindings, disk, seen, accepted, crashes>>

\* A tool call of the node changes files: in the worktree of its requirement, or in
\* the base checkout, where a command that names no directory runs whatever the node.
Edit(n) ==
  /\ n \in DOMAIN run /\ run[n] = "work" /\ n.kind \in Writers
  /\ \/ dirty' = TRUE /\ UNCHANGED worktree
     \/ /\ n.req # None /\ worktree[n.req] < MaxEdits
        /\ worktree' = [worktree EXCEPT ![n.req] = @ + 1]
        /\ UNCHANGED dirty
  /\ UNCHANGED <<memory, branch, base, staged, checkpoint, seen, accepted, crashes>>

\* The model cannot be reached, or keeps proposing tools until its iterations run out.
ModelFails(n) ==
  /\ n \in DOMAIN run /\ run[n] = "work"
  /\ \/ Raises(n)
     \/ /\ status' = [status EXCEPT ![n] = "REPLAN_REQUIRED"]
        /\ Goes(n, "done") /\ UNCHANGED <<deps, agency, made>>
  /\ UNCHANGED <<bindings, disk, seen, accepted, crashes>>

BeginVerification(n) ==
  /\ n \in DOMAIN run /\ run[n] = "work"
  /\ Goes(n, "verify") /\ status' = [status EXCEPT ![n] = "VERIFYING"]
  /\ UNCHANGED <<deps, agency, made, bindings, disk, seen, accepted, crashes>>

\* ExecutableVerificationAdapter.verify: the required checks passed, and there was one.
Verdicts == {"accepted", "rejected"}

\* An accepted node whose id ends in _verify goes on to integrate its requirement.
Decide(n, verdict) ==
  /\ n \in DOMAIN run /\ run[n] = "verify"
  /\ IF verdict = "accepted"
     THEN /\ status' = [status EXCEPT ![n] = "SUCCEEDED"]
          /\ Goes(n, IF n.verify THEN "commit" ELSE "done")
          /\ seen' = IF n.verify THEN [seen EXCEPT ![n.req] = @ \cup {worktree[n.req]}] ELSE seen
     ELSE status' = [status EXCEPT ![n] = "REPLAN_REQUIRED"] /\ Goes(n, "done") /\ UNCHANGED seen
  /\ UNCHANGED <<deps, agency, made, bindings, disk, accepted, crashes>>

-----------------------------------------------------------------------------
(* finalize_verified_requirement, under the integration lock.                *)

\* Mutant: an integration that failed leaves the node SUCCEEDED.
StillSucceeded(n) == status' = status /\ Goes(n, "done") /\ UNCHANGED <<deps, agency, made>>

IntegrationFails(n) ==
  status' = [status EXCEPT ![n] = "REPLAN_REQUIRED"] /\ Goes(n, "done") /\ UNCHANGED <<deps, agency, made>>

Integrating == {n \in DOMAIN run : run[n] \in {"merge", "merged tree", "commit merge", "remove"}}
Carries(n, phase) == Goes(n, phase) /\ UNCHANGED <<status, deps, agency, made>>

\* The commit is made once.
CommitWork(n) ==
  /\ n \in DOMAIN run /\ run[n] = "commit" /\ Integrating = {}
  /\ \/ /\ bindings[n.req].verified # 0
        /\ Carries(n, "merge") /\ UNCHANGED <<bindings, branch>>
     \/ /\ bindings[n.req].verified = 0 /\ Commit(n.req)
        /\ bindings' = [bindings EXCEPT ![n.req].verified = worktree[n.req]]
        /\ Carries(n, "merge")
     \/ /\ bindings[n.req].verified = 0
        /\ IntegrationFails(n) /\ UNCHANGED <<bindings, branch>>
  /\ UNCHANGED <<worktree, base, staged, dirty, checkpoint, seen, accepted, crashes>>

\* SerializedMergeCoordinator._safe_abort: an abort that fails is passed over.
SafeAbort == AbortMerge \/ UNCHANGED staged

\* Mutant: the merge is committed without the verification of its tree.
CommitAtOnce == "commit merge"
AfterMerge == "merged tree"

\* The base checkout must be clean and the branch where it was verified. A merge that
\* conflicts or fails is aborted; it stays staged when the abort fails, or when the
\* conflicts cannot be listed, where no abort is tried.
BeginMerge(n) ==
  /\ n \in DOMAIN run /\ run[n] = "merge"
  /\ \/ bindings[n.req].integrated /\ Carries(n, "remove") /\ UNCHANGED staged
     \/ /\ ~bindings[n.req].integrated
        /\ StatusClean /\ branch[n.req] = bindings[n.req].verified /\ MergeNoCommit(n.req)
        /\ Carries(n, AfterMerge)
     \/ ~bindings[n.req].integrated /\ IntegrationFails(n) /\ UNCHANGED staged
     \/ /\ ~bindings[n.req].integrated /\ StatusClean
        /\ branch[n.req] = bindings[n.req].verified /\ MergeNoCommit(n.req)
        /\ IntegrationFails(n)
  /\ UNCHANGED <<bindings, worktree, branch, base, dirty, checkpoint, seen, accepted, crashes>>

\* What the commands see is the merge that is staged, and whatever edits of commands
\* without a directory lie beside it; those are not in the tree that is committed.
CheckedOut == IF staged # None THEN staged ELSE base

VerifyMergedTree(n) ==
  /\ n \in DOMAIN run /\ run[n] = "merged tree"
  /\ \/ accepted' = accepted \cup {CheckedOut} /\ Carries(n, "commit merge") /\ UNCHANGED staged
     \/ IntegrationFails(n) /\ SafeAbort /\ UNCHANGED accepted
  /\ UNCHANGED <<bindings, worktree, branch, base, dirty, checkpoint, seen, crashes>>

\* Asking for the new commit's name may fail once it is made: the requirement is then
\* in the base checkout and its binding does not say so.
CommitMerge(n) ==
  /\ n \in DOMAIN run /\ run[n] = "commit merge"
  /\ \/ /\ CommitStaged
        /\ bindings' = [bindings EXCEPT ![n.req].integrated = TRUE]
        /\ Carries(n, "remove")
     \/ CommitStaged /\ IntegrationFails(n) /\ UNCHANGED bindings
     \/ IntegrationFails(n) /\ SafeAbort /\ UNCHANGED <<base, bindings>>
  /\ UNCHANGED <<worktree, branch, dirty, checkpoint, seen, accepted, crashes>>

\* After the removal the code graph is refreshed, which may fail too.
RemoveWorktree(n) ==
  /\ n \in DOMAIN run /\ run[n] = "remove"
  /\ \/ /\ RemoveTree(n.req)
        /\ bindings' = [bindings EXCEPT ![n.req] = None]
        /\ Carries(n, "done") \/ IntegrationFails(n)
     \/ IntegrationFails(n) /\ UNCHANGED <<worktree, bindings>>
  /\ UNCHANGED <<branch, base, staged, dirty, checkpoint, seen, accepted, crashes>>

-----------------------------------------------------------------------------
(* The end of a cycle, replanning, and restarts.                             *)

\* What the workspace fingerprint sees of the base checkout, and of the worktrees.
BaseFiles == [tree |-> CheckedOut, dirty |-> dirty]
WorktreeFiles(S) == [r \in S |-> worktree[r]]

SaveCheckpoint ==
  /\ agency = "running" /\ run # NoRun /\ \A n \in DOMAIN run : run[n] = "done"
  /\ checkpoint' = [status |-> status, deps |-> deps, bindings |-> bindings,
                    base |-> BaseFiles, worktrees |-> WorktreeFiles(Bound)]
  /\ agency' = "replanning"
  /\ UNCHANGED <<status, deps, run, made, bindings, worktree, branch, base, staged, dirty,
                 seen, accepted, crashes>>

\* DeterministicFailureClassifier: whose failures are of a known class is left open,
\* and the class is not part of the recovery node's id here.
Classified(S) == SUBSET S

\* AdaptiveEngineeringReplanner.replan for every failed node of the cycle: those
\* whose failure is of a known class get a recovery node before them.
ToReplan == {n \in DOMAIN run : status[n] = "REPLAN_REQUIRED"}
Numberings(S) == {f \in [S -> made + 1 .. made + Cardinality(S)] :
                    \A a, b \in S : a # b => f[a] # f[b]}
Recoveries == {n \in DOMAIN status : n.kind = "recovery"}

DepsAfter(f) == LET new == {RecoveryOf(n, f[n]) : n \in DOMAIN f}
                IN [n \in DOMAIN deps \cup new |->
                      IF n \in new THEN deps[n.of]
                      ELSE IF n \in DOMAIN f THEN {RecoveryOf(n, f[n])} ELSE deps[n]]

Replan ==
  /\ agency = "replanning" /\ run' = NoRun
  /\ IF ToReplan = {} THEN agency' = "running" /\ UNCHANGED <<status, deps, made>>
     ELSE \E S \in Classified(ToReplan) :
       \/ S = {} /\ agency' = "stopped" /\ UNCHANGED <<status, deps, made>>
       \/ /\ S # {} /\ Cardinality(Recoveries) + Cardinality(S) <= MaxRecoveries
          /\ \E f \in Numberings(S) :
               LET new == {RecoveryOf(n, f[n]) : n \in S} IN
               IF new \cap DOMAIN status # {}      \* PlanMutationError: duplicate node id
               THEN agency' = "raised" /\ UNCHANGED <<status, deps, made>>
               ELSE /\ agency' = "running" /\ made' = made + Cardinality(S)
                    /\ deps' = DepsAfter(f)
                    /\ status' = [n \in DOMAIN deps' |->
                                    IF n \in S \cup new THEN "PLANNED" ELSE status[n]]
  /\ UNCHANGED <<bindings, disk, seen, accepted, crashes>>

Crash ==
  /\ crashes < MaxCrashes /\ crashes' = crashes + 1
  /\ agency' = "down" /\ run' = NoRun /\ made' = 0
  /\ bindings' = [r \in Reqs |-> None]
  /\ status' = [n \in {} |-> ""] /\ deps' = [n \in {} |-> {}]
  /\ UNCHANGED <<disk, seen, accepted>>

\* EngineeringCheckpointStore.recover fails closed on any drift.
\* Mutant: only the base checkout is compared.
BaseDrifted == checkpoint.base # BaseFiles
Drifted == \/ checkpoint.base # BaseFiles
           \/ checkpoint.worktrees # WorktreeFiles(DOMAIN checkpoint.worktrees)

RecoverFromCheckpoint ==
  /\ agency = "down" /\ checkpoint # None /\ ~Drifted
  /\ agency' = "running"
  /\ status' = [n \in DOMAIN checkpoint.status |->
                  IF checkpoint.status[n] \in Transient THEN "REPLAN_REQUIRED" ELSE checkpoint.status[n]]
  /\ deps' = checkpoint.deps /\ bindings' = checkpoint.bindings
  /\ UNCHANGED <<run, made, disk, seen, accepted, crashes>>

Next ==
  \/ StartCycle \/ SaveCheckpoint \/ Replan \/ Crash \/ RecoverFromCheckpoint
  \/ \E n \in DOMAIN run : Acquire(n)
  \/ \E n \in DOMAIN run : AcquireFails(n)
  \/ \E n \in DOMAIN run : Edit(n)
  \/ \E n \in DOMAIN run : ModelFails(n)
  \/ \E n \in DOMAIN run : BeginVerification(n)
  \/ \E n \in DOMAIN run, verdict \in Verdicts : Decide(n, verdict)
  \/ \E n \in DOMAIN run : CommitWork(n)
  \/ \E n \in DOMAIN run : BeginMerge(n)
  \/ \E n \in DOMAIN run : VerifyMergedTree(n)
  \/ \E n \in DOMAIN run : CommitMerge(n)
  \/ \E n \in DOMAIN run : RemoveWorktree(n)

Spec == Init /\ [][Next]_vars

-----------------------------------------------------------------------------
\* Whatever fails or restarts, every tree the base checkout was ever committed at was
\* what the merge had staged when the merged-tree verification passed, and holds of
\* each requirement only a revision that its own verification passed (REQ-ENG-017,
\* REQ-ENG-030). Uncommitted edits that another node's command left beside the merge
\* were verified with it, and are not part of the tree.
BaseVerified == /\ base \in accepted
                /\ \A r \in Reqs : base[r] # 0 => base[r] \in seen[r]

\* The project-level integration node never runs, and so the DAG is never
\* complete, before the work of every requirement is in the base checkout
\* (planning.py, agency.py): through failed merges, recovery tasks and restarts.
IntegrationReached == \/ Integration \in DOMAIN run
                      \/ Integration \in DOMAIN status /\ status[Integration] = "SUCCEEDED"
IntegrationSeesAll == IntegrationReached => \A r \in Reqs : base[r] # 0

\* A bound worktree is on disk, also after a restart from a checkpoint
\* (worktrees.py, checkpointing.py): tools of the node would otherwise run in a
\* directory that is gone.
BoundWorktreesExist == \A r \in Bound : worktree[r] # None

\* The revision merged is the one that the requirement's verification passed last
\* (merge_coordinator.py: "binds verification to an immutable branch commit").
MergedIsLatestVerified ==
  [][\A r \in Reqs : base'[r] # base[r] => \A v \in seen[r] : v <= base'[r]]_vars
=============================================================================
