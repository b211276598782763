------------------------------ MODULE MCKernel ------------------------------
(* The authority of actions, what is staged in a workspace, alignment        *)
(* contracts, the start of kernels, the durable rows of a mission and the    *)
(* stream to the consoles share no state: focus picks the one a behaviour    *)
(* exercises.  What is proved of it is in KernelProofs.                      *)
EXTENDS Integers, Sequences, FiniteSets, TLC

CONSTANTS
  Actions, Keys, Tools, Targets, Patterns, AnyTarget, Brain, Costs, DiskLevels,
  ActionTool, ActionTarget, Payloads, ToolClass, Ceilings, Budget, BatchLimit,
  Files, Contents, Ids, Statements, Kernels, Rows,
  Clients, Missions, Wakeups, Agents, Schedulers, WakeupOf, EpochOf,
  Consoles, MaxReplayBuffer, None,
  MaxClock, MaxRevisions, MaxTokens, MaxLedger,   \* bounds: authority
  MaxCheckpoints, MaxEdits, MaxContracts,         \* workspace, contracts
  MaxEvents, MaxWrites, MaxVersion, MaxGeneration, \* kernels, rows
  MaxSequence, MaxRestarts,                       \* stream
  ApprovalEvents,  \* of the ledger, while approvals are exercised
  Pair,            \* the kernels that write twice
  a1, look, write, config, m1, w1, s1, s2

VARIABLES focus,
  proposals, cached, tokens, grants, contract, spend, clock, ledger, edges, outbox, journal,
  calls, effects, undone, raised,
  file, saved, op, checkpoints, workspace, applied, disturbed, edits,
  contracts,
  lifecycle, events, table, row, pc, epoch, inMemory, made, packages, diedBefore,
  defaulted,
  mission, contracted, wakeup, overdue, agentLease, lease, read, leaseRead, recovery,
  sequence, buffer, active, sending, replay, wire, client, restarts

authority == <<proposals, cached, tokens, grants, contract, spend, clock, ledger, edges, outbox,
               journal, calls, effects, undone, raised>>
staged == <<file, saved, op, checkpoints, workspace, applied, disturbed, edits>>
kernels == <<lifecycle, events, table, row, pc, epoch, inMemory, made, packages, diedBefore,
             defaulted>>
rows == <<mission, contracted, wakeup, overdue, agentLease, lease, read, leaseRead, recovery>>
stream == <<sequence, buffer, active, sending, replay, wire, client, restarts>>
vars == <<focus, authority, staged, contracts, kernels, rows, stream>>

A == INSTANCE ActionAuthority WITH MaxEvents <- MaxLedger
W == INSTANCE WorkspaceTransactions WITH made <- checkpoints, Targets <- Files
L == INSTANCE ContractLifecycle
K == INSTANCE KernelStartup WITH ledger <- inMemory
D == INSTANCE DurableMissions
G == INSTANCE ConsoleStream WITH Clients <- Consoles

\* The constants of each instance are within its assumptions.
ASSUME AuthorityAssumption == A!ConstantsAssumption /\ A!ToolClassAssumption
ASSUME BoundsAssumption == {MaxCheckpoints, MaxEdits, MaxContracts, MaxSequence, MaxRestarts} \subseteq Nat
ASSUME NoneAssumption == None \notin W!Operation \cup D!MissionORM \cup G!Broadcast
ASSUME StartupAssumption == K!ConstantsAssumption
ASSUME MissionsAssumption == D!ConstantsAssumption
ASSUME StreamAssumption == G!StreamAssumption

\* The values of the run: one reversible action, which the second version of the
\* contract forbids; one wakeup of one mission; schedulers of two epochs.
MCActionTool == a1 :> write
MCActionTarget == a1 :> config
MCToolClass == (look :> "A0") @@ (write :> "A1")
MCCeilings == <<"A1", "A0">>
MCWakeupOf == w1 :> m1
MCEpochOf == (s1 :> 1) @@ (s2 :> 2)

Init ==
  /\ focus \in {"approvals", "effects", "workspace", "contracts", "pair", "three", "rows", "leases",
              "stream"}
  /\ A!Init /\ W!Init /\ L!Init /\ K!Init /\ D!Init /\ G!Init
  \* What another focus never uses is given one value.
  /\ focus # "pair" => \A r \in Rows : table[r] = "model_leases"
  /\ focus # "rows" => contracted = {}
  /\ focus # "workspace" => \A f \in Files : file[f] = None

\* Approvals: the target and the contract of what the operator read may be edited,
\* commands carry keys, and one call follows.  Effects: more events, rollbacks by a
\* token or a grant, on one target, under tokens of the brain.
TargetsEdited ==
  /\ grants' = {} /\ spend' = 0 /\ journal' = <<>> /\ Len(ledger') <= ApprovalEvents
  /\ \A t \in Tools : undone'[t] = 0
  /\ \A a \in Actions : proposals'[a] # None => proposals'[a].bound.tool = ActionTool[a]
NothingProposed ==
  /\ \A a \in Actions : proposals'[a] = None
  /\ \A t \in tokens' : grants' = {} /\ t.target = config

\* Two kernels that write twice, and all of them with one event and one write.
OnlyPair == \A k \in Kernels \ Pair : pc'[k] = "OFF" /\ lifecycle'[k].status = "ABSENT"
OneOfEach == made' <= 1 /\ \A r \in Rows : row'[r].version <= 1

\* Missions that no scheduler leases, and schedulers that lease a mission which moves once.
NothingLeased == \A m \in Missions : lease'[m] = None
MovedOnce == \A m \in Missions : mission'[m] # None => mission'[m].mission_version <= 2

Next ==
  \/ /\ focus = "approvals" /\ A!Next /\ TargetsEdited
     /\ UNCHANGED <<focus, staged, contracts, kernels, rows, stream>>
  \/ /\ focus = "effects" /\ A!Next /\ NothingProposed
     /\ UNCHANGED <<focus, staged, contracts, kernels, rows, stream>>
  \/ /\ focus = "workspace" /\ W!Next
     /\ UNCHANGED <<focus, authority, contracts, kernels, rows, stream>>
  \/ /\ focus = "contracts" /\ L!Next
     /\ UNCHANGED <<focus, authority, staged, kernels, rows, stream>>
  \/ /\ focus = "pair" /\ K!Next /\ OnlyPair
     /\ UNCHANGED <<focus, authority, staged, contracts, rows, stream>>
  \/ /\ focus = "three" /\ K!Next /\ OneOfEach
     /\ UNCHANGED <<focus, authority, staged, contracts, rows, stream>>
  \/ /\ focus = "rows" /\ D!Next /\ NothingLeased
     /\ UNCHANGED <<focus, authority, staged, contracts, kernels, stream>>
  \/ /\ focus = "leases" /\ D!Next /\ MovedOnce
     /\ UNCHANGED <<focus, authority, staged, contracts, kernels, stream>>
  \/ /\ focus = "stream" /\ G!Next
     /\ UNCHANGED <<focus, authority, staged, contracts, kernels, rows>>

Spec == Init /\ [][Next]_vars

TypeOK ==
  /\ A!TypeOK /\ W!TypeOK /\ L!TypeOK /\ K!TypeOK /\ D!TypeOK /\ G!TypeOK

RunsAsReviewed == A!RunsAsReviewed
EffectsAudited == A!EffectsAudited
JournalInOrder == A!JournalInOrder
UndoneContentIsBack == W!UndoneContentIsBack
ConstraintsKept == L!ConstraintsKept

\* The epochs that a completed boot found dead are fenced, and a row is held by the
\* epoch in its kernel_epoch: whoever boots, writes or dies afterwards, also the kernel
\* that fenced them, no fenced epoch holds a lease or a job again (startup.py:108-112,
\* the fence_stale_ statements of executive.py and workers.py).
FencedEpochs == UNION {diedBefore[k] : k \in {x \in Kernels : lifecycle[x].status # "ABSENT"}}
HolderOf == [r \in Rows |-> IF r \notin defaulted /\ K!Held(r) THEN row[r].kernel_epoch ELSE 0]
Fence == INSTANCE EpochFence WITH fenced <- FencedEpochs, holder <- HolderOf
ImplementsEpochFence == Fence!Spec

DeadEpochsHoldNothing == K!DeadEpochsHoldNothing
ReadyLedgerIsChained == K!ReadyLedgerIsChained
RecoveryResumesSleepers == D!RecoveryResumesSleepers
NothingMissed == G!NothingMissed
=============================================================================
