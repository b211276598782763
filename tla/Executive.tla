----------------------------- MODULE Executive -----------------------------
(***************************************************************************)
(* The cognitive executive: execute_step coroutines (executive/            *)
(* scheduler.py) that share one TaskDAG, the lease controller (executive/  *)
(* leases.py), the hand-off manager (executive/handoff.py) and the gates   *)
(* of the ToolGateway (tools/gateway.py).                                  *)
(*                                                                         *)
(* The budget, the circuit breakers and the disk are only read here, and   *)
(* nothing a step does changes them: the router finds a model or raises,   *)
(* a health gate is open or shut.                                          *)
(*                                                                         *)
(* Everything runs on one event loop.  A coroutine gives the loop up only  *)
(* where it awaits the model, so a step is StepBegins, then whatever the   *)
(* others do, then the answer; from the answer to the end of the step,     *)
(* calls of tools included, no other coroutine moves (LoopIsFree).  Only   *)
(* time does.                                                              *)
(***************************************************************************)
EXTENDS Naturals, Sequences

CONSTANTS
  Steps,       \* coroutines that call execute_step
  Nodes,       \* the nodes of the DAG
  Deps,        \* a node's dependencies; names that are no node are ignored
  Place,       \* a node's place in dag.nodes
  NodeClass,   \* action class, 0 .. 3 for A0 .. A3
  Tools,       \* names a model may ask for
  Registered,  \* the tools the gateway knows
  ToolClass,
  CeilingClass,    \* contract.permissions.action_ceiling
  NoNode,      \* what a step that is idle works on
  MaxTurns,
  MaxCalls,    \* bound: tool calls in one answer
  MaxLeases    \* bound: leases up to which other callers hand off

ASSUME PlanAssumption ==
  /\ Place \in [Nodes -> Nat]
  /\ NodeClass \in [Nodes -> 0 .. 3]

ASSUME ToolAssumption ==
  /\ Registered \subseteq Tools
  /\ ToolClass \in [Tools -> 0 .. 3]
  /\ CeilingClass \in 0 .. 3

ASSUME LimitAssumption ==
  /\ NoNode \notin Nodes
  /\ MaxTurns \in Nat \ {0} /\ MaxCalls \in Nat /\ MaxLeases \in Nat

VARIABLES
  status,     \* by node
  pc,         \* where each step is: idle, awaiting the model, dispatching
  node,       \* the node it works on
  lease,      \* the lease it works under, an index of leases
  calls,      \* the tool calls it has still to dispatch
  leases,     \* the leases granted, in order
  snapshots,  \* the hand-off snapshots
  ledger      \* by node: the kinds of event recorded for the work on it

vars == <<status, pc, node, lease, calls, leases, snapshots, ledger>>

step == <<pc, node, lease, calls>>

NodeStatus == {"PLANNED", "READY", "COGNITIVE_WORK", "SUCCEEDED"}

\* A snapshot names the outgoing lease and the active_subtask; incoming is the
\* lease its last hand-off granted, 0 before that.
Snapshot == [outgoing : Nat, active : Nodes, incoming : Nat]

EventKind == {"TOOL_CALLED", "EVIDENCE_OK", "EVIDENCE_FAILED", "HANDOFF_OCCURRED"}

\* late: expires_at has passed.
Lease == [status : {"ACTIVE", "EXHAUSTED", "REVOKED"}, turns : Nat, late : BOOLEAN]

TypeOK ==
  /\ status \in [Nodes -> NodeStatus]
  /\ pc \in [Steps -> {"idle", "awaiting", "dispatching"}]
  /\ node \in [Steps -> Nodes \cup {NoNode}]
  /\ lease \in [Steps -> Nat]
  /\ calls \in [Steps -> Seq(Tools)]
  /\ leases \in Seq(Lease)
  /\ snapshots \subseteq Snapshot
  /\ ledger \in [Nodes -> SUBSET EventKind]

\* plan_contract hands its first node over READY, the engineering planner none.
Init ==
  /\ status \in [Nodes -> {"PLANNED", "READY"}]
  /\ \A n \in Nodes : status[n] = "READY" => Deps[n] = {}
  /\ pc = [s \in Steps |-> "idle"]
  /\ node = [s \in Steps |-> NoNode]
  /\ lease = [s \in Steps |-> 0]
  /\ calls = [s \in Steps |-> <<>>]
  /\ leases = <<>>
  /\ snapshots = {}
  /\ ledger = [n \in Nodes |-> {}]

LoopIsFree == \A s \in Steps : pc[s] /= "dispatching"

---------------------------------------------------------------------------
(* Leases. *)

NewLease == [status |-> "ACTIVE", turns |-> 0, late |-> FALSE]

IsValid(l) ==
  /\ leases[l].status = "ACTIVE"
  /\ ~ leases[l].late
  /\ leases[l].turns < MaxTurns

\* The lease after one turn was recorded on it.
Charged(l) ==
  [status |-> IF leases[l].turns + 1 >= MaxTurns THEN "EXHAUSTED" ELSE leases[l].status,
   turns |-> leases[l].turns + 1,
   late |-> leases[l].late]

\* Mutant: the outgoing model keeps its lease.
HandedOverShared(held, l) == Append(held, NewLease)

\* A hand-off: revoke what the outgoing model holds, whatever became of it,
\* and grant the incoming model a lease nobody routed or budgeted.
HandedOver(held, l) == Append([held EXCEPT ![l].status = "REVOKED"], NewLease)

\* The snapshot and the event a hand-off leaves behind.
Executed(x) == [x EXCEPT !.incoming = Len(leases) + 1]
HandoffRecorded(x) == [ledger EXCEPT ![x.active] = @ \cup {"HANDOFF_OCCURRED"}]

SnapshotOf(s) == [outgoing |-> lease[s], active |-> node[s], incoming |-> 0]

---------------------------------------------------------------------------
(* The first half of execute_step, up to the await. *)

\* Mutant: what was marked READY and left is not looked at again.
ReadyOnce ==
  {n \in Nodes : status[n] = "PLANNED" /\ \A d \in Deps[n] \cap Nodes : status[d] = "SUCCEEDED"}

DepsMet(n) == \A d \in Deps[n] \cap Nodes : status[d] = "SUCCEEDED"

Ready == {n \in Nodes : status[n] = "READY" \/ (status[n] = "PLANNED" /\ DepsMet(n))}

First(n) == n \in Ready /\ \A m \in Ready : Place[n] <= Place[m]

\* Mutant: the node is not marked as taken.
TakenUnmarked(n) == [m \in Nodes |-> IF m \in Ready THEN "READY" ELSE status[m]]

\* get_ready_nodes marks every ready node; the first is taken.
Taken(n) ==
  [m \in Nodes |-> IF m = n THEN "COGNITIVE_WORK"
                   ELSE IF m \in Ready THEN "READY" ELSE status[m]]

StepBegins(s) ==
  /\ pc[s] = "idle" /\ LoopIsFree
  /\ \E n \in Nodes :
       /\ First(n)
       /\ status' = Taken(n)
       /\ pc' = [pc EXCEPT ![s] = "awaiting"]
       /\ node' = [node EXCEPT ![s] = n]
       /\ lease' = [lease EXCEPT ![s] = Len(leases) + 1]
       /\ leases' = Append(leases, NewLease)
  /\ UNCHANGED <<calls, snapshots, ledger>>

\* select_model finds no eligible model and raises: the node was taken already
\* and stays taken.
StepUnroutable(s) ==
  /\ pc[s] = "idle" /\ LoopIsFree
  /\ \E n \in Nodes : First(n) /\ status' = Taken(n)
  /\ UNCHANGED <<step, leases, snapshots, ledger>>

---------------------------------------------------------------------------
(* The second half, from the model's answer on. *)

\* The step ends; what it did stays done, and its node is where it was.
Ends(s) ==
  /\ pc' = [pc EXCEPT ![s] = "idle"]
  /\ node' = [node EXCEPT ![s] = NoNode]
  /\ lease' = [lease EXCEPT ![s] = 0]
  /\ calls' = [calls EXCEPT ![s] = <<>>]

Answering(s) == pc[s] = "awaiting" /\ LoopIsFree

ModelRaises(s) ==
  /\ Answering(s)
  /\ Ends(s)
  /\ UNCHANGED <<status, leases, snapshots, ledger>>

\* record_usage raises: the lease was revoked or ran out during the await.
AnswerRefused(s) ==
  /\ Answering(s)
  /\ ~ IsValid(lease[s])
  /\ Ends(s)
  /\ UNCHANGED <<status, leases, snapshots, ledger>>

AnswerAccepted(s, asked) ==
  /\ Answering(s)
  /\ IsValid(lease[s])
  /\ pc' = [pc EXCEPT ![s] = "dispatching"]
  /\ calls' = [calls EXCEPT ![s] = asked]
  /\ leases' = [leases EXCEPT ![lease[s]] = Charged(lease[s])]
  /\ UNCHANGED <<status, node, lease, snapshots, ledger>>

\* The model recommends a hand-off; the node is not given back.
AnswerHandsOff(s) ==
  /\ Answering(s)
  /\ IsValid(lease[s])
  /\ leases' = HandedOver([leases EXCEPT ![lease[s]] = Charged(lease[s])], lease[s])
  /\ snapshots' = snapshots \cup {Executed(SnapshotOf(s))}
  /\ ledger' = HandoffRecorded(SnapshotOf(s))
  /\ Ends(s)
  /\ UNCHANGED <<status>>

---------------------------------------------------------------------------
(* The loop over the requested tool calls. *)

Dispatching(s) == pc[s] = "dispatching" /\ calls[s] /= <<>>

TokenIssued(n) == NodeClass[n] <= 1

GatesPass(tool) ==
  /\ ToolClass[tool] /= 3
  /\ ToolClass[tool] <= CeilingClass

CallSkipped(s) ==
  /\ Dispatching(s) /\ TokenIssued(node[s])
  /\ Head(calls[s]) \notin Registered
  /\ calls' = [calls EXCEPT ![s] = Tail(@)]
  /\ UNCHANGED <<status, pc, node, lease, leases, snapshots, ledger>>

\* No token, a closed gate (class, ceiling, budget or disk), or a preflight or a
\* target check that fails.
CallRefused(s) ==
  /\ Dispatching(s)
  /\ TokenIssued(node[s]) => Head(calls[s]) \in Registered
  /\ Ends(s)
  /\ UNCHANGED <<status, leases, snapshots, ledger>>

CallRuns(s, evidence) ==
  /\ Dispatching(s) /\ TokenIssued(node[s])
  /\ Head(calls[s]) \in Registered /\ GatesPass(Head(calls[s]))
  /\ calls' = [calls EXCEPT ![s] = Tail(@)]
  /\ ledger' = [ledger EXCEPT ![node[s]] = @ \cup {"TOOL_CALLED", evidence}]
  /\ UNCHANGED <<status, pc, node, lease, leases, snapshots>>

\* tool.execute raises: the call is on record, evidence is not.
CallRaises(s) ==
  /\ Dispatching(s) /\ TokenIssued(node[s])
  /\ Head(calls[s]) \in Registered /\ GatesPass(Head(calls[s]))
  /\ ledger' = [ledger EXCEPT ![node[s]] = @ \cup {"TOOL_CALLED"}]
  /\ Ends(s)
  /\ UNCHANGED <<status, leases, snapshots>>

StepSucceeds(s) ==
  /\ pc[s] = "dispatching" /\ calls[s] = <<>>
  /\ status' = [status EXCEPT ![node[s]] = "SUCCEEDED"]
  /\ Ends(s)
  /\ UNCHANGED <<leases, snapshots, ledger>>

---------------------------------------------------------------------------
(* Other callers of the hand-off manager and the lease controller; time.   *)

\* Another caller takes a snapshot of a step that awaits its model, to execute
\* it at once or later.
CreateSnapshot(s) ==
  /\ Answering(s)
  /\ snapshots' = snapshots \cup {SnapshotOf(s)}
  /\ UNCHANGED <<status, step, leases, ledger>>

\* A snapshot is never used up, and nothing compares it with the task.
ExecuteHandoff(x) ==
  /\ LoopIsFree /\ Len(leases) < MaxLeases
  /\ leases' = HandedOver(leases, x.outgoing)
  /\ snapshots' = (snapshots \ {x}) \cup {Executed(x)}
  /\ ledger' = HandoffRecorded(x)
  /\ UNCHANGED <<status, step>>

RevokeLease(l) ==
  /\ LoopIsFree
  /\ leases' = [leases EXCEPT ![l].status = "REVOKED"]
  /\ UNCHANGED <<status, step, snapshots, ledger>>

LeaseExpires(l) ==
  /\ leases' = [leases EXCEPT ![l].late = TRUE]
  /\ UNCHANGED <<status, step, snapshots, ledger>>

---------------------------------------------------------------------------
Answers == UNION {[1 .. k -> Tools] : k \in 0 .. MaxCalls}

Begins(s) == StepBegins(s) \/ StepUnroutable(s)
Answered(s) ==
  \/ ModelRaises(s) \/ AnswerRefused(s) \/ AnswerHandsOff(s)
  \/ \E asked \in Answers : AnswerAccepted(s, asked)
Dispatches(s) ==
  \/ CallSkipped(s) \/ CallRefused(s) \/ CallRaises(s) \/ StepSucceeds(s)
  \/ \E e \in {"EVIDENCE_OK", "EVIDENCE_FAILED"} : CallRuns(s, e)

Outside ==
  \/ \E s \in Steps : CreateSnapshot(s)
  \/ \E x \in snapshots : ExecuteHandoff(x)
  \/ \E l \in DOMAIN leases : RevokeLease(l) \/ LeaseExpires(l)

Next == (\E s \in Steps : Begins(s) \/ Answered(s) \/ Dispatches(s)) \/ Outside

\* Steps are called for as long as there is work, a model answers or its
\* client gives up, and a coroutine that runs goes on running.
Fairness ==
  /\ WF_vars(\E s \in Steps : Begins(s))
  /\ \A s \in Steps : WF_vars(Answered(s)) /\ WF_vars(Dispatches(s))

Spec == Init /\ [][Next]_vars
FairSpec == Spec /\ Fairness

---------------------------------------------------------------------------
(* Properties. *)

\* However steps interleave, no node is worked on by two of them at once, and
\* none that is worked on or done was taken before its dependencies succeeded.
NodesTakenInTurn ==
  /\ \A s, t \in Steps : pc[s] /= "idle" /\ pc[t] /= "idle" /\ node[s] = node[t] => s = t
  /\ \A n \in Nodes : status[n] \in {"COGNITIVE_WORK", "SUCCEEDED"} => DepsMet(n)

\* Split brain: once a model's work was handed off, by its own answer or by
\* somebody else while it was thinking, its lease admits no turn and no tool is
\* called for it any more.
NoSplitBrain ==
  \A x \in snapshots : x.incoming /= 0 =>
    /\ ~ IsValid(x.outgoing)
    /\ \A s \in Steps : pc[s] = "dispatching" => lease[s] /= x.outgoing

\* No node starves: once ready, it is taken, although steps prefer earlier
\* nodes and a step that took another marked it READY and left it.
ReadyNodesAreTaken ==
  \A n \in Nodes : n \in Ready ~> status[n] \in {"COGNITIVE_WORK", "SUCCEEDED"}

=============================================================================
