---------------------------- MODULE MCCognition ----------------------------
(* Agents and what they share (the blackboard, the dependency graph, the     *)
(* resource leases), the intelligence fabric under them and the world model  *)
(* they read share no state: focus picks the one a behaviour exercises.      *)
EXTENDS Integers, Sequences, FiniteSets, TLC

CONSTANTS
  None,
  Tasks, MissionMaximum, MaxTurns, MaxSpend,              \* agents
  Missions, Claims, Contradicts, Commitments,             \* board
  Nodes, Holders, MissionOf, Resources,                   \* graph, resources
  Calls, Models, Cheap, Local, MaxRequests, FailureThreshold, MaxConcurrency, MaxAttempts,
  MaxCandidates,                                          \* fabric
  Positions, Conversations, Requests, Recoveries,         \* sessions
  Work, A2, Complex, Deps, Seats, ModelOf,                \* cycle
  Entities, Values, Sources, Cells,                       \* world
  \* Bounds.
  MaxEpoch, MaxLeases, MaxVersion, MaxEntries, MaxGeneration, MaxRefs, MaxRestarts,
  MaxObservations, MaxAssertions, MaxTime, MaxResolutions, MaxRowVersion, MaxWatches,
  p, notp, h1, h2, h3, m1, m2, n1, n2, s1, s2, s3, s4, door, open, cell1, cell2

VARIABLES focus,
  leases, task_generations, epoch, mission, allowed,
  entries, conflicts, commitments,
  graph, refused, rleases, repoch, tokens,
  health, cooldown, used, reserved, call, running,
  loggedIn, routeHealth, bindings, request, reopening, refs, restarts,
  verifier, status, ready, node, stage, seat, waiting, claims, mode, eligible,
  kernelEpoch, now, session, ledger, entities, assertions, contradictions, watches,
  cell, recovery, lineage, won, lost

agents == <<leases, task_generations, epoch, mission, allowed>>
board == <<entries, conflicts, commitments>>
graphs == <<graph, refused>>
resources == <<rleases, repoch, tokens>>
fabric == <<health, cooldown, used, reserved, call, running>>
sessions == <<loggedIn, routeHealth, bindings, request, reopening, refs, restarts>>
cycle == <<verifier, status, ready, node, stage, seat, waiting, claims, mode, eligible>>
world == <<kernelEpoch, now, session, ledger, entities, assertions, contradictions,
           watches, cell, recovery, lineage, won, lost>>
vars == <<focus, agents, board, graphs, resources, fabric, sessions, cycle, world>>

A == INSTANCE AgentLeases
B == INSTANCE Blackboard
C == INSTANCE Coordination WITH leases <- rleases, epoch <- repoch
F == INSTANCE IntelligenceFabric WITH Routes <- Models
S == INSTANCE SessionContinuity WITH
       Roles <- Positions, Routes <- Conversations, health <- routeHealth, recovery <- reopening
M == INSTANCE CognitiveMission WITH Nodes <- Work, Routes <- Seats
W == INSTANCE WorldModel WITH epoch <- kernelEpoch, MaxVersion <- MaxRowVersion

\* The constants of each instance are within its assumptions.
ASSUME AgentsAssumption == A!AgentLeasesAssumption /\ B!BlackboardAssumption
ASSUME WaitingAssumption == C!CoordinationAssumption
ASSUME ModelsAssumption == F!FabricAssumption /\ S!ContinuityAssumption /\ M!MissionAssumption
ASSUME WorldAssumption == W!WorldAssumption

\* The values of the run: statements that deny each other; two holders of one mission
\* and one of another; a consequential node and a complex one that depends on it; two
\* seats of one model.
MCContradicts == {<<p, notp>>, <<notp, p>>}
MCMissionOf == (h1 :> m1) @@ (h2 :> m1) @@ (h3 :> m2)
MCDeps == (n1 :> {}) @@ (n2 :> {n1})
MCModelOf == (s1 :> "a") @@ (s2 :> "a") @@ (s3 :> "b") @@ (s4 :> "c")

Init ==
  /\ focus \in {"agents", "board", "graph", "resources", "fabric", "sessions", "cycle", "world"}
  /\ A!Init /\ B!Init /\ C!Init /\ F!Init /\ S!Init /\ M!Init /\ W!Init
  \* What another focus never uses is given one value.
  /\ focus # "cycle" => verifier
  /\ focus # "world" => entities = <<>>

\* The last of the agents works for a mission that has not moved; promises, which no
\* claim refers to, are made on an empty board.
FewMoves == Len(leases') = MaxLeases => mission'.version = 1
Promises == entries' = <<>> \/ \A c \in Commitments : commitments'[c] = "NONE"
\* One source numbers its observations in order, the first of them about the door being
\* open; the first cell begins when neither is at work; of a watch, a second kernel, a merge
\* and a resolution a behaviour has one; a recovery or a watch meets one projection at a time.
WorldMoves ==
  /\ \A i \in DOMAIN ledger' : ledger'[i].key = i
  /\ ledger' # <<>> => ledger'[1].subject = door /\ ledger'[1].value = open
  /\ cell'[cell2] # cell[cell2] /\ cell[cell2] = None => cell[cell1] # None
  /\ Cardinality({x \in {"watch", "restart", "merge", "resolution"} :
       \/ x = "watch" /\ watches' # <<>>
       \/ x = "restart" /\ kernelEpoch' > 1
       \/ x = "merge" /\ \E e \in DOMAIN entities' : entities'[e].version > 1
       \/ x = "resolution" /\ won' \cup lost' # {}}) <= 1
  /\ \A e \in DOMAIN entities' : entities'[e].version <= 2
  /\ recovery' # None \/ watches' # <<>> => \E c \in Cells : cell'[c] = None

Next ==
  \/ /\ focus = "agents" /\ A!Next /\ FewMoves
     /\ UNCHANGED <<focus, board, graphs, resources, fabric, sessions, cycle, world>>
  \/ /\ focus = "board" /\ B!Next /\ Promises
     /\ UNCHANGED <<focus, agents, graphs, resources, fabric, sessions, cycle, world>>
  \/ /\ focus = "graph" /\ C!GraphNext
     /\ UNCHANGED <<focus, agents, board, fabric, sessions, cycle, world>>
  \/ /\ focus = "resources" /\ C!ResourceNext
     /\ UNCHANGED <<focus, agents, board, fabric, sessions, cycle, world>>
  \/ /\ focus = "fabric" /\ F!Next
     /\ UNCHANGED <<focus, agents, board, graphs, resources, sessions, cycle, world>>
  \/ /\ focus = "sessions" /\ S!Next
     /\ UNCHANGED <<focus, agents, board, graphs, resources, fabric, cycle, world>>
  \/ /\ focus = "cycle" /\ M!Next
     /\ UNCHANGED <<focus, agents, board, graphs, resources, fabric, sessions, world>>
  \/ /\ focus = "world" /\ W!Next /\ WorldMoves
     /\ UNCHANGED <<focus, agents, board, graphs, resources, fabric, sessions, cycle>>

Spec == Init /\ [][Next]_vars

TypeOK ==
  A!TypeOK /\ B!TypeOK /\ C!TypeOK /\ F!TypeOK /\ S!TypeOK /\ M!TypeOK /\ W!TypeOK

NewestAgentActs == A!NewestAgentActs
ConflictedCanBeArbitrated == B!ConflictedCanBeArbitrated
DeadlocksAreFound == C!DeadlocksAreFound

\* Resources change hands as the tasks of a fenced registry do: a lease that is live is
\* held, and its generation is the resource's epoch (autonomy/resources.py:26-93).
HolderOf == [r \in Resources |-> IF C!Live(r) THEN rleases[r].holder ELSE None]
GenerationOf == [r \in Resources |-> IF rleases[r] = None THEN 0 ELSE rleases[r].generation]
Registry == INSTANCE FencedRegistry WITH
              Tasks <- Resources, Workers <- Holders, Nobody <- None,
              holder <- HolderOf, epoch <- GenerationOf
ImplementsFencedRegistry == Registry!Spec

OneHolderAtATime == C!OneHolderAtATime
EachRouteOnce == F!EachRouteOnce
OneLogicalBinding == S!OneLogicalBinding
CouncilOfIndependents == M!CouncilOfIndependents
NewestInForce == W!NewestInForce
=============================================================================
