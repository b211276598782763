-------------------------- MODULE CognitiveMission --------------------------
(* The cognitive mission runtime: run_dag executes the ready nodes of a task *)
(* graph one after the other. A consequential (A2) or complex node is given  *)
(* to a council of models, which must be independent of each other: an       *)
(* architect and a critic answer in parallel, a resolver looks at what they  *)
(* disagree on and a synthesizer at everything. Each is routed when its      *)
(* stage begins, from what clocks, quotas and resource snapshots say then.   *)
(* Members make claims on one topic.                                         *)
EXTENDS Naturals, FiniteSets

CONSTANTS Nodes, A2, Complex, Deps, Routes, ModelOf, None

Stage == {"first", "architect", "critic", "members", "resolution", "synthesis", "direct",
          "verification"}

MissionAssumption ==
  /\ A2 \subseteq Nodes /\ None \notin Nodes \cup Routes \cup Stage

VARIABLES
  verifier,  \* whether the runtime was given a verification adapter
  status,    \* of each node of the graph
  ready,     \* the nodes of the cycle that are still to be executed
  node,      \* the node that is executed, or None
  stage,     \* what the node is waiting for, None between two nodes
  seat,      \* the route of each role of the council, None while it has none
  waiting,   \* the roles whose answer is awaited
  claims,    \* the stances each member of the council has taken
  mode,      \* how the result of each node came about
  eligible   \* the routes that are healthy and within their quota

vars == <<verifier, status, ready, node, stage, seat, waiting, claims, mode, eligible>>

Members == {"architect", "critic"}

\* first is the best route when a council is planned, which nobody may be asked through.
Roles == Members \cup {"first", "resolver", "synthesizer"}
NoCouncil == [role \in Roles |-> None]
CouncilAssignment == [Roles -> Routes \cup {None}]

ClaimStance == {"support", "oppose", "uncertain"}
NoClaims == [role \in Members |-> {}]

TaskNodeStatus == {"planned", "ready", "cognitive_work", "tool_proposed", "verifying", "succeeded",
                   "blocked", "replan_required"}
CognitiveExecutionMode == {"direct", "council"}

TypeOK ==
  /\ verifier \in BOOLEAN
  /\ status \in [Nodes -> TaskNodeStatus]
  /\ ready \subseteq Nodes /\ node \in Nodes \cup {None}
  /\ stage \in Stage \cup {None}
  /\ seat \in CouncilAssignment /\ waiting \subseteq Roles
  /\ claims \in [Members -> SUBSET ClaimStance]
  /\ mode \in [Nodes -> CognitiveExecutionMode \cup {None}] /\ eligible \subseteq Routes

Init ==
  /\ verifier \in BOOLEAN /\ status = [n \in Nodes |-> "planned"]
  /\ ready = {} /\ node = None /\ stage = None /\ seat = NoCouncil /\ waiting = {}
  /\ claims = NoClaims /\ mode = [n \in Nodes |-> None] /\ eligible = Routes

\* A route fails, recovers, spends its quota or gets it back, also between two selections
\* with nothing awaited between them.
RouteChanges(r) ==
  /\ eligible' = IF r \in eligible THEN eligible \ {r} ELSE eligible \cup {r}
  /\ UNCHANGED <<verifier, status, ready, node, stage, seat, waiting, claims, mode>>

-----------------------------------------------------------------------------
(* The graph.                                                                *)

Refreshed ==
  [n \in Nodes |->
     IF status[n] = "planned" /\ \A d \in Deps[n] : status[d] = "succeeded" THEN "ready"
     ELSE status[n]]

\* run_dag begins, or begins its next cycle: it lists the nodes that are ready.
StartCycle ==
  /\ node = None /\ ready = {}
  /\ status' = Refreshed
  /\ ready' = {n \in Nodes : Refreshed[n] = "ready"} /\ ready' # {}
  /\ UNCHANGED <<verifier, node, stage, seat, waiting, claims, mode, eligible>>

-----------------------------------------------------------------------------
(* The council.                                                              *)

UsesCouncil(n) == n \in A2 \cup Complex

\* assign picks the best eligible route, or the best that is neither one of these
\* routes nor of one of their models; the order of the scores is any.
Independent(taken) ==
  {r \in eligible \ taken : \A t \in taken : ModelOf[r] # ModelOf[t]}

\* Mutant: an A2 node falls back like any other.
AlwaysFallsBack(n) == TRUE

FallsBack(n) == n \notin A2

\* A council that cannot be seated, or one of whose calls fails, blocks an A2 node and
\* ends run_dag; any other node falls back to one model. What still runs is orphaned.
GivesUpOnCouncil ==
  /\ seat' = NoCouncil /\ waiting' = {} /\ claims' = NoClaims
  /\ IF FallsBack(node)
     THEN stage' = "direct" /\ UNCHANGED <<status, ready, node>>
     ELSE /\ stage' = None /\ node' = None /\ ready' = {}
          /\ status' = [status EXCEPT ![node] = "blocked"]
  /\ UNCHANGED <<verifier, mode, eligible>>

\* A role of the council is seated and others are asked, or there is no route for it.
Seat(role, taken, next, asked) ==
  \/ \E r \in Independent(taken) :
       /\ seat' = [seat EXCEPT ![role] = r]
       /\ stage' = next /\ waiting' = asked /\ claims' = NoClaims
       /\ UNCHANGED <<verifier, status, ready, node, mode, eligible>>
  \/ Independent(taken) = {} /\ GivesUpOnCouncil

-----------------------------------------------------------------------------
(* A node.                                                                   *)

BeginNode(n) ==
  /\ node = None /\ n \in ready
  /\ node' = n /\ ready' = ready \ {n}
  /\ status' = [status EXCEPT ![n] = "cognitive_work"]
  /\ stage' = IF UsesCouncil(n) THEN "first" ELSE "direct"
  /\ waiting' = {} /\ seat' = NoCouncil
  /\ UNCHANGED <<verifier, claims, mode, eligible>>

\* The critic must differ from the route that was best at first; the architect is given
\* the one that is best when it is seated, which may be another.
SeatMembers ==
  \/ stage = "first" /\ Seat("first", {}, "architect", {})
  \/ stage = "architect" /\ Seat("architect", {}, "critic", {})
  \/ stage = "critic" /\ Seat("critic", {seat["first"]}, "members", Members)

MembersOnSeats == {seat[role] : role \in Members}

\* CouncilDisagreementAnalyzer: one member supports what another opposes.
Disagree(cl) ==
  \E a, b \in Members : a # b /\ "support" \in cl[a] /\ "oppose" \in cl[b]

Synthesize == Seat("synthesizer", MembersOnSeats, "synthesis", {"synthesizer"})

\* Members answer in any order; with the last answer the disagreements are known. What
\* a resolver or synthesizer then makes of the claims is data.
MemberAnswers(role, stances) ==
  /\ stage = "members" /\ role \in waiting
  /\ LET made == [claims EXCEPT ![role] = stances] IN
     IF waiting = {role}
     THEN IF Disagree(made) THEN Seat("resolver", MembersOnSeats, "resolution", {"resolver"})
          ELSE Synthesize
     ELSE /\ waiting' = waiting \ {role} /\ claims' = made
          /\ UNCHANGED <<verifier, status, ready, node, stage, seat, mode, eligible>>

ResolverAnswers == stage = "resolution" /\ Synthesize

CouncilCallFails(role) ==
  /\ stage \in {"members", "resolution", "synthesis"} /\ role \in waiting
  /\ GivesUpOnCouncil

\* The result of the council or of one model: its tool calls are only proposed; else it
\* is verified, or waits for a verifier.
ResultArrives(proposesTools) ==
  /\ stage \in {"synthesis", "direct"}
  /\ mode' = [mode EXCEPT ![node] = IF stage = "direct" THEN "direct" ELSE "council"]
  /\ status' = [status EXCEPT ![node] = IF proposesTools THEN "tool_proposed" ELSE "verifying"]
  /\ waiting' = {}
  /\ IF ~proposesTools /\ verifier
     THEN stage' = "verification" /\ UNCHANGED node
     ELSE stage' = None /\ node' = None
  /\ UNCHANGED <<verifier, ready, seat, claims, eligible>>

\* Every route failed: the exception ends run_dag and the node stays where it is.
DirectFails ==
  /\ stage = "direct"
  /\ stage' = None /\ node' = None /\ ready' = {}
  /\ UNCHANGED <<verifier, status, seat, waiting, claims, mode, eligible>>

VerifierDecides(accepted) ==
  /\ stage = "verification"
  /\ status' = [status EXCEPT ![node] = IF accepted THEN "succeeded" ELSE "replan_required"]
  /\ stage' = None /\ node' = None
  /\ UNCHANGED <<verifier, ready, seat, waiting, claims, mode, eligible>>

\* The verifier raises: that ends run_dag too, and the node stays to be verified.
VerifierFails ==
  /\ stage = "verification"
  /\ stage' = None /\ node' = None /\ ready' = {}
  /\ UNCHANGED <<verifier, status, seat, waiting, claims, mode, eligible>>

Next ==
  \/ \E r \in Routes : RouteChanges(r)
  \/ StartCycle
  \/ \E n \in Nodes : BeginNode(n)
  \/ SeatMembers
  \/ \E role \in Members, stances \in SUBSET ClaimStance : MemberAnswers(role, stances)
  \/ ResolverAnswers
  \/ \E role \in Roles : CouncilCallFails(role)
  \/ \E proposesTools \in BOOLEAN : ResultArrives(proposesTools)
  \/ DirectFails
  \/ \E accepted \in BOOLEAN : VerifierDecides(accepted)
  \/ VerifierFails

Spec == Init /\ [][Next]_vars

-----------------------------------------------------------------------------
Differs == [critic |-> {"first"}, resolver |-> Members, synthesizer |-> Members]
HasResult == {"tool_proposed", "verifying", "succeeded", "replan_required"}

\* Whatever becomes of the routes between the stages of a council, its resolver and its
\* synthesizer are neither of the members they judge, and its critic is not the route it
\* was told to differ from; and however councils and calls fail, a consequential node has
\* no result but a council's (mission_runtime.py, council.py, REQ-IF-V4-009).
CouncilOfIndependents ==
  /\ \A a \in DOMAIN Differs : \A b \in Differs[a] :
       seat[a] # None =>
         seat[b] # None /\ seat[a] # seat[b] /\ ModelOf[seat[a]] # ModelOf[seat[b]]
  /\ \A n \in A2 : status[n] \in HasResult => mode[n] = "council"
=============================================================================
