----------------------------- MODULE Coordination -----------------------------
(***************************************************************************)
(* What agents wait for: exclusive leases on scarce resources              *)
(* (autonomy/resources.py) and the coordinator that records dependencies   *)
(* between tasks and looks for cycles (autonomy/dependencies.py).          *)
(***************************************************************************)
EXTENDS Integers, FiniteSets

CONSTANTS
  Nodes,                 \* of the dependency graph
  Holders,               \* mission and task of those who ask for resources
  MissionOf,
  Resources, None,
  MaxEpoch, MaxGeneration  \* bounds

ResourceLease ==
  [holder : Holders, generation : Nat, epoch : Nat, late : BOOLEAN,
   status : {"ACTIVE", "RELEASED", "EXPIRED", "REVOKED"}]

CoordinationAssumption ==
  /\ DOMAIN MissionOf = Holders /\ None \notin ResourceLease
  /\ MaxEpoch \in Nat \ {0} /\ MaxGeneration \in Nat \ {0}

VARIABLES
  graph,      \* _graph: by node, what it depends on
  refused,    \* whether the last add_dependency raised
  leases,     \* by resource: its lease, None before the first
  epoch,      \* the kernel epoch
  tokens      \* by holder and resource: the generation it was given, 0 if none

graphs == <<graph, refused>>
resources == <<leases, epoch, tokens>>
vars == <<graphs, resources>>

TypeOK ==
  /\ graph \in [Nodes -> SUBSET Nodes] /\ refused \in BOOLEAN
  /\ leases \in [Resources -> ResourceLease \cup {None}]
  /\ epoch \in 1 .. MaxEpoch
  /\ tokens \in [Holders -> [Resources -> Nat]]

Init ==
  /\ graph = [n \in Nodes |-> {}] /\ refused = FALSE
  /\ leases = [r \in Resources |-> None]
  /\ epoch = 1
  /\ tokens = [h \in Holders |-> [r \in Resources |-> 0]]

-----------------------------------------------------------------------------
(* Dependencies: the depth-first search of check_for_deadlocks over a     *)
(* graph g: n is entered with the nodes on the way to it in stack and the  *)
(* nodes seen so far in visited; the result is what has been seen at the   *)
(* end and whether a cycle was found.  The order of a Python set of names  *)
(* differs from run to run: CHOOSE stands for any.                         *)

\* Mutant: a node is not taken off the stack when it has been searched.
NotLeft(n, stack) == stack

\* rec_stack when the search comes back from n.
Leave(n, stack) == stack \ {n}

\* What a search has seen, the way to the node it is at, and where it met that way again.
SearchState == [visited : SUBSET Nodes, stack : SUBSET Nodes, cycle : SUBSET Nodes]

Enter(n, s) == [s EXCEPT !.visited = @ \cup {n}, !.stack = @ \cup {n}]
Back(n, s) == IF s.cycle # {} THEN s ELSE [s EXCEPT !.stack = Leave(n, s.stack)]

\* dfs over what is still to do of a node's neighbours, which recurs into each not yet seen.
Neighbours(g) ==
  LET search[todo \in SUBSET Nodes, s \in SearchState] ==
        IF todo = {} \/ s.cycle # {} THEN s
        ELSE LET n == CHOOSE n \in todo : TRUE
             IN search[todo \ {n},
                  IF n \notin s.visited THEN Back(n, search[g[n], Enter(n, s)])
                  ELSE [s EXCEPT !.cycle = {n} \cap s.stack]]
  IN search

Dfs(g, n, s) == Back(n, Neighbours(g)[g[n], Enter(n, s)])

\* The loop over the nodes: one that was seen is not searched from again.
SearchFrom(g) ==
  LET search[todo \in SUBSET Nodes, s \in SearchState] ==
        IF todo = {} \/ s.cycle # {} THEN s
        ELSE LET n == CHOOSE n \in todo : TRUE
             IN search[todo \ {n}, IF n \in s.visited THEN s ELSE Dfs(g, n, s)]
  IN search

CycleFound(g) == SearchFrom(g)[Nodes, [visited |-> {}, stack |-> {}, cycle |-> {}]].cycle # {}

\* The edge is recorded before the search, and stays when it raises.
AddDependency(blocked, required) ==
  LET g == [graph EXCEPT ![blocked] = @ \cup {required}]
  IN /\ graph' = g
     /\ refused' = CycleFound(g)
     /\ UNCHANGED resources

RemoveDependency(blocked, required) ==
  /\ required \in graph[blocked]
  /\ graph' = [graph EXCEPT ![blocked] = @ \ {required}]
  /\ UNCHANGED <<refused, resources>>

-----------------------------------------------------------------------------
(* Resources *)

Live(r) == leases[r] # None /\ leases[r].status = "ACTIVE" /\ ~leases[r].late

\* Mutant: a resource its holder gave back is leased again as it was.
GenerationKept(r) ==
  IF leases[r] = None THEN 1
  ELSE IF leases[r].status = "RELEASED" THEN leases[r].generation ELSE leases[r].generation + 1

\* lease_generation of the next lease.
NextGeneration(r) == IF leases[r] = None THEN 1 ELSE leases[r].generation + 1

\* The holder of a live lease renews it; another's live lease is refused.
RenewResource(h, r) ==
  /\ Live(r) /\ leases[r].holder = h
  /\ tokens' = [tokens EXCEPT ![h][r] = leases[r].generation]
  /\ UNCHANGED <<graphs, leases, epoch>>

AcquireResource(h, r, e) ==
  /\ ~Live(r) /\ NextGeneration(r) <= MaxGeneration
  /\ leases' = [leases EXCEPT ![r] =
       [holder |-> h, generation |-> NextGeneration(r), epoch |-> e, late |-> FALSE, status |-> "ACTIVE"]]
  /\ tokens' = [tokens EXCEPT ![h][r] = NextGeneration(r)]
  /\ UNCHANGED <<graphs, epoch>>

\* Any holder of the same mission gives it back.
ReleaseResource(h, r) ==
  /\ leases[r] # None /\ MissionOf[leases[r].holder] = MissionOf[h]
  /\ leases' = [leases EXCEPT ![r].status = "RELEASED"]
  /\ UNCHANGED <<graphs, epoch, tokens>>

ValidateFails(r) ==
  /\ leases[r] # None /\ leases[r].status = "ACTIVE" /\ (leases[r].late \/ leases[r].epoch < epoch)
  /\ leases' = [leases EXCEPT ![r].status = IF leases[r].late THEN "EXPIRED" ELSE "REVOKED"]
  /\ UNCHANGED <<graphs, epoch, tokens>>

\* What the holder of a generation is told when it asks before an operation.
ValidateResourceAuthority(h, r) ==
  Live(r) /\ leases[r].epoch >= epoch /\ leases[r].generation = tokens[h][r]

LeaseExpires(r) ==
  /\ Live(r)
  /\ leases' = [leases EXCEPT ![r].late = TRUE]
  /\ UNCHANGED <<graphs, epoch, tokens>>

KernelRestarts ==
  /\ epoch < MaxEpoch /\ epoch' = epoch + 1
  /\ UNCHANGED <<graphs, leases, tokens>>

ResourceNext ==
  \/ \E h \in Holders, r \in Resources :
       \/ RenewResource(h, r) \/ ReleaseResource(h, r)
       \/ \E e \in 1 .. epoch : AcquireResource(h, r, e)
  \/ \E r \in Resources : ValidateFails(r) \/ LeaseExpires(r)
  \/ KernelRestarts

GraphNext == \E b, q \in Nodes : AddDependency(b, q) \/ RemoveDependency(b, q)

-----------------------------------------------------------------------------
(* Properties *)

\* dependencies.py searches by recursion with a visited set and a stack: it
\* reports a deadlock exactly when a task depends, through others, on itself.
Step(g, s) == s \cup UNION {g[n] : n \in s}
ReachedBy(g, n) ==
  LET r[k \in 0 .. Cardinality(Nodes)] == IF k = 0 THEN g[n] ELSE Step(g, r[k - 1])
  IN r[Cardinality(Nodes)]
DeadlocksAreFound == CycleFound(graph) <=> \E n \in Nodes : n \in ReachedBy(graph, n)

\* A lease that ran out, was released or reassigned is not used again: at any
\* time one holder's generation passes validate_resource_authority, although
\* a holder is never told that its lease has gone.
OneHolderAtATime ==
  \A r \in Resources : \A h, i \in Holders :
    ValidateResourceAuthority(h, r) /\ ValidateResourceAuthority(i, r) => h = i
=============================================================================
