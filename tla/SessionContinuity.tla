------------------------- MODULE SessionContinuity --------------------------
(* Conversations with models behind browsers and desktop applications: the  *)
(* registry binds a role's work to a conversation of a route, requests carry *)
(* its reference, the supervisor invalidates the bindings of a route whose   *)
(* session was lost and reopens them after the operator has logged in again, *)
(* and a restarted control plane loads the registry from its file. One       *)
(* project; a driver is awaited by probes, recoveries and requests, which    *)
(* interleave there, also two recoveries of one route. An open circuit       *)
(* counts as degraded.                                                       *)
EXTENDS Naturals, Sequences, FiniteSets

CONSTANTS Roles, Routes, Requests, Recoveries, None, MaxRefs, MaxRestarts

ContinuityAssumption ==
  /\ MaxRefs \in Nat /\ MaxRestarts \in Nat
  /\ None \notin [role : Roles, route : Routes, ref : 0 .. MaxRefs]
  /\ None \notin [route : Routes, asked : Nat, ref : Nat, left : SUBSET Nat, recovered : BOOLEAN]

VARIABLES
  loggedIn,   \* the routes whose application is open and authenticated
  health,     \* what the health registry says of each route
  bindings,   \* the conversation bindings, in the order they were made
  request,    \* the role, route and reference each request was sent with, or None
  recovery,   \* the recoveries under way, each of a route, or None
  refs,       \* the number of conversations drivers have opened
  restarts

vars == <<loggedIn, health, bindings, request, recovery, refs, restarts>>

Ids == 1 .. Len(bindings)
RouteHealth == {"healthy", "degraded", "auth_required"}
ConversationBinding == [role : Roles, route : Routes, ref : 1 .. MaxRefs, active : BOOLEAN]

\* A request with the reference of the conversation it continues, 0 for a new one.
ModelRequest == [role : Roles, route : Routes, ref : 0 .. MaxRefs]

\* The binding a recovery has asked the driver to reopen, with the reference it had then,
\* those it has still to ask for, and whether it has reopened one.
SessionRecovery ==
  [route : Routes, asked : Ids, ref : 1 .. MaxRefs, left : SUBSET Ids, recovered : BOOLEAN]

TypeOK ==
  /\ loggedIn \subseteq Routes /\ health \in [Routes -> RouteHealth]
  /\ bindings \in Seq(ConversationBinding)
  /\ request \in [Requests -> ModelRequest \cup {None}]
  /\ recovery \in [Recoveries -> SessionRecovery \cup {None}]
  /\ refs \in 0 .. MaxRefs /\ restarts \in 0 .. MaxRestarts

Init ==
  /\ loggedIn = Routes /\ health = [r \in Routes |-> "healthy"]
  /\ bindings = <<>> /\ request = [q \in Requests |-> None]
  /\ recovery = [s \in Recoveries |-> None] /\ refs = 0 /\ restarts = 0

SessionChanges(r) ==
  /\ loggedIn' = IF r \in loggedIn THEN loggedIn \ {r} ELSE loggedIn \cup {r}
  /\ UNCHANGED <<health, bindings, request, recovery, refs, restarts>>

-----------------------------------------------------------------------------
(* The registry.                                                             *)

Of(l, r) == {b \in Ids : bindings[b].role = l /\ bindings[b].route = r}
ActiveOn(l, r) == {b \in Of(l, r) : bindings[b].active}
InactiveOn(r) == {b \in Ids : bindings[b].route = r /\ ~bindings[b].active}

\* Mutant: upsert makes a new binding when there is no active one.
ReuseNone(l, r) == {}

\* upsert reuses the inactive slot of a role and route.
Reusable(l, r) == Of(l, r) \cap InactiveOn(r)

Bound(b, ref) == [bindings EXCEPT ![b].ref = ref, ![b].active = TRUE]

Upsert(l, r, ref) ==
  IF ActiveOn(l, r) # {} THEN Bound(CHOOSE b \in ActiveOn(l, r) : TRUE, ref)
  ELSE IF Reusable(l, r) # {} THEN Bound(CHOOSE b \in Reusable(l, r) : TRUE, ref)
  ELSE Append(bindings, [role |-> l, route |-> r, ref |-> ref, active |-> TRUE])

Invalidated(r) == [b \in Ids |-> [bindings[b] EXCEPT !.active = @ /\ bindings[b].route # r]]

-----------------------------------------------------------------------------
(* Requests of the fabric.                                                   *)

\* _with_continuity: a request continues its role's active conversation on the route.
Continued(l, r) ==
  IF ActiveOn(l, r) = {} THEN 0 ELSE bindings[CHOOSE b \in ActiveOn(l, r) : TRUE].ref

SendRequest(q, l, r) ==
  /\ request[q] = None /\ health[r] # "auth_required"
  /\ request' = [request EXCEPT ![q] = [role |-> l, route |-> r, ref |-> Continued(l, r)]]
  /\ UNCHANGED <<loggedIn, health, bindings, recovery, refs, restarts>>

\* What a driver returns for a conversation: its reference, or that of a new one.
Returned(ref) == {ref, refs + 1} \cap (1 .. MaxRefs)
Opened(ref) == refs' = IF ref > refs THEN ref ELSE refs

\* The answer names the conversation it was given in and is recorded under it.
Record(q, ref) == bindings' = Upsert(request[q].role, request[q].route, ref) /\ Opened(ref)

RequestAnswered(q) ==
  /\ request[q] # None
  /\ \E ref \in Returned(request[q].ref) : Record(q, ref)
  /\ health' = [health EXCEPT ![request[q].route] = "healthy"]
  /\ request' = [request EXCEPT ![q] = None]
  /\ UNCHANGED <<loggedIn, recovery, restarts>>

\* The transport says that the operator has to log in, that the route is limited, which
\* the quotas record, or that something else is wrong.
RequestFails(q) ==
  /\ request[q] # None
  /\ \E h \in {"auth_required", "degraded", health[request[q].route]} :
       health' = [health EXCEPT ![request[q].route] = h]
  /\ request' = [request EXCEPT ![q] = None]
  /\ UNCHANGED <<loggedIn, bindings, recovery, refs, restarts>>

-----------------------------------------------------------------------------
(* The session supervisor.                                                   *)

ProbeFindsSession(r) ==
  /\ r \in loggedIn
  /\ health' = [health EXCEPT ![r] = "healthy"]
  /\ UNCHANGED <<loggedIn, bindings, request, recovery, refs, restarts>>

\* The operator has to log in to the browser, or the desktop application is gone.
ProbeFindsNoSession(r) ==
  /\ r \notin loggedIn
  /\ \E h \in {"auth_required", "degraded"} : health' = [health EXCEPT ![r] = h]
  /\ bindings' = Invalidated(r)
  /\ UNCHANGED <<loggedIn, request, recovery, refs, restarts>>

ProbeFails(r) ==
  /\ health' = [health EXCEPT ![r] = "degraded"]
  /\ UNCHANGED <<loggedIn, bindings, request, recovery, refs, restarts>>

\* recover_route awaits the driver for each binding in turn, which reopens its
\* conversation or another.
Asks(s, r, ids, recovered) ==
  \E b \in ids : recovery' = [recovery EXCEPT ![s] =
    [route |-> r, asked |-> b, ref |-> bindings[b].ref, left |-> ids \ {b}, recovered |-> recovered]]

\* It lists the inactive ones when the session is there; nothing keeps another recovery
\* of the route from doing so at the same time.
BeginRecovery(s, r) ==
  /\ recovery[s] = None
  /\ \/ /\ r \notin loggedIn
        /\ \E h \in {"auth_required", health[r]} : health' = [health EXCEPT ![r] = h]
        /\ UNCHANGED recovery
     \/ health' = [health EXCEPT ![r] = "degraded"] /\ UNCHANGED recovery
     \/ /\ r \in loggedIn /\ InactiveOn(r) = {}
        /\ health' = [health EXCEPT ![r] = "healthy"] /\ UNCHANGED recovery
     \/ r \in loggedIn /\ Asks(s, r, InactiveOn(r), FALSE) /\ UNCHANGED health
  /\ UNCHANGED <<loggedIn, bindings, request, refs, restarts>>

\* The route is enabled when one of them was reopened.
MovesOn(s, recovered) ==
  LET r == recovery[s].route IN
  IF recovery[s].left = {}
  THEN /\ recovery' = [recovery EXCEPT ![s] = None]
       /\ health' = [health EXCEPT ![r] = IF recovered THEN "healthy" ELSE "degraded"]
  ELSE Asks(s, r, recovery[s].left, recovered) /\ UNCHANGED health

\* The binding is bound to what the driver returns, whatever has become of it meanwhile:
\* the conversation that was asked for may replace a later one.
RecoverBinding(s) ==
  /\ recovery[s] # None
  /\ \/ /\ \E ref \in Returned(recovery[s].ref) :
             bindings' = Bound(recovery[s].asked, ref) /\ Opened(ref)
        /\ MovesOn(s, TRUE)
     \/ MovesOn(s, recovery[s].recovered) /\ UNCHANGED <<bindings, refs>>
  /\ UNCHANGED <<loggedIn, request, restarts>>

\* The registry is written to its file on every change: a restart loses the rest.
ControlPlaneRestarts ==
  /\ restarts < MaxRestarts /\ restarts' = restarts + 1
  /\ health' = [r \in Routes |-> "healthy"]
  /\ request' = [q \in Requests |-> None] /\ recovery' = [s \in Recoveries |-> None]
  /\ UNCHANGED <<loggedIn, bindings, refs>>

Next ==
  \/ \E r \in Routes : SessionChanges(r)
  \/ \E q \in Requests, l \in Roles, r \in Routes : SendRequest(q, l, r)
  \/ \E q \in Requests : RequestAnswered(q)
  \/ \E q \in Requests : RequestFails(q)
  \/ \E r \in Routes : ProbeFindsSession(r)
  \/ \E r \in Routes : ProbeFindsNoSession(r)
  \/ \E r \in Routes : ProbeFails(r)
  \/ \E s \in Recoveries, r \in Routes : BeginRecovery(s, r)
  \/ \E s \in Recoveries : RecoverBinding(s)
  \/ ControlPlaneRestarts

Spec == Init /\ [][Next]_vars

-----------------------------------------------------------------------------
\* However requests, probes, recoveries and restarts interleave, a role's work on a
\* route stays one logical binding: nothing forks it into two (sessions.py: "so
\* recovery history remains attached to one logical binding").
OneLogicalBinding ==
  \A a, b \in Ids :
    bindings[a].role = bindings[b].role /\ bindings[a].route = bindings[b].route => a = b
=============================================================================
