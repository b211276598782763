------------------------- MODULE IntelligenceFabric -------------------------
(* The intelligence fabric: a request is routed once, by health, quota and   *)
(* budget, to a list of routes in order of their score, and is tried on one  *)
(* after the other: invoke fails over, stream fails over until output has    *)
(* escaped, escalate also moves on when the answer is not good enough, first *)
(* among cheap routes and then, routed anew, among all. Requests share the   *)
(* health, quota and resource registries; all run on one event loop and      *)
(* interleave where a transport is awaited. Scores are any order.            *)
EXTENDS Naturals, Sequences, FiniteSets, SequencesExt

CONSTANTS Calls, Routes, Cheap, Local, None,
          MaxRequests, FailureThreshold, MaxConcurrency, MaxAttempts, MaxCandidates

FabricAssumption ==
  /\ IsFiniteSet(Calls) /\ IsFiniteSet(Routes) /\ Local \subseteq Routes
  /\ MaxRequests \in Nat /\ FailureThreshold \in Nat \ {0} /\ MaxConcurrency \in Nat
  /\ MaxAttempts \in Nat /\ MaxCandidates \in Nat
  /\ None \notin Calls \cup Routes

VARIABLES
  health,     \* of each route: its state and consecutive failures
  cooldown,   \* the routes that are rate-limited
  used,       \* the attempts each route has had in its quota window
  reserved,   \* the calls that hold a reservation of the local model
  call,       \* the request of each caller
  running     \* the caller that has the event loop, None between two events

vars == <<health, cooldown, used, reserved, call, running>>

RouteHealth == {"healthy", "degraded", "open", "auth_required"}
RouteHealthRecord == [state : RouteHealth, failures : 0 .. FailureThreshold]
Healthy == [state |-> "healthy", failures |-> 0]

\* A decision: the selected route and its alternatives, by their score.
FabricRoutingDecision == Seq(Routes)

EscalationStage == {"economy", "all"}
Kinds == {"invoke", "stream", "escalate"}
NewCall == [kind |-> None, phase |-> "idle", stage |-> None, plan |-> <<>>,
            on |-> None, asked |-> <<>>, attempts |-> 0, escaped |-> {}]

\* The events in a route's quota window; those of calls under way may exceed the quota.
QuotaState == 0 .. MaxRequests + Cardinality(Calls)

TypeOK ==
  /\ health \in [Routes -> RouteHealthRecord]
  /\ cooldown \subseteq Routes /\ used \in [Routes -> QuotaState]
  /\ reserved \subseteq Calls /\ Cardinality(reserved) <= MaxConcurrency
  /\ running \in Calls \cup {None}
  /\ \A c \in Calls :
       /\ call[c].kind \in Kinds \cup {None} /\ call[c].on \in Routes \cup {None}
       /\ call[c].phase \in {"idle", "select", "try", "await", "answered", "failed"}
       /\ call[c].stage \in EscalationStage \cup {None}
       /\ call[c].plan \in FabricRoutingDecision /\ call[c].asked \in Seq(Routes)
       /\ call[c].attempts \in Nat
       /\ call[c].escaped \subseteq Routes

Init ==
  /\ health = [r \in Routes |-> Healthy]
  /\ cooldown = {} /\ used = [r \in Routes |-> 0] /\ reserved = {}
  /\ call = [c \in Calls |-> NewCall] /\ running = None

-----------------------------------------------------------------------------
(* The registries of health, quota and local resources.                      *)

RecordSuccess(r) == health' = [health EXCEPT ![r] = Healthy]
Failed(h) ==
  IF h.failures + 1 >= FailureThreshold THEN [state |-> "open", failures |-> FailureThreshold]
  ELSE [state |-> "degraded", failures |-> h.failures + 1]

\* can_admit, up to the concurrency of the local model.
Admits == Cardinality(reserved) < MaxConcurrency

Reserve(c, r) == reserved' = IF r \in Local THEN reserved \cup {c} ELSE reserved
Release(c) == reserved' = reserved \ {c}

RecordAttempt(r) == used' = [used EXCEPT ![r] = @ + 1]
MarkRateLimited(r) == cooldown' = cooldown \cup {r}
WithinQuota(r) == r \notin cooldown /\ used[r] < MaxRequests

Eligible(r) ==
  /\ health[r].state \notin {"open", "auth_required"}
  /\ WithinQuota(r)
  /\ r \in Local => Admits

-----------------------------------------------------------------------------
(* One request.                                                              *)

Has(c) == running \in {None, c}
Set(c, phase) ==
  [call EXCEPT ![c].phase = phase, ![c].on = None,
               ![c].plan = IF phase = "try" THEN @ ELSE <<>>]

StartCall(c, kind) ==
  /\ running = None /\ call[c].phase = "idle"
  /\ call' = [call EXCEPT ![c] = [NewCall EXCEPT !.kind = kind, !.phase = "select",
                                    !.stage = IF kind = "escalate" THEN "economy" ELSE "all"]]
  /\ running' = c
  /\ UNCHANGED <<health, cooldown, used, reserved>>

\* An escalator stops after so many attempts.
MayTry(c) == call[c].kind = "escalate" => call[c].attempts < MaxAttempts

\* When a stage has no candidate left the next stage is routed anew, or the request fails.
StageOver(c, n) ==
  IF call[c].stage = "economy" /\ call[c].attempts + n < MaxAttempts
  THEN [call EXCEPT ![c].stage = "all", ![c].phase = "select", ![c].attempts = @ + n]
  ELSE Set(c, "failed")

\* The escalator does not ask a route it has seen in an earlier stage.
Seen(c) == {call[c].asked[i] : i \in 1 .. Len(call[c].asked)}

Candidates(c) ==
  {r \in Routes : Eligible(r) /\ (call[c].stage = "economy" => r \in Cheap)} \ Seen(c)

\* invoke and stream take every candidate; each stage of the escalator takes the best few.
MinOf(m, n) == IF m < n THEN m ELSE n
Taken(c) == IF call[c].kind = "escalate" THEN MinOf(MaxCandidates, Cardinality(Candidates(c)))
            ELSE Cardinality(Candidates(c))

SelectRoutes(c) ==
  /\ Has(c) /\ call[c].phase = "select"
  /\ \/ /\ Candidates(c) # {}
        /\ \E plan \in SetToSeqs(Candidates(c)) :
             call' = [call EXCEPT ![c].phase = "try", ![c].plan = SubSeq(plan, 1, Taken(c))]
     \/ Candidates(c) = {} /\ call' = StageOver(c, 1)
  /\ running' = IF call'[c].phase = "failed" THEN None ELSE c
  /\ UNCHANGED <<health, cooldown, used, reserved>>

\* The next candidate is asked: a reservation is made, the attempt is counted, and
\* the transport is awaited. Neither health nor quota is looked at again.
Attempt(c) ==
  /\ Has(c) /\ call[c].phase = "try" /\ call[c].plan # <<>> /\ MayTry(c)
  /\ LET r == Head(call[c].plan)
         asking == [call EXCEPT ![c].plan = Tail(@), ![c].asked = Append(@, r),
                                 ![c].attempts = @ + 1]
     IN \/ /\ r \in Local => Admits
           /\ Reserve(c, r) /\ RecordAttempt(r)
           /\ call' = [asking EXCEPT ![c].phase = "await", ![c].on = r]
           /\ running' = None
        \/ /\ r \in Local /\ ~Admits
           /\ call' = asking /\ running' = c
           /\ UNCHANGED <<reserved, used>>
  /\ UNCHANGED <<health, cooldown>>

Exhausted(c) ==
  /\ Has(c) /\ call[c].phase = "try" /\ (call[c].plan = <<>> \/ ~MayTry(c))
  /\ call' = StageOver(c, 0)
  /\ running' = IF call'[c].phase = "failed" THEN None ELSE c
  /\ UNCHANGED <<health, cooldown, used, reserved>>

\* A stream yields text, a tool call or its usage to the caller.
EmitOutput(c) ==
  /\ running = None /\ call[c].phase = "await" /\ call[c].kind = "stream"
  /\ call' = [call EXCEPT ![c].escaped = @ \cup {call[c].on}]
  /\ UNCHANGED <<health, cooldown, used, reserved, running>>

\* The transport answers. An escalator whose assessor rejects the answer goes on.
Answer(c, accepted) ==
  /\ running = None /\ call[c].phase = "await"
  /\ accepted \/ call[c].kind = "escalate"
  /\ Release(c) /\ RecordSuccess(call[c].on)
  /\ call' = Set(c, IF accepted THEN "answered" ELSE "try")
  /\ running' = IF accepted THEN None ELSE c
  /\ UNCHANGED <<cooldown, used>>

\* Mutant: a stream fails over whatever has escaped.
AlwaysFailsOver(c) == TRUE

FailsOver(c) == call[c].escaped = {}

\* The transport fails: its authentication is gone, it is rate-limited, or anything
\* else; the next candidate is tried unless output of a stream has escaped.
TransportFails(c, error) ==
  /\ running = None /\ call[c].phase = "await"
  /\ LET r == call[c].on IN
     /\ health' = [health EXCEPT ![r] =
          CASE error = "auth" -> [@ EXCEPT !.state = "auth_required"]
            [] error = "rate" -> @
            [] OTHER -> Failed(@)]
     /\ IF error = "rate" THEN MarkRateLimited(r) ELSE UNCHANGED cooldown
  /\ Release(c)
  /\ call' = Set(c, IF FailsOver(c) THEN "try" ELSE "failed")
  /\ running' = IF FailsOver(c) THEN c ELSE None
  /\ UNCHANGED used

\* A transport raises anything but a TransportError, or a caller abandons its stream: the
\* reservation is released and nothing is recorded of the route.
CallAborts(c) ==
  /\ running = None /\ call[c].phase = "await"
  /\ Release(c) /\ call' = Set(c, "failed")
  /\ UNCHANGED <<health, cooldown, used, running>>

-----------------------------------------------------------------------------
(* Time passes between two events: the window of a quota and the cooldown of *)
(* a rate limit end, and an open circuit is half-open once it is read.       *)

WindowPasses(r) ==
  /\ running = None /\ (r \in cooldown \/ used[r] > 0)
  /\ cooldown' = cooldown \ {r} /\ used' = [used EXCEPT ![r] = 0]
  /\ UNCHANGED <<health, reserved, call, running>>

CircuitResets(r) ==
  /\ running = None /\ health[r].state = "open"
  /\ health' = [health EXCEPT ![r].state = "degraded"]
  /\ UNCHANGED <<cooldown, used, reserved, call, running>>

\* The probe of a session supervisor finds the operator logged in again.
OperatorLogsIn(r) ==
  /\ running = None /\ health[r].state = "auth_required"
  /\ health' = [health EXCEPT ![r] = Healthy]
  /\ UNCHANGED <<cooldown, used, reserved, call, running>>

Next ==
  \/ \E c \in Calls, kind \in Kinds : StartCall(c, kind)
  \/ \E c \in Calls : SelectRoutes(c)
  \/ \E c \in Calls : Attempt(c)
  \/ \E c \in Calls : Exhausted(c)
  \/ \E c \in Calls : EmitOutput(c)
  \/ \E c \in Calls, accepted \in BOOLEAN : Answer(c, accepted)
  \/ \E c \in Calls, error \in {"auth", "rate", "outage"} : TransportFails(c, error)
  \/ \E c \in Calls : CallAborts(c)
  \/ \E r \in Routes : WindowPasses(r)
  \/ \E r \in Routes : CircuitResets(r)
  \/ \E r \in Routes : OperatorLogsIn(r)

Spec == Init /\ [][Next]_vars

-----------------------------------------------------------------------------
\* Whatever fails, and however often a request moves on, no route is asked twice for
\* one request, and the text, tool calls and usage a caller has been given of a stream
\* come from one route (fabric.py, escalation.py).
EachRouteOnce == \A c \in Calls : IsInjective(call[c].asked) /\ Cardinality(call[c].escaped) <= 1
=============================================================================
