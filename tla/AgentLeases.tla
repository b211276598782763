----------------------------- MODULE AgentLeases -----------------------------
(***************************************************************************)
(* The authority of agent cells: a MissionScheduler assigns an agent to a  *)
(* task with a fenced lease (autonomy/scheduler.py, roles.py), and an      *)
(* AgentLeaseController decides, at every use, whether that lease still    *)
(* holds (autonomy/leases.py).                                             *)
(*                                                                         *)
(* Nothing revokes the lease of the agent a task is taken from: that it    *)
(* can no longer act rests on the (epoch, generation) pair the scheduler   *)
(* hands out, and a scheduler of a new epoch counts generations from one   *)
(* again, while the one it replaces may go on assigning.                   *)
(***************************************************************************)
EXTENDS Integers, Sequences, FiniteSets

CONSTANTS
  Tasks,
  MissionMaximum,  \* maximum_action_class: 0 for A0
  MaxTurns, MaxSpend,
  MaxEpoch, MaxLeases, MaxVersion  \* bounds

AgentLeasesAssumption ==
  /\ MissionMaximum \in 0 .. 3
  /\ MaxTurns \in Nat \ {0} /\ MaxSpend \in Nat
  /\ MaxEpoch \in Nat \ {0} /\ MaxLeases \in Nat /\ MaxVersion \in Nat \ {0}

AgentLeaseStatus ==
  {"REQUESTED", "ACTIVE", "COMPLETED", "EXPIRED", "REVOKED", "FAILED", "HANDED_OFF"}

AgentRole ==
  {"ARCHITECT", "RESEARCHER", "PLANNER", "BUILDER", "VERIFIER", "TESTER", "REVIEWER",
   "OBSERVER", "COORDINATOR"}

\* maximum_recommended_action_class: only these two profiles go beyond A0.
RoleCeiling == [r \in AgentRole |-> IF r \in {"BUILDER", "TESTER"} THEN 1 ELSE 0]

MissionStatus ==
  {"DRAFT", "PROPOSED", "VALIDATING", "READY", "ACTIVE", "PAUSED", "WAITING_EXTERNAL",
   "BLOCKED", "ESCALATED", "COMPLETED", "FAILED", "CANCELLED"}

VARIABLES
  leases,            \* _leases, in the order they were granted; one per agent
  task_generations,  \* by epoch: the scheduler's _task_generations
  epoch,             \* the authoritative kernel epoch
  mission,           \* status and mission_version of the mission
  allowed            \* by task: the last lease work on it was allowed under (history)

vars == <<leases, task_generations, epoch, mission, allowed>>

AgentLease ==
  [task : Tasks, generation : Nat, epoch : Nat, ceiling : 0 .. 3, late : BOOLEAN,
   turns : Nat, spend : Nat, status : AgentLeaseStatus]

TypeOK ==
  /\ leases \in Seq(AgentLease)
  /\ task_generations \in [1 .. MaxEpoch -> [Tasks -> Nat]]
  /\ epoch \in 1 .. MaxEpoch
  /\ mission \in [status : MissionStatus, version : Nat]
  /\ allowed \in [Tasks -> 0 .. Len(leases)]
  /\ \A l \in DOMAIN leases :
       /\ leases[l].generation <= task_generations[leases[l].epoch][leases[l].task]
       /\ leases[l].ceiling <= MissionMaximum

Init ==
  /\ leases = <<>>
  /\ task_generations = [e \in 1 .. MaxEpoch |-> [t \in Tasks |-> 0]]
  /\ epoch = 1
  /\ mission = [status |-> "ACTIVE", version |-> 1]
  /\ allowed = [t \in Tasks |-> 0]

Least(s) == CHOOSE x \in s : \A y \in s : x <= y

Assignable == {"ACTIVE", "READY"}

EffectiveCeiling(asked, role) == Least({asked, MissionMaximum, RoleCeiling[role]})

\* Mutant: the generation is advanced when the task is first assigned only.
FirstGeneration(e, t) == 1

\* The generation the next lease of a task carries.
NextGeneration(e, t) == task_generations[e][t] + 1

NewLease(t, g, e, c) ==
  [task |-> t, generation |-> g, epoch |-> e, ceiling |-> c, late |-> FALSE,
   turns |-> 0, spend |-> 0, status |-> "ACTIVE"]

AssignAgentToTask(e, t, role, asked) ==
  /\ mission.status \in Assignable /\ Len(leases) < MaxLeases
  /\ task_generations' = [task_generations EXCEPT ![e][t] = NextGeneration(e, t)]
  /\ leases' = Append(leases,
       NewLease(t, NextGeneration(e, t), e, EffectiveCeiling(asked, role)))
  /\ UNCHANGED <<epoch, mission, allowed>>

-----------------------------------------------------------------------------
(* Using a lease *)

Current(l) ==
  [epoch |-> epoch, generation |-> task_generations[epoch][leases[l].task]]

\* Which generations are behind the task's current one.
Behind(l) == leases[l].generation < Current(l).generation

\* Whether the lease is of an older epoch than the kernel's.
OldEpoch(l) == leases[l].epoch < epoch

\* What validate_lease_authority makes of an ACTIVE lease, in its order.
Verdict(l) ==
  IF leases[l].late THEN "EXPIRED" ELSE IF OldEpoch(l) \/ Behind(l) THEN "REVOKED" ELSE "ACTIVE"

Used(l, turns, spend) ==
  LET u == [leases[l] EXCEPT !.turns = @ + turns, !.spend = @ + spend]
  IN [u EXCEPT !.status =
        IF u.spend > MaxSpend THEN "FAILED" ELSE IF u.turns >= MaxTurns THEN "COMPLETED" ELSE @]

\* validate_lease_authority: an agent asks whether it may work on its task;
\* the lease is marked when it may not.  Asking for a version the mission is
\* not at, or for a task outside the lease, is refused and changes nothing.
ValidateFails(l) ==
  /\ leases[l].status = "ACTIVE" /\ Verdict(l) # "ACTIVE"
  /\ leases' = [leases EXCEPT ![l].status = Verdict(l)]
  /\ UNCHANGED <<task_generations, epoch, mission, allowed>>

\* It may, at the mission version it read; that changes nothing.
Allow(l, expected) ==
  /\ leases[l].status = "ACTIVE" /\ Verdict(l) = "ACTIVE"
  /\ expected = mission.version
  /\ allowed' = [allowed EXCEPT ![leases[l].task] = l]
  /\ UNCHANGED <<leases, task_generations, epoch, mission>>

\* record_usage does not ask for an ACTIVE lease: the bill of a model call
\* may come after the lease was revoked, and the lease may end while its agent
\* works (recorded while below both ceilings, to bound the states).
RecordUsage(l, turns, spend) ==
  /\ leases[l].turns <= MaxTurns /\ leases[l].spend <= MaxSpend
  /\ leases' = [leases EXCEPT ![l] = Used(l, turns, spend)]
  /\ UNCHANGED <<task_generations, epoch, mission, allowed>>

RevokeLease(l) ==
  /\ leases[l].status = "ACTIVE"
  /\ leases' = [leases EXCEPT ![l].status = "REVOKED"]
  /\ UNCHANGED <<task_generations, epoch, mission, allowed>>

-----------------------------------------------------------------------------
(* What goes on around it *)

LeaseExpires(l) ==
  /\ ~leases[l].late
  /\ leases' = [leases EXCEPT ![l].late = TRUE]
  /\ UNCHANGED <<task_generations, epoch, mission, allowed>>

KernelRestarts ==
  /\ epoch < MaxEpoch
  /\ epoch' = epoch + 1
  /\ UNCHANGED <<leases, task_generations, mission, allowed>>

FenceEpoch ==
  /\ leases' = [l \in DOMAIN leases |->
       IF leases[l].status = "ACTIVE" /\ leases[l].epoch < epoch
       THEN [leases[l] EXCEPT !.status = "REVOKED"] ELSE leases[l]]
  /\ UNCHANGED <<task_generations, epoch, mission, allowed>>

\* schedule_external_wait puts the mission to sleep, a wakeup resumes it.
MissionMoves ==
  /\ mission.version < MaxVersion
  /\ mission' =
       [status |-> IF mission.status = "WAITING_EXTERNAL" THEN "ACTIVE" ELSE "WAITING_EXTERNAL",
        version |-> mission.version + 1]
  /\ UNCHANGED <<leases, task_generations, epoch, allowed>>

Next ==
  \/ \E e \in 1 .. epoch, t \in Tasks, r \in AgentRole : AssignAgentToTask(e, t, r, 2)
  \/ \E l \in DOMAIN leases :
       \/ ValidateFails(l)
       \/ \E v \in 1 .. mission.version : Allow(l, v)
       \/ \E n, s \in 0 .. 1 : RecordUsage(l, n, s)
       \/ RevokeLease(l)
       \/ LeaseExpires(l)
  \/ KernelRestarts
  \/ FenceEpoch
  \/ MissionMoves

Spec == Init /\ [][Next]_vars

-----------------------------------------------------------------------------
(* Properties *)

Precedes(l, m) ==
  \/ leases[l].epoch < leases[m].epoch
  \/ leases[l].epoch = leases[m].epoch /\ leases[l].generation < leases[m].generation

\* Once an agent has been allowed to work on a task, no agent that was given
\* the task earlier, or by a scheduler of an earlier epoch, is allowed to
\* again, though leases.py revokes nothing when a task changes hands.
NewestAgentActs ==
  [][\A t \in Tasks : allowed'[t] # allowed[t] =>
       allowed[t] = 0 \/ Precedes(allowed[t], allowed'[t])]_vars
=============================================================================
