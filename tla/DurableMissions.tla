--------------------------- MODULE DurableMissions ---------------------------
(***************************************************************************)
(* Missions as rows of the database (persistence/repositories/missions.py) *)
(* while clients of the HTTP API pause and resume them, a mission service  *)
(* moves them on, schedulers lease them, and restarted kernels recover     *)
(* them (autonomy/recovery.py).                                            *)
(*                                                                         *)
(* A transaction is one step, except where its session goes on using rows  *)
(* it read earlier: a recovery (RecoverBegin, RecoverEnd) and a scheduler  *)
(* renewing its lease (LeaseRead, LeaseWrite).  Between the two, other     *)
(* transactions commit.  A client's request carries the version it read.   *)
(***************************************************************************)
EXTENDS Naturals, FiniteSets

CONSTANTS
  Clients, Missions, Wakeups, Agents,
  WakeupOf,     \* the mission each wakeup is for
  Schedulers,   \* scheduler instances, each of one kernel
  EpochOf,      \* the kernel_epoch of each
  None,
  MaxVersion, MaxGeneration  \* bounds

ConstantsAssumption ==
  /\ WakeupOf \in [Wakeups -> Missions] /\ EpochOf \in [Schedulers -> Nat \ {0}]
  /\ MaxVersion \in Nat \ {0} /\ MaxGeneration \in Nat \ {0}

VARIABLES
  mission,     \* missions: the committed row, None before it is created
  contracted,  \* missions whose contract version is stored
  wakeup,      \* wakeup_records: status
  overdue,     \* wakeups whose due_at has passed
  agentLease,  \* agent_leases
  lease,       \* mission_scheduler_leases: the row, None when there is none
  read,        \* by client: the mission rows it last got
  leaseRead,   \* by scheduler: the lease row its open transaction read
  recovery     \* by scheduler's kernel: what its open recovery has read

rows == <<mission, contracted, wakeup, overdue, agentLease, lease>>
sessions == <<read, leaseRead, recovery>>
vars == <<rows, sessions>>

MissionStatus ==
  {"READY", "ACTIVE", "WAITING_EXTERNAL", "BLOCKED", "PAUSED", "COMPLETED"}

MissionORM == [status : MissionStatus, mission_version : Nat]

MissionSchedulerLeaseORM ==
  [scheduler_instance_id : Schedulers, kernel_epoch : Nat, lease_generation : Nat]

AgentLeaseORM == [status : {"ABSENT", "ACTIVE", "REVOKED"}, kernel_epoch : Nat]

WakeupStatus == {"ABSENT", "PENDING", "CLAIMED", "FIRED", "CANCELLED"}

Init ==
  /\ mission = [m \in Missions |-> None]
  /\ contracted \in SUBSET Missions
  /\ wakeup = [w \in Wakeups |-> "ABSENT"] /\ overdue = {}
  /\ agentLease = [a \in Agents |-> [status |-> "ABSENT", kernel_epoch |-> 0]]
  /\ lease = [m \in Missions |-> None]
  /\ read = [c \in Clients |-> [m \in Missions |-> None]]
  /\ leaseRead = [s \in Schedulers |-> None]
  /\ recovery = [s \in Schedulers |-> None]

-----------------------------------------------------------------------------
(* Missions *)

AtVersion(row, expected) == row # None /\ row.mission_version = expected

Updated(expected, status) == [status |-> status, mission_version |-> expected + 1]

CreateMission(m) ==
  /\ mission[m] = None
  /\ mission' = [mission EXCEPT ![m] = [status |-> "READY", mission_version |-> 1]]

\* The endpoint stores a READY mission, whether or not its contract is stored.
PostMission(m) ==
  /\ CreateMission(m)
  /\ UNCHANGED <<contracted, wakeup, overdue, agentLease, lease, sessions>>

GetMission(c, m) ==
  /\ read' = [read EXCEPT ![c][m] = mission[m]]
  /\ UNCHANGED <<rows, leaseRead, recovery>>

\* A refused update changes nothing; an accepted one tells the client the new row.
UpdateMissionStatusWithVersion(c, m, status) ==
  /\ read[c][m] # None /\ read[c][m].mission_version < MaxVersion
  /\ LET expected == read[c][m].mission_version IN
       /\ AtVersion(mission[m], expected)
       /\ mission' = [mission EXCEPT ![m] = Updated(expected, status)]
       /\ read' = [read EXCEPT ![c][m] = Updated(expected, status)]

\* The two endpoints: the status the mission is in is not looked at.
PauseMission(c, m) ==
  /\ UpdateMissionStatusWithVersion(c, m, "PAUSED")
  /\ UNCHANGED <<contracted, wakeup, overdue, agentLease, lease, leaseRead, recovery>>

ResumeMission(c, m) ==
  /\ UpdateMissionStatusWithVersion(c, m, "ACTIVE")
  /\ UNCHANGED <<contracted, wakeup, overdue, agentLease, lease, leaseRead, recovery>>

CancelMissionWakeups(m) ==
  wakeup' = [w \in Wakeups |->
    IF WakeupOf[w] = m /\ wakeup[w] = "PENDING" THEN "CANCELLED" ELSE wakeup[w]]

CompleteMission(c, m) ==
  /\ UpdateMissionStatusWithVersion(c, m, "COMPLETED") /\ CancelMissionWakeups(m)
  /\ UNCHANGED <<contracted, overdue, agentLease, lease, leaseRead, recovery>>

ScheduleWakeup(w) == wakeup[w] = "ABSENT" /\ wakeup' = [wakeup EXCEPT ![w] = "PENDING"]

\* The mission goes to sleep and its wakeup is scheduled.
WaitExternal(c, w) ==
  /\ ScheduleWakeup(w)
  /\ UpdateMissionStatusWithVersion(c, WakeupOf[w], "WAITING_EXTERNAL")
  /\ UNCHANGED <<contracted, overdue, agentLease, lease, leaseRead, recovery>>

WakeupDue(w) ==
  /\ wakeup[w] = "PENDING" /\ overdue' = overdue \cup {w}
  /\ UNCHANGED <<mission, contracted, wakeup, agentLease, lease, sessions>>

-----------------------------------------------------------------------------
(* Leases *)

SaveAgentLease(s, a) ==
  /\ agentLease[a].status = "ABSENT"
  /\ agentLease' = [agentLease EXCEPT ![a] = [status |-> "ACTIVE", kernel_epoch |-> EpochOf[s]]]
  /\ UNCHANGED <<mission, contracted, wakeup, overdue, lease, sessions>>

\* acquire_or_renew_lease: the SELECT.  A higher epoch refuses the caller; the
\* holder and the expiry of the lease are not looked at.
LeaseRead(s, m) ==
  /\ leaseRead[s] = None /\ mission[m] # None
  /\ lease[m] # None => lease[m].kernel_epoch <= EpochOf[s]
  /\ leaseRead' = [leaseRead EXCEPT ![s] = [mission |-> m, row |-> lease[m]]]
  /\ UNCHANGED <<rows, read, recovery>>

\* The flush writes only the columns whose value changed since the SELECT.
\* mission_id is unique, and a row deleted meanwhile fails the UPDATE.
Flushed(s, old, row) ==
  [scheduler_instance_id |->
     IF s # old.scheduler_instance_id THEN s ELSE row.scheduler_instance_id,
   kernel_epoch |-> IF EpochOf[s] # old.kernel_epoch THEN EpochOf[s] ELSE row.kernel_epoch,
   lease_generation |-> old.lease_generation + 1]

LeaseWrite(s) ==
  /\ leaseRead[s] # None
  /\ LET m == leaseRead[s].mission
         old == leaseRead[s].row
         fails == (old = None) # (lease[m] = None)
     IN lease' = [lease EXCEPT ![m] =
          IF fails THEN @
          ELSE IF old = None
          THEN [scheduler_instance_id |-> s, kernel_epoch |-> EpochOf[s], lease_generation |-> 1]
          ELSE Flushed(s, old, lease[m])]
  /\ leaseRead[s].row # None => leaseRead[s].row.lease_generation < MaxGeneration
  /\ leaseRead' = [leaseRead EXCEPT ![s] = None]
  /\ UNCHANGED <<mission, contracted, wakeup, overdue, agentLease, read, recovery>>

ReleaseLease(m) ==
  /\ lease[m] # None /\ lease' = [lease EXCEPT ![m] = None]
  /\ UNCHANGED <<mission, contracted, wakeup, overdue, agentLease, sessions>>

-----------------------------------------------------------------------------
(* Recovery *)

ActiveStatuses == {"ACTIVE", "READY", "WAITING_EXTERNAL", "BLOCKED", "ESCALATED"}

StaleAgents(s) ==
  {a \in Agents : agentLease[a].status = "ACTIVE" /\ agentLease[a].kernel_epoch < EpochOf[s]}

ActiveMissions ==
  {m \in Missions : mission[m] # None /\ mission[m].status \in ActiveStatuses}

\* The fence and the list of missions come first; what they read stays in the
\* session's identity map.
RecoverBegin(s) ==
  /\ recovery[s] = None
  /\ recovery' = [recovery EXCEPT ![s] =
       [fenced |-> StaleAgents(s), seen |-> [m \in ActiveMissions |-> mission[m]]]]
  /\ UNCHANGED <<rows, read, leaseRead>>

\* Mutant: the mission of an overdue wakeup is resumed whatever its status.
Wakes(row) == TRUE

Sleeps(row) == row.status = "WAITING_EXTERNAL"

\* The rows after the session's updates, from the rows it knows: a mission
\* without its contract is blocked, then one that waits for an overdue wakeup
\* is resumed; an update that follows another sees what that one wrote.
Recovered(m, row, fired) ==
  LET blocked == IF m \in contracted \/ row.status \notin ActiveStatuses THEN row
                 ELSE Updated(row.mission_version, "BLOCKED")
      due == \E w \in fired : WakeupOf[w] = m
  IN IF due /\ Sleeps(blocked) THEN Updated(blocked.mission_version, "ACTIVE") ELSE blocked

\* get_overdue_wakeups, then claim_wakeup and fire_wakeup of each of them.
OverdueWakeups == {w \in overdue : wakeup[w] = "PENDING"}
FireWakeups(fired) == wakeup' = [w \in Wakeups |-> IF w \in fired THEN "FIRED" ELSE wakeup[w]]

FenceStaleLeases(fenced) ==
  agentLease' = [a \in Agents |->
    IF a \in fenced THEN [agentLease[a] EXCEPT !.status = "REVOKED"] ELSE agentLease[a]]

\* One refused update rolls the whole recovery back.
RecoverEnd(s) ==
  /\ recovery[s] # None
  /\ LET seen == recovery[s].seen
         fired == OverdueWakeups
         known == {m \in Missions : mission[m] # None}
         row == [m \in known |-> IF m \in DOMAIN seen THEN seen[m] ELSE mission[m]]
         after == [m \in known |->
           IF m \in DOMAIN seen THEN Recovered(m, row[m], fired)
           ELSE IF Sleeps(row[m]) /\ \E w \in fired : WakeupOf[w] = m
           THEN Updated(row[m].mission_version, "ACTIVE") ELSE row[m]]
         written == {m \in known : after[m] # row[m]}
     IN IF \A m \in written : AtVersion(mission[m], row[m].mission_version)
        THEN /\ \A m \in written : after[m].mission_version <= MaxVersion + 1
             /\ mission' = [m \in Missions |-> IF m \in written THEN after[m] ELSE mission[m]]
             /\ FireWakeups(fired) /\ FenceStaleLeases(recovery[s].fenced)
        ELSE UNCHANGED <<mission, wakeup, agentLease>>
  /\ recovery' = [recovery EXCEPT ![s] = None]
  /\ UNCHANGED <<contracted, overdue, lease, read, leaseRead>>

\* The process of a scheduler dies with its open transactions.
SchedulerDies(s) ==
  /\ leaseRead' = [leaseRead EXCEPT ![s] = None]
  /\ recovery' = [recovery EXCEPT ![s] = None]
  /\ UNCHANGED <<rows, read>>

Next ==
  \/ \E c \in Clients, m \in Missions :
       GetMission(c, m) \/ PauseMission(c, m) \/ ResumeMission(c, m) \/ CompleteMission(c, m)
  \/ \E c \in Clients, w \in Wakeups : WaitExternal(c, w)
  \/ \E w \in Wakeups : WakeupDue(w)
  \/ \E m \in Missions : PostMission(m) \/ ReleaseLease(m)
  \/ \E s \in Schedulers :
       \/ \E a \in Agents : SaveAgentLease(s, a)
       \/ \E m \in Missions : LeaseRead(s, m)
       \/ LeaseWrite(s) \/ RecoverBegin(s) \/ RecoverEnd(s) \/ SchedulerDies(s)

Spec == Init /\ [][Next]_vars

-----------------------------------------------------------------------------

\* Rows and sessions have their types.
TypeOK ==
  /\ mission \in [Missions -> MissionORM \cup {None}]
  /\ contracted \subseteq Missions /\ overdue \subseteq Wakeups
  /\ wakeup \in [Wakeups -> WakeupStatus]
  /\ agentLease \in [Agents -> AgentLeaseORM]
  /\ lease \in [Missions -> MissionSchedulerLeaseORM \cup {None}]
  /\ read \in [Clients -> [Missions -> MissionORM \cup {None}]]
  /\ \A s \in Schedulers :
       /\ leaseRead[s] # None => leaseRead[s].row \in MissionSchedulerLeaseORM \cup {None}
       /\ recovery[s] # None => recovery[s].fenced \subseteq Agents

\* What a recovery knows of a mission: the row it listed, or else the committed one.
Known(s, m) == IF m \in DOMAIN recovery[s].seen THEN recovery[s].seen[m] ELSE mission[m]

MayResume(s, m) == m \in contracted \/ m \notin DOMAIN recovery[s].seen

FiredBy(m) == {w \in Wakeups : WakeupOf[w] = m /\ wakeup[w] = "PENDING" /\ wakeup'[w] = "FIRED"}

\* A recovery makes a mission ACTIVE only out of WAITING_EXTERNAL, with a wakeup of
\* its own fired in the same commit, and never one that it listed and whose contract
\* is not stored, whatever was committed since it listed them; and it fires no wakeup
\* for nothing: the mission, asleep for all that the recovery knows, is resumed in
\* that commit (recovery.py:53-88).  Of the contract of a mission that was PAUSED when
\* they were listed, and is asleep now, it knows nothing, and resumes it.
RecoveryResumesSleepers ==
  [][\A s \in Schedulers, m \in Missions :
       recovery[s] # None /\ recovery'[s] = None /\ mission[m] # None =>
         /\ mission'[m] # mission[m] /\ mission'[m].status = "ACTIVE" =>
              mission[m].status = "WAITING_EXTERNAL" /\ MayResume(s, m) /\ FiredBy(m) # {}
         /\ FiredBy(m) # {} /\ Known(s, m).status = "WAITING_EXTERNAL" /\ MayResume(s, m) =>
              mission'[m].status = "ACTIVE"]_vars

=============================================================================
