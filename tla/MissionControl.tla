--------------------------- MODULE MissionControl ---------------------------
(***************************************************************************)
(* Missions while one scheduler drives them: the state machine and the     *)
(* versioned, idempotent commands of MissionController                     *)
(* (autonomy/mission.py), the external waits and wakeups of                *)
(* MissionScheduler and WakeupManager (autonomy/scheduler.py, wakeups.py)  *)
(* and the contract guard (autonomy/revalidation.py).                      *)
(*                                                                         *)
(* All of them are synchronous methods on shared Mission objects, so each  *)
(* is one action.  What is hard is the order of legal calls: four objects  *)
(* write the same status, and only the controller asks the state machine.  *)
(* Commands are retried, and a caller's version may be old.                *)
(***************************************************************************)
EXTENDS Naturals, Sequences

CONSTANTS
  Missions,     \* mission ids
  Keys,         \* idempotency keys, of commands and of wakeups
  NoKey,        \* a call without one
  MaxVersion,   \* bound: a mission of this version gets no more commands
  MaxContract,  \* bound: versions of the contract
  MaxWakeups,   \* bound: wakeups ever scheduled
  MaxTime       \* bound: ticks of the clock

ASSUME BoundsAssumption ==
  /\ MaxVersion \in Nat /\ MaxContract \in Nat \ {0}
  /\ MaxWakeups \in Nat /\ MaxTime \in Nat
  /\ NoKey \notin Keys

VARIABLES
  status,      \* Mission.status
  version,     \* Mission.mission_version
  bound,       \* Mission.contract_version
  contract,    \* the version of the active AlignmentContract
  registered,  \* the keys of MissionScheduler._missions
  processed,   \* the keys of MissionController._processed_commands
  applied,     \* every command the controller carried out
  wakeups,     \* WakeupManager._wakeups, in insertion order
  now          \* the clock

vars == <<status, version, bound, contract, registered, processed, applied, wakeups, now>>

Terminal == {"COMPLETED", "FAILED", "CANCELLED"}

\* MissionStateMachine.VALID_TRANSITIONS
ValidTransitions ==
  [DRAFT            |-> {"PROPOSED", "CANCELLED"},
   PROPOSED         |-> {"VALIDATING", "CANCELLED"},
   VALIDATING       |-> {"READY", "DRAFT", "CANCELLED"},
   READY            |-> {"ACTIVE", "PAUSED", "CANCELLED"},
   ACTIVE           |-> {"PAUSED", "WAITING_EXTERNAL", "BLOCKED", "ESCALATED"} \cup Terminal,
   PAUSED           |-> {"ACTIVE", "CANCELLED"},
   WAITING_EXTERNAL |-> {"ACTIVE", "BLOCKED", "ESCALATED", "FAILED", "CANCELLED"},
   BLOCKED          |-> {"ACTIVE", "ESCALATED", "FAILED", "CANCELLED"},
   ESCALATED        |-> {"ACTIVE", "BLOCKED", "FAILED", "CANCELLED"},
   COMPLETED        |-> {},
   FAILED           |-> {},
   CANCELLED        |-> {}]

MissionStatus == DOMAIN ValidTransitions

\* EXPIRED is never assigned here: process_due_wakeups compares a mission's
\* version with itself.
WakeupStatus == {"PENDING", "CLAIMED", "FIRED", "CANCELLED"}

Wakeup == [mission : Missions, due : Nat, key : Keys \cup {NoKey}, status : WakeupStatus]

\* A mission starts as the schema's default or as POST /missions creates it.
Init ==
  /\ status \in [Missions -> {"DRAFT", "READY"}]
  /\ version = [m \in Missions |-> 1]
  /\ bound = [m \in Missions |-> 1]
  /\ contract = 1
  /\ registered = {}
  /\ processed = {}
  /\ applied = {}
  /\ wakeups = <<>>
  /\ now = 0

-----------------------------------------------------------------------------
(* MissionController.transition.                                           *)

\* Mutant: the result of a command is not remembered.
ProcessedNever(k) == FALSE
Processed(k) == k # NoKey /\ k \in processed

\* Mutant: any version the mission has had will do.
VersionReached(m, v) == v <= version[m]
VersionMatches(m, v) == v = version[m]

Remembered(k) == IF k = NoKey THEN processed ELSE processed \cup {k}

\* The last two guards (an active contract, the criteria verified) judge
\* arguments of the call that no state here fixes; a refused call, like a
\* replayed one, changes nothing.
Transition(m, target, expected, k) ==
  /\ version[m] < MaxVersion
  /\ ~Processed(k)
  /\ VersionMatches(m, expected)
  /\ target \in ValidTransitions[status[m]]
  /\ status' = [status EXCEPT ![m] = target]
  /\ version' = [version EXCEPT ![m] = @ + 1]
  /\ processed' = Remembered(k)
  /\ applied' = applied \cup {[mission |-> m, expected |-> expected, at |-> version[m], key |-> k]}
  /\ UNCHANGED <<bound, contract, registered, wakeups, now>>

-----------------------------------------------------------------------------
(* MissionScheduler and WakeupManager.                                     *)

RegisterMission(m) ==
  /\ registered' = registered \cup {m}
  /\ UNCHANGED <<status, version, bound, contract, processed, applied, wakeups, now>>

NewWakeup(m, due, k) == [mission |-> m, due |-> due, key |-> k, status |-> "PENDING"]

\* WakeupManager.schedule_wakeup: a key that is still pending schedules nothing.
ScheduleWakeup(m, due, k) ==
  /\ Len(wakeups) < MaxWakeups
  /\ k # NoKey => \A i \in DOMAIN wakeups : ~(wakeups[i].key = k /\ wakeups[i].status = "PENDING")
  /\ wakeups' = Append(wakeups, NewWakeup(m, due, k))
  /\ UNCHANGED <<status, version, bound, contract, registered, processed, applied, now>>

\* schedule_external_wait: whatever the mission is doing, it waits.
ScheduleExternalWait(m, due) ==
  /\ version[m] < MaxVersion
  /\ Len(wakeups) < MaxWakeups
  /\ status' = [status EXCEPT ![m] = "WAITING_EXTERNAL"]
  /\ version' = [version EXCEPT ![m] = @ + 1]
  /\ wakeups' = Append(wakeups, NewWakeup(m, due, NoKey))
  /\ UNCHANGED <<bound, contract, registered, processed, applied, now>>

\* get_due_wakeups
Due(i) == wakeups[i].status = "PENDING" /\ wakeups[i].due <= now

\* A wakeup is claimed before its mission is looked up, and is fired only when
\* the scheduler knows the mission.
Taken(i) == IF wakeups[i].mission \in registered THEN "FIRED" ELSE "CLAIMED"

FiredFor(m) == m \in registered /\ \E i \in DOMAIN wakeups : Due(i) /\ wakeups[i].mission = m

\* Mutant: a wakeup resumes a mission only under its current contract.
ResumesBound(m) == FiredFor(m) /\ status[m] = "WAITING_EXTERNAL" /\ bound[m] = contract
Resumes(m) == FiredFor(m) /\ status[m] = "WAITING_EXTERNAL"

ProcessDueWakeups ==
  /\ \E i \in DOMAIN wakeups : Due(i)
  /\ wakeups' = [i \in DOMAIN wakeups |->
                   IF Due(i) THEN [wakeups[i] EXCEPT !.status = Taken(i)] ELSE wakeups[i]]
  /\ status' = [m \in Missions |-> IF Resumes(m) THEN "ACTIVE" ELSE status[m]]
  /\ version' = [m \in Missions |-> IF Resumes(m) THEN version[m] + 1 ELSE version[m]]
  /\ UNCHANGED <<bound, contract, registered, processed, applied, now>>

Cancellable(i, m) == wakeups[i].mission = m /\ wakeups[i].status = "PENDING"

CancelMissionWakeups(m) ==
  /\ \E i \in DOMAIN wakeups : Cancellable(i, m)
  /\ wakeups' = [i \in DOMAIN wakeups |->
                   IF Cancellable(i, m) THEN [wakeups[i] EXCEPT !.status = "CANCELLED"]
                   ELSE wakeups[i]]
  /\ UNCHANGED <<status, version, bound, contract, registered, processed, applied, now>>

-----------------------------------------------------------------------------
(* MissionRevalidationEngine, and the contract's own amendments.           *)

AmendContract ==
  /\ contract < MaxContract
  /\ contract' = contract + 1
  /\ UNCHANGED <<status, version, bound, registered, processed, applied, wakeups, now>>

\* check_contract_alignment: a mission that diverges is blocked, whatever its
\* status, and keeps its version.
CheckContractAlignment(m) ==
  /\ bound[m] # contract
  /\ status' = [status EXCEPT ![m] = "BLOCKED"]
  /\ UNCHANGED <<version, bound, contract, registered, processed, applied, wakeups, now>>

Upgraded(s) == IF s = "BLOCKED" THEN "ACTIVE" ELSE s

RevalidateAndUpgrade(m) ==
  /\ version[m] < MaxVersion
  /\ bound' = [bound EXCEPT ![m] = contract]
  /\ version' = [version EXCEPT ![m] = @ + 1]
  /\ status' = [status EXCEPT ![m] = Upgraded(@)]
  /\ UNCHANGED <<contract, registered, processed, applied, wakeups, now>>

Tick ==
  /\ now < MaxTime
  /\ now' = now + 1
  /\ UNCHANGED <<status, version, bound, contract, registered, processed, applied, wakeups>>

Next ==
  \/ \E m \in Missions :
       \/ \E target \in MissionStatus, expected \in 1 .. MaxVersion, k \in Keys \cup {NoKey} :
            Transition(m, target, expected, k)
       \/ RegisterMission(m)
       \/ \E due \in 0 .. MaxTime :
            \/ ScheduleExternalWait(m, due)
            \/ \E k \in Keys \cup {NoKey} : ScheduleWakeup(m, due, k)
       \/ CancelMissionWakeups(m)
       \/ CheckContractAlignment(m)
       \/ RevalidateAndUpgrade(m)
  \/ ProcessDueWakeups
  \/ AmendContract
  \/ Tick

Spec == Init /\ [][Next]_vars

\* Time passes, and whoever owns the scheduler keeps calling
\* process_due_wakeups.
FairSpec == Spec /\ WF_vars(Tick) /\ WF_vars(ProcessDueWakeups)

-----------------------------------------------------------------------------
TypeOK ==
  /\ status \in [Missions -> MissionStatus]
  /\ version \in [Missions -> Nat \ {0}]
  /\ bound \in [Missions -> 1 .. MaxContract]
  /\ contract \in 1 .. MaxContract
  /\ registered \subseteq Missions
  /\ processed \subseteq Keys
  /\ applied \subseteq [mission : Missions, expected : Nat, at : Nat, key : Keys \cup {NoKey}]
  /\ wakeups \in Seq(Wakeup)
  /\ now \in 0 .. MaxTime

\* A command is carried out at most once, however often and however late it is
\* retried, on whichever version it then names ("Idempotent command
\* processing", autonomy/mission.py:8).
CommandAppliedOnce ==
  \A a, b \in applied : a.key = b.key /\ a.key # NoKey => a = b

\* Of the commands sent by callers that saw the same version of a mission one
\* at most is carried out (optimistic versioning).
OneWinnerPerVersion ==
  \A a, b \in applied : a.mission = b.mission /\ a.expected = b.expected => a = b

\* A wakeup that was fired or cancelled stays so: firing, cancelling and
\* claiming never overtake one another (M7-INV-08).
WakeupsSettleOnce ==
  [][\A i \in DOMAIN wakeups :
       wakeups[i].status \in {"FIRED", "CANCELLED"} => wakeups'[i] = wakeups[i]]_vars

\* A wakeup resumes a mission that is waiting and touches no other: a late one
\* cannot undo a pause, a cancellation or a contract block made in between.
LateWakeupsAreHarmless ==
  [][\A i \in DOMAIN wakeups, m \in Missions :
       /\ wakeups[i].status = "PENDING" /\ wakeups'[i].status = "FIRED"
       /\ status[m] # "WAITING_EXTERNAL"
       => status'[m] = status[m] /\ version'[m] = version[m]]_vars

\* What "terminal" amounts to: a mission that ended is never active again in
\* one step; only an external wait or a contract check takes it out.
EndedIsNotActivated ==
  [][\A m \in Missions : status[m] \in Terminal => status'[m] # "ACTIVE"]_vars

\* A registered mission that waits with a wakeup pending is resumed, unless its
\* wakeups are cancelled.
SleepersAreWoken ==
  \A m \in Missions :
    (/\ m \in registered /\ status[m] = "WAITING_EXTERNAL"
     /\ \E i \in DOMAIN wakeups : wakeups[i].mission = m /\ wakeups[i].status = "PENDING")
    ~> (\/ status[m] # "WAITING_EXTERNAL"
        \/ \E i \in DOMAIN wakeups : wakeups[i].mission = m /\ wakeups[i].status = "CANCELLED")

=============================================================================
