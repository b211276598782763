------------------------ MODULE MissionControlProofs ------------------------
(***************************************************************************)
(* Theorems about MissionControl for any number of missions, keys, wakeups *)
(* and versions.                                                           *)
(*                                                                         *)
(* The argument: a command is recorded under the version it was carried    *)
(* out at, every later version is larger (PastVersions), and its key stays *)
(* among the processed ones (KeysRemembered); so neither its key nor the   *)
(* version it named can be used again.                                     *)
(***************************************************************************)
EXTENDS MissionControl, SequenceTheorems, TLAPS

KeysRemembered == \A a \in applied : a.key # NoKey => a.key \in processed

PastVersions ==
  \A a \in applied : a.expected = a.at /\ a.expected < version[a.mission]

Safe ==
  /\ TypeOK
  /\ KeysRemembered
  /\ PastVersions
  /\ CommandAppliedOnce
  /\ OneWinnerPerVersion

-----------------------------------------------------------------------------
(* Types.                                                                  *)

LEMMA InitSafe == Init => Safe
<1> SUFFICES ASSUME Init PROVE Safe
  OBVIOUS
<1>1. {"DRAFT", "READY"} \subseteq MissionStatus
  BY DEF MissionStatus, ValidTransitions
<1>2. status \in [Missions -> MissionStatus]
  BY <1>1 DEF Init
<1>3. 1 \in 1 .. MaxContract
  BY BoundsAssumption
<1>4. now \in 0 .. MaxTime
  BY BoundsAssumption DEF Init
<1>5. wakeups \in Seq(Wakeup)
  BY EmptySeq DEF Init
<1>6. TypeOK
  BY <1>2, <1>3, <1>4, <1>5 DEF Init, TypeOK
<1> QED
  BY <1>6 DEF Init, Safe, KeysRemembered, PastVersions, CommandAppliedOnce, OneWinnerPerVersion

\* Replacing the statuses of wakeups leaves a sequence of wakeups.
LEMMA RestatusedWakeups ==
  ASSUME NEW w \in Seq(Wakeup), NEW f,
         f = [i \in DOMAIN w |-> f[i]],
         \A i \in DOMAIN w : f[i] = w[i] \/ \E s \in WakeupStatus : f[i] = [w[i] EXCEPT !.status = s]
  PROVE  f \in Seq(Wakeup)
<1>1. DOMAIN w = 1 .. Len(w) /\ Len(w) \in Nat /\ \A i \in DOMAIN w : w[i] \in Wakeup
  BY LenProperties, ElementOfSeq
<1>2. ASSUME NEW x \in Wakeup, NEW s \in WakeupStatus
      PROVE  [x EXCEPT !.status = s] \in Wakeup
  BY DEF Wakeup
<1>3. \A i \in DOMAIN w : f[i] \in Wakeup
  BY <1>1, <1>2
<1> QED
  BY <1>1, <1>3

LEMMA TypeStep ==
  ASSUME TypeOK, [Next]_vars
  PROVE  TypeOK'
<1>0. {"WAITING_EXTERNAL", "ACTIVE", "BLOCKED"} \subseteq MissionStatus
  BY DEF MissionStatus, ValidTransitions
<1>1. ASSUME NEW m \in Missions, NEW target \in MissionStatus, NEW expected \in 1 .. MaxVersion,
             NEW k \in Keys \cup {NoKey}, Transition(m, target, expected, k)
      PROVE  TypeOK'
  <2>1. /\ status' \in [Missions -> MissionStatus] /\ version' \in [Missions -> Nat \ {0}]
        /\ processed' \subseteq Keys
    BY <1>1 DEF TypeOK, Transition, Remembered
  <2>2. [mission |-> m, expected |-> expected, at |-> version[m], key |-> k]
          \in [mission : Missions, expected : Nat, at : Nat, key : Keys \cup {NoKey}]
    BY DEF TypeOK
  <2> QED
    BY <1>1, <2>1, <2>2 DEF TypeOK, Transition
<1>2. ASSUME NEW m \in Missions, RegisterMission(m) PROVE TypeOK'
  BY <1>2 DEF TypeOK, RegisterMission
<1>3. ASSUME NEW m \in Missions, NEW due \in Nat, NEW k \in Keys \cup {NoKey}
      PROVE  Append(wakeups, NewWakeup(m, due, k)) \in Seq(Wakeup)
  <2>1. NewWakeup(m, due, k) \in Wakeup
    BY DEF NewWakeup, Wakeup, WakeupStatus
  <2> QED
    BY <2>1, AppendProperties DEF TypeOK
<1>4. ASSUME NEW m \in Missions, NEW due \in 0 .. MaxTime, ScheduleExternalWait(m, due)
      PROVE  TypeOK'
  <2>1. wakeups' \in Seq(Wakeup)
    BY <1>3, <1>4 DEF ScheduleExternalWait
  <2> QED
    BY <1>0, <1>4, <2>1 DEF TypeOK, ScheduleExternalWait
<1>5. ASSUME NEW m \in Missions, NEW due \in 0 .. MaxTime, NEW k \in Keys \cup {NoKey},
             ScheduleWakeup(m, due, k)
      PROVE  TypeOK'
  <2>1. wakeups' \in Seq(Wakeup)
    BY <1>3, <1>5 DEF ScheduleWakeup
  <2> QED
    BY <1>5, <2>1 DEF TypeOK, ScheduleWakeup
<1>6. ASSUME NEW m \in Missions, CancelMissionWakeups(m) PROVE TypeOK'
  <2>1. wakeups' \in Seq(Wakeup)
    BY <1>6, RestatusedWakeups DEF TypeOK, CancelMissionWakeups, WakeupStatus
  <2> QED
    BY <1>6, <2>1 DEF TypeOK, CancelMissionWakeups
<1>7. CASE ProcessDueWakeups
  <2>1. wakeups' \in Seq(Wakeup)
    BY <1>7, RestatusedWakeups DEF TypeOK, ProcessDueWakeups, WakeupStatus, Taken
  <2>2. status' \in [Missions -> MissionStatus] /\ version' \in [Missions -> Nat \ {0}]
    BY <1>0, <1>7 DEF TypeOK, ProcessDueWakeups
  <2> QED
    BY <1>7, <2>1, <2>2 DEF TypeOK, ProcessDueWakeups
<1>8. ASSUME NEW m \in Missions, CheckContractAlignment(m) PROVE TypeOK'
  BY <1>0, <1>8 DEF TypeOK, CheckContractAlignment
<1>9. ASSUME NEW m \in Missions, RevalidateAndUpgrade(m) PROVE TypeOK'
  BY <1>0, <1>9 DEF TypeOK, RevalidateAndUpgrade, Upgraded
<1>10. CASE AmendContract
  BY <1>10, BoundsAssumption DEF TypeOK, AmendContract
<1>11. CASE Tick
  BY <1>11, BoundsAssumption DEF TypeOK, Tick
<1>12. CASE UNCHANGED vars
  BY <1>12 DEF TypeOK, vars
<1> QED
  BY <1>1, <1>2, <1>4, <1>5, <1>6, <1>7, <1>8, <1>9, <1>10, <1>11, <1>12 DEF Next

-----------------------------------------------------------------------------
(* Commands.                                                               *)

LEMMA CommandStep ==
  ASSUME Safe, NEW m \in Missions, NEW target \in MissionStatus, NEW expected \in 1 .. MaxVersion,
         NEW k \in Keys \cup {NoKey}, Transition(m, target, expected, k)
  PROVE  KeysRemembered' /\ PastVersions' /\ CommandAppliedOnce' /\ OneWinnerPerVersion'
<1> DEFINE new == [mission |-> m, expected |-> expected, at |-> version[m], key |-> k]
<1>1. /\ applied' = applied \cup {new}
      /\ processed' = IF k = NoKey THEN processed ELSE processed \cup {k}
      /\ expected = version[m]
      /\ k # NoKey => k \notin processed
  BY DEF Transition, VersionMatches, Processed, Remembered
<1>2. new.mission = m /\ new.expected = version[m] /\ new.at = version[m] /\ new.key = k
  BY <1>1
<1>3. \A n \in Missions : version[n] \in Nat /\ version'[n] \in Nat /\ version[n] <= version'[n]
  BY DEF Safe, TypeOK, Transition
<1>4. version'[m] = version[m] + 1
  BY DEF Safe, TypeOK, Transition
<1>5. \A a \in applied : a.mission \in Missions /\ a.expected \in Nat
  BY DEF Safe, TypeOK
<1> HIDE DEF new
<1>6. KeysRemembered'
  BY <1>1, <1>2 DEF Safe, KeysRemembered
<1>7. PastVersions'
  BY <1>1, <1>2, <1>3, <1>4, <1>5 DEF Safe, PastVersions
<1>8. CommandAppliedOnce'
  BY <1>1, <1>2 DEF Safe, KeysRemembered, CommandAppliedOnce
<1>9. OneWinnerPerVersion'
  BY <1>1, <1>2, <1>3, <1>5 DEF Safe, PastVersions, OneWinnerPerVersion
<1> QED
  BY <1>6, <1>7, <1>8, <1>9

LEMMA OtherStep ==
  ASSUME Safe, applied' = applied, processed' = processed,
         \A m \in Missions : version'[m] \in Nat /\ version[m] <= version'[m]
  PROVE  KeysRemembered' /\ PastVersions' /\ CommandAppliedOnce' /\ OneWinnerPerVersion'
<1>1. \A a \in applied : a.mission \in Missions /\ a.expected \in Nat
  BY DEF Safe, TypeOK
<1>2. \A m \in Missions : version[m] \in Nat
  BY DEF Safe, TypeOK
<1> QED
  BY <1>1, <1>2 DEF Safe, KeysRemembered, PastVersions, CommandAppliedOnce, OneWinnerPerVersion

LEMMA SafeStep ==
  ASSUME Safe, [Next]_vars
  PROVE  Safe'
<1> DEFINE Goal == KeysRemembered' /\ PastVersions' /\ CommandAppliedOnce' /\ OneWinnerPerVersion'
<1>1. TypeOK'
  BY TypeStep DEF Safe
<1>2. ASSUME NEW m \in Missions, NEW target \in MissionStatus, NEW expected \in 1 .. MaxVersion,
             NEW k \in Keys \cup {NoKey}, Transition(m, target, expected, k)
      PROVE  Goal
  BY <1>2, CommandStep
<1>3. ASSUME NEW m \in Missions,
             \/ RegisterMission(m) \/ CancelMissionWakeups(m) \/ CheckContractAlignment(m)
             \/ RevalidateAndUpgrade(m)
             \/ \E due \in 0 .. MaxTime :
                  \/ ScheduleExternalWait(m, due)
                  \/ \E k \in Keys \cup {NoKey} : ScheduleWakeup(m, due, k)
      PROVE  Goal
  <2>1. applied' = applied /\ processed' = processed
    BY <1>3 DEF RegisterMission, CancelMissionWakeups, CheckContractAlignment,
      RevalidateAndUpgrade, ScheduleExternalWait, ScheduleWakeup
  <2>2. version' = version \/ version' = [version EXCEPT ![m] = @ + 1]
    BY <1>3 DEF RegisterMission, CancelMissionWakeups, CheckContractAlignment,
      RevalidateAndUpgrade, ScheduleExternalWait, ScheduleWakeup
  <2>3. \A n \in Missions : version'[n] \in Nat /\ version[n] <= version'[n]
    BY <2>2 DEF Safe, TypeOK
  <2> QED
    BY <2>1, <2>3, OtherStep
<1>4. ASSUME ProcessDueWakeups PROVE Goal
  <2>1. \A n \in Missions : version'[n] \in Nat /\ version[n] <= version'[n]
    BY <1>4 DEF Safe, TypeOK, ProcessDueWakeups
  <2> QED
    BY <1>4, <2>1, OtherStep DEF ProcessDueWakeups
<1>5. ASSUME AmendContract \/ Tick \/ UNCHANGED vars PROVE Goal
  <2>1. applied' = applied /\ processed' = processed /\ version' = version
    BY <1>5 DEF AmendContract, Tick, vars
  <2>2. \A n \in Missions : version'[n] \in Nat /\ version[n] <= version'[n]
    BY <2>1 DEF Safe, TypeOK
  <2> QED
    BY <2>1, <2>2, OtherStep
<1>6. Goal
  BY <1>2, <1>3, <1>4, <1>5 DEF Next
<1> QED
  BY <1>1, <1>6 DEF Safe

LEMMA AlwaysSafe == Spec => []Safe
  BY InitSafe, SafeStep, PTL DEF Spec

-----------------------------------------------------------------------------
(* The theorems.                                                           *)

\* Every mission, wakeup and command record stays well-formed: what the
\* handlers of mission.py, scheduler.py and wakeups.py assign has its type.
THEOREM TypeCorrect == Spec => []TypeOK
<1>1. Safe => TypeOK
  BY DEF Safe
<1> QED
  BY <1>1, AlwaysSafe, PTL

\* MissionController carries a keyed command out at most once.
THEOREM CommandsAreIdempotent == Spec => []CommandAppliedOnce
<1>1. Safe => CommandAppliedOnce
  BY DEF Safe
<1> QED
  BY <1>1, AlwaysSafe, PTL

\* Of several commands that name one version of a mission at most one succeeds.
THEOREM VersionsSerialiseCommands == Spec => []OneWinnerPerVersion
<1>1. Safe => OneWinnerPerVersion
  BY DEF Safe
<1> QED
  BY <1>1, AlwaysSafe, PTL

\* A wakeup that was fired or cancelled is never touched again.
THEOREM WakeupsAreSettledOnce == Spec => WakeupsSettleOnce
<1>1. ASSUME TypeOK, [Next]_vars
      PROVE  [\A i \in DOMAIN wakeups :
                wakeups[i].status \in {"FIRED", "CANCELLED"} => wakeups'[i] = wakeups[i]]_vars
  <2>1. CASE wakeups' = wakeups
    BY <2>1
  <2>2. ASSUME NEW w \in Wakeup, wakeups' = Append(wakeups, w)
        PROVE  \A i \in DOMAIN wakeups : wakeups'[i] = wakeups[i]
    BY <1>1, <2>2, AppendProperties, LenProperties DEF TypeOK
  <2>3. ASSUME NEW m \in Missions, NEW due \in 0 .. MaxTime, NEW k \in Keys \cup {NoKey},
               ScheduleExternalWait(m, due) \/ ScheduleWakeup(m, due, k)
        PROVE  \A i \in DOMAIN wakeups : wakeups'[i] = wakeups[i]
    <3>1. NewWakeup(m, due, k) \in Wakeup /\ NewWakeup(m, due, NoKey) \in Wakeup
      BY DEF NewWakeup, Wakeup, WakeupStatus
    <3> QED
      BY <2>2, <2>3, <3>1 DEF ScheduleExternalWait, ScheduleWakeup
  <2>4. ASSUME NEW m \in Missions, CancelMissionWakeups(m)
        PROVE  \A i \in DOMAIN wakeups :
                 wakeups[i].status \in {"FIRED", "CANCELLED"} => wakeups'[i] = wakeups[i]
    BY <2>4 DEF CancelMissionWakeups, Cancellable
  <2>5. ASSUME ProcessDueWakeups
        PROVE  \A i \in DOMAIN wakeups :
                 wakeups[i].status \in {"FIRED", "CANCELLED"} => wakeups'[i] = wakeups[i]
    BY <2>5 DEF ProcessDueWakeups, Due
  <2>6. \/ wakeups' = wakeups
        \/ ProcessDueWakeups
        \/ \E m \in Missions :
             \/ CancelMissionWakeups(m)
             \/ \E due \in 0 .. MaxTime, k \in Keys \cup {NoKey} :
                  ScheduleExternalWait(m, due) \/ ScheduleWakeup(m, due, k)
    BY <1>1 DEF Next, vars, Transition, RegisterMission, CheckContractAlignment,
      RevalidateAndUpgrade, AmendContract, Tick
  <2> QED
    BY <2>1, <2>3, <2>4, <2>5, <2>6
<1>2. Safe => TypeOK
  BY DEF Safe
<1> QED
  BY <1>1, <1>2, AlwaysSafe, PTL DEF Spec, WakeupsSettleOnce

\* A due wakeup leaves a mission that is not waiting as it is.
THEOREM LateWakeupsDoNothing == Spec => LateWakeupsAreHarmless
<1>1. ASSUME TypeOK, [Next]_vars
      PROVE  [\A i \in DOMAIN wakeups, m \in Missions :
                /\ wakeups[i].status = "PENDING" /\ wakeups'[i].status = "FIRED"
                /\ status[m] # "WAITING_EXTERNAL"
                => status'[m] = status[m] /\ version'[m] = version[m]]_vars
  <2>1. ASSUME NEW i \in DOMAIN wakeups, wakeups[i].status = "PENDING", wakeups'[i].status = "FIRED"
        PROVE  ProcessDueWakeups
    <3>1. wakeups' # wakeups
      BY <2>1
    <3>2. ASSUME NEW w \in Wakeup, wakeups' = Append(wakeups, w) PROVE FALSE
      BY <1>1, <2>1, <3>2, AppendProperties, LenProperties DEF TypeOK
    <3>3. ASSUME NEW m \in Missions, NEW due \in 0 .. MaxTime, NEW k \in Keys \cup {NoKey},
                 ScheduleExternalWait(m, due) \/ ScheduleWakeup(m, due, k)
          PROVE  FALSE
      <4>1. NewWakeup(m, due, k) \in Wakeup /\ NewWakeup(m, due, NoKey) \in Wakeup
        BY DEF NewWakeup, Wakeup, WakeupStatus
      <4> QED
        BY <3>2, <3>3, <4>1 DEF ScheduleExternalWait, ScheduleWakeup
    <3>4. ASSUME NEW m \in Missions, CancelMissionWakeups(m) PROVE FALSE
      <4>1. wakeups[i] \in Wakeup
        BY <1>1, LenProperties, ElementOfSeq DEF TypeOK
      <4>2. wakeups'[i] = wakeups[i] \/ wakeups'[i].status = "CANCELLED"
        BY <3>4, <4>1 DEF CancelMissionWakeups, Wakeup
      <4> QED
        BY <2>1, <4>2
    <3> QED
      BY <1>1, <3>1, <3>3, <3>4 DEF Next, vars, Transition, RegisterMission,
        CheckContractAlignment, RevalidateAndUpgrade, AmendContract, Tick
  <2>2. ASSUME NEW m \in Missions, ProcessDueWakeups, status[m] # "WAITING_EXTERNAL"
        PROVE  status'[m] = status[m] /\ version'[m] = version[m]
    BY <2>2 DEF ProcessDueWakeups, Resumes
  <2> QED
    BY <2>1, <2>2
<1>2. Safe => TypeOK
  BY DEF Safe
<1> QED
  BY <1>1, <1>2, AlwaysSafe, PTL DEF Spec, LateWakeupsAreHarmless

\* A mission that ended never goes straight back to work.
THEOREM TerminalMissionsStayDown == Spec => EndedIsNotActivated
<1>1. ASSUME TypeOK, [Next]_vars
      PROVE  [\A m \in Missions : status[m] \in Terminal => status'[m] # "ACTIVE"]_vars
  <2> SUFFICES ASSUME NEW m \in Missions, status[m] \in Terminal
               PROVE  status'[m] # "ACTIVE"
    OBVIOUS
  <2>0. status[m] \notin {"ACTIVE", "WAITING_EXTERNAL", "BLOCKED"}
    BY DEF Terminal
  <2>1. ASSUME NEW n \in Missions, NEW target \in MissionStatus, NEW expected \in 1 .. MaxVersion,
               NEW k \in Keys \cup {NoKey}, Transition(n, target, expected, k)
        PROVE  status'[m] # "ACTIVE"
    <3>1. CASE n = m
      <4>1. ValidTransitions[status[m]] = {}
        BY DEF Terminal, ValidTransitions
      <4> QED
        BY <2>1, <3>1, <4>1 DEF Transition
    <3>2. CASE n # m
      BY <1>1, <2>0, <2>1, <3>2 DEF TypeOK, Transition
    <3> QED
      BY <3>1, <3>2
  <2>2. ASSUME ProcessDueWakeups PROVE status'[m] # "ACTIVE"
    BY <2>0, <2>2 DEF ProcessDueWakeups, Resumes
  <2>3. ASSUME NEW n \in Missions, NEW due \in 0 .. MaxTime, ScheduleExternalWait(n, due)
        PROVE  status'[m] # "ACTIVE"
    BY <1>1, <2>0, <2>3 DEF TypeOK, ScheduleExternalWait
  <2>4. ASSUME NEW n \in Missions, CheckContractAlignment(n) PROVE status'[m] # "ACTIVE"
    BY <1>1, <2>0, <2>4 DEF TypeOK, CheckContractAlignment
  <2>5. ASSUME NEW n \in Missions, RevalidateAndUpgrade(n) PROVE status'[m] # "ACTIVE"
    BY <1>1, <2>0, <2>5 DEF TypeOK, RevalidateAndUpgrade, Upgraded
  <2>6. CASE UNCHANGED status
    BY <2>0, <2>6
  <2> QED
    BY <1>1, <2>1, <2>2, <2>3, <2>4, <2>5, <2>6 DEF Next, vars, RegisterMission, ScheduleWakeup,
      CancelMissionWakeups, AmendContract, Tick
<1>2. Safe => TypeOK
  BY DEF Safe
<1> QED
  BY <1>1, <1>2, AlwaysSafe, PTL DEF Spec, EndedIsNotActivated
=============================================================================
