--------------------------- MODULE ManagedServices ---------------------------
(* Long-running services of the engineering agency: the supervisor's records *)
(* in memory and in its registry file, and the manage_service tool that owns *)
(* the processes it launched. The gateway-backed calls do not suspend, so an *)
(* operation is one step of the event loop; but the gateway may refuse a     *)
(* call, the registry may not be written, a service may exit, and the kernel *)
(* may die at any point, also between a launch and its record. The processes *)
(* have sessions of their own and survive it. SIGKILL always works here, and *)
(* a service id stands for the process launched under it: every start makes  *)
(* a new one.                                                                *)
EXTENDS Naturals, FiniteSets

CONSTANTS Names, None, MaxStarts, MaxRestarts

VARIABLES
  records,   \* the supervisor's records, by name
  registry,  \* the registry file
  process,   \* the service ids launched: the processes alive, and those that are gone
  owned,     \* the service ids the tool has a handle on
  starting,  \* a service launched and not recorded yet
  restarts   \* how often the kernel was restarted

vars == <<records, registry, process, owned, starting, restarts>>

ServiceState == {"running", "stopped", "failed"}
ServiceRecord == [service_id : 1 .. MaxStarts, state : ServiceState]

TypeOK ==
  /\ {records, registry} \subseteq [Names -> ServiceRecord \cup {None}]
  /\ \E n \in 0 .. MaxStarts : process \in [1 .. n -> {"alive", "gone"}]
  /\ owned \subseteq DOMAIN process
  /\ starting \in {None} \cup [name : Names, service_id : DOMAIN process]
  /\ restarts \in 0 .. MaxRestarts

Init ==
  /\ records = [n \in Names |-> None] /\ registry = records
  /\ process = [i \in {} |-> "gone"] /\ owned = {} /\ starting = None /\ restarts = 0

-----------------------------------------------------------------------------
(* The manage_service tool.                                                  *)

Alive(id) == process[id] = "alive"

\* _status: "unknown" of a service this runtime does not own.
ToolStatus(id) == IF id \notin owned THEN "unknown" ELSE IF Alive(id) THEN "running" ELSE "stopped"

\* _stop never kills a process that this runtime does not own.
Stoppable(id) == id \in owned
Killed(id) == [process EXCEPT ![id] = "gone"]

\* _start, under an id that was never launched before.
Launch(id) ==
  /\ process' = [i \in DOMAIN process \cup {id} |-> IF i = id THEN "alive" ELSE process[i]]
  /\ owned' = owned \cup {id}

-----------------------------------------------------------------------------
(* The supervisor; the gateway may refuse any call of the backend.           *)

Running(id) == ToolStatus(id) = "running"

\* The file is replaced at once, or the write fails and it stays what it was.
Persist(rs) == records' = rs /\ registry' \in {rs, registry}

WithState(n, state) == [records EXCEPT ![n].state = state]

\* is_running: what the tool says, or no when the gateway refuses the call.
IsRunning(id) == {Running(id), FALSE}

\* start: nothing is launched while the service is said to run. A refused launch raises.
Start(n) ==
  /\ starting = None
  /\ records[n] # None => FALSE \in IsRunning(records[n].service_id)
  /\ LET id == Cardinality(DOMAIN process) + 1 IN
     /\ id <= MaxStarts /\ Launch(id)
     /\ starting' = [name |-> n, service_id |-> id]
  /\ UNCHANGED <<records, registry, restarts>>

\* The launch returns and is recorded; or the gateway raises after it, or the
\* kernel dies before.
RecordStart ==
  /\ starting # None
  /\ \/ Persist([records EXCEPT ![starting.name] = [service_id |-> starting.service_id, state |-> "running"]])
     \/ UNCHANGED <<records, registry>>
  /\ starting' = None
  /\ UNCHANGED <<process, owned, restarts>>

Stop(n) ==
  /\ starting = None /\ records[n] # None
  /\ \/ /\ Stoppable(records[n].service_id)
        /\ process' = Killed(records[n].service_id)
        /\ Persist(WithState(n, "stopped"))
     \/ Persist(WithState(n, "failed")) /\ UNCHANGED process
  /\ UNCHANGED <<owned, starting, restarts>>

\* Mutant: a service that does not run is said to be stopped.
NotRunningIsStopped(r, running) == IF running THEN "running" ELSE "stopped"

\* status: a service that does not run is stopped if it was, and has failed otherwise.
Reported(r, running) ==
  IF running THEN "running" ELSE IF r.state = "stopped" THEN "stopped" ELSE "failed"

Status(n) ==
  /\ starting = None /\ records[n] # None
  /\ \E running \in IsRunning(records[n].service_id) :
       Persist(WithState(n, Reported(records[n], running)))
  /\ UNCHANGED <<process, owned, starting, restarts>>

\* The gateway rolls a start back: the tool stops the service, and no record says so.
RollBackStart(id) ==
  /\ starting = None /\ Stoppable(id) /\ Alive(id)
  /\ process' = Killed(id)
  /\ UNCHANGED <<records, registry, owned, starting, restarts>>

ServiceExits(id) ==
  /\ Alive(id) /\ process' = Killed(id)
  /\ UNCHANGED <<records, registry, owned, starting, restarts>>

\* The kernel dies and comes back: it loads the registry and owns no process.
\* recover is the status of every record.
KernelRestarts ==
  /\ restarts < MaxRestarts /\ restarts' = restarts + 1
  /\ records' = registry /\ owned' = {} /\ starting' = None
  /\ UNCHANGED <<registry, process>>

Next ==
  \/ \E n \in Names : Start(n) \/ Stop(n) \/ Status(n)
  \/ RecordStart
  \/ \E id \in DOMAIN process : RollBackStart(id) \/ ServiceExits(id)
  \/ KernelRestarts

Spec == Init /\ [][Next]_vars

-----------------------------------------------------------------------------
\* A service that a record, in memory or on disk, calls stopped is gone: through
\* refused calls, failed writes, rollbacks and restarts that leave processes behind
\* which nothing owns (services.py, service_tool.py).
StoppedIsGone ==
  \A rs \in {records, registry}, n \in Names :
    rs[n] # None /\ rs[n].state = "stopped" => ~Alive(rs[n].service_id)

=============================================================================
