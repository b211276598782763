---------------------------- MODULE KernelStartup ----------------------------
(***************************************************************************)
(* Kernels that share one database: each boots through                     *)
(* StartupRecoveryManager (persistence/recovery/startup.py), appends       *)
(* events to its in-memory ledger and persists them, writes leases, jobs   *)
(* and tasks through a UnitOfWork, and dies or shuts down.  A lost         *)
(* database is restored from the journal (persistence/backup).             *)
(*                                                                         *)
(* The backend is PostgreSQL at READ COMMITTED by default, so a boot is    *)
(* two steps: it reads the largest epoch and inserts its own marker        *)
(* (BootBegin), and later commits the rest (BootEnd).  A shorter           *)
(* transaction is one step: committed, or rolled back without a trace.     *)
(***************************************************************************)
EXTENDS Integers, Sequences, FiniteSets, SequencesExt

CONSTANTS
  Kernels,    \* kernel instance_ids
  Rows,       \* primary keys of leases, jobs and tasks
  MaxEvents,  \* bound: events ever made
  MaxWrites   \* bound: versions and lease generations of a row

ConstantsAssumption ==
  IsFiniteSet(Kernels) /\ MaxEvents \in Nat /\ MaxWrites \in Nat \ {0}

VARIABLES
  lifecycle,  \* kernel_lifecycle: by instance_id, its committed marker
  events,     \* events ordered by sequence, as persisted
  table,      \* the table each row belongs to
  row,        \* the row, as committed
  pc,         \* what each kernel process does
  epoch,      \* its current_epoch
  ledger,     \* its EventStore._events
  made,       \* events made so far, by all kernels
  packages,   \* journal packages shipped so far
  diedBefore, \* epochs of kernels already dead when each boot began, but for a
              \* boot that failed (history)
  defaulted   \* rows whose last writer of a kernel_epoch left it at 1 (history)

db == <<lifecycle, events, row, defaulted>>
process == <<pc, epoch, ledger, diedBefore>>
vars == <<db, table, process, made, packages>>

Table == {"model_leases", "worker_jobs", "tasks"}

\* An event's id stands for its hash: prev is prev_event_hash, 0 the genesis.
EventORM == [id : 1 .. MaxEvents, prev : 0 .. MaxEvents, intact : BOOLEAN]

KernelLifecycleORM ==
  [status : {"ABSENT", "RUNNING", "CLEAN_SHUTDOWN"}, kernel_epoch : Nat]

ModelLeaseORM == [status : {"ABSENT", "ACTIVE", "REVOKED"}, kernel_epoch : Nat, version : {0}]

WorkerJobORM ==
  [status : {"ABSENT", "QUEUED", "LEASED", "COMPLETED"}, kernel_epoch : Nat,
   version : 0 .. MaxWrites]  \* lease_generation

TaskORM ==
  [status : {"ABSENT", "PLANNED", "RUNNING", "COMPLETED", "RECOVERY_REQUIRED"},
   kernel_epoch : {0}, version : 0 .. MaxWrites]

Absent == [status |-> "ABSENT", kernel_epoch |-> 0, version |-> 0]

Init ==
  /\ lifecycle = [k \in Kernels |-> [status |-> "ABSENT", kernel_epoch |-> 0]]
  /\ events = <<>>
  /\ table \in [Rows -> Table] /\ row = [r \in Rows |-> Absent]
  /\ pc = [k \in Kernels |-> "OFF"]
  /\ epoch = [k \in Kernels |-> 1]
  /\ ledger = [k \in Kernels |-> <<>>]
  /\ made = 0 /\ packages = <<>>
  /\ diedBefore = [k \in Kernels |-> {}] /\ defaulted = {}

-----------------------------------------------------------------------------
(* Booting *)

\* EventStore.verify_chain_integrity
ChainIntact(s) ==
  \A i \in DOMAIN s : s[i].intact /\ s[i].prev = IF i = 1 THEN 0 ELSE s[i - 1].id

LastHash(s) == IF s = <<>> THEN 0 ELSE Last(s).id

\* The markers visible to k: the committed ones.  Nothing makes kernel_epoch unique.
NextEpoch == 1 + Max({lifecycle[k].kernel_epoch : k \in Kernels} \cup {0})

\* The epochs whose kernels are all dead (history).
DeadEpochs ==
  {epoch[k] : k \in {x \in Kernels : pc[x] = "DEAD"}}
    \ {epoch[k] : k \in {x \in Kernels : pc[x] \notin {"OFF", "DEAD"}}}

\* acquire_or_advance_epoch: the instance_id is the primary key, so a second
\* boot under one name is refused by the INSERT.
BootBegin(k) ==
  /\ pc[k] \in {"OFF", "DEAD"}
  /\ lifecycle[k].status = "ABSENT"
  /\ epoch' = [epoch EXCEPT ![k] = NextEpoch]
  /\ pc' = [pc EXCEPT ![k] = "RECOVERING"]
  /\ diedBefore' = [diedBefore EXCEPT ![k] = DeadEpochs \ {NextEpoch}]
  /\ UNCHANGED <<db, table, ledger, made, packages>>

\* Mutant: a row of the epoch just before survives.
OlderByTwo(x, e) == x.kernel_epoch < e - 1

Stale(x, e) == x.kernel_epoch < e

\* What boot recovery leaves of a row.
Fenced(t, x, e) ==
  CASE t = "model_leases" /\ x.status = "ACTIVE" /\ Stale(x, e) ->
         [x EXCEPT !.status = "REVOKED"]
    [] t = "worker_jobs" /\ x.status = "LEASED" /\ Stale(x, e) ->
         [x EXCEPT !.status = "QUEUED"]
    [] t = "tasks" /\ x.status = "RUNNING" -> [x EXCEPT !.status = "RECOVERY_REQUIRED"]
    [] OTHER -> x

\* Mutant: the rehydrated chain is not verified.
Unverified(s) == TRUE

Verified(s) == ChainIntact(s)

\* A damaged chain ends the boot before anything is fenced, but its epoch is committed
\* all the same.
BootEnd(k) ==
  /\ pc[k] = "RECOVERING"
  /\ lifecycle' = [lifecycle EXCEPT ![k] = [status |-> "RUNNING", kernel_epoch |-> epoch[k]]]
  /\ ledger' = [ledger EXCEPT ![k] = events]
  /\ IF Verified(events)
     THEN /\ pc' = [pc EXCEPT ![k] = "READY"]
          /\ row' = [r \in Rows |-> Fenced(table[r], row[r], epoch[k])]
          /\ UNCHANGED diedBefore
     ELSE /\ pc' = [pc EXCEPT ![k] = "INTEGRITY_FAILURE"]
          /\ diedBefore' = [diedBefore EXCEPT ![k] = {}]
          /\ UNCHANGED row
  /\ UNCHANGED <<events, table, epoch, made, packages, defaulted>>

\* The process dies at any point: an open transaction is rolled back, memory is lost.
Die(k) ==
  /\ pc[k] \in {"RECOVERING", "READY", "INTEGRITY_FAILURE"}
  /\ pc' = [pc EXCEPT ![k] = "DEAD"]
  /\ ledger' = [ledger EXCEPT ![k] = <<>>]
  /\ UNCHANGED <<db, table, epoch, made, packages, diedBefore>>

RecordCleanShutdown(k) ==
  /\ pc[k] = "READY"
  /\ lifecycle' = [lifecycle EXCEPT ![k].status =
       IF @ = "RUNNING" THEN "CLEAN_SHUTDOWN" ELSE @]
  /\ pc' = [pc EXCEPT ![k] = "DEAD"]
  /\ ledger' = [ledger EXCEPT ![k] = <<>>]
  /\ UNCHANGED <<events, row, table, epoch, made, packages, diedBefore, defaulted>>

-----------------------------------------------------------------------------
(* Events *)

NewEvent(k) == [id |-> made + 1, prev |-> LastHash(ledger[k]), intact |-> TRUE]

\* An event joins the in-memory ledger before the UnitOfWork commits, and stays
\* there when the UnitOfWork is rolled back.
Record(k, committed) ==
  /\ ledger' = [ledger EXCEPT ![k] = Append(@, NewEvent(k))]
  /\ events' = IF committed THEN Append(events, NewEvent(k)) ELSE events

RecordEvent(k) ==
  /\ pc[k] = "READY" /\ made < MaxEvents
  /\ made' = made + 1
  /\ \E committed \in BOOLEAN : Record(k, committed)
  /\ UNCHANGED <<lifecycle, row, table, pc, epoch, packages, diedBefore, defaulted>>

\* A persisted row changes under the ledger's feet.
RowDamaged ==
  /\ \E i \in DOMAIN events : events' = [events EXCEPT ![i].intact = FALSE]
  /\ UNCHANGED <<lifecycle, row, table, process, made, packages, defaulted>>

\* package_events: here of one event, the next one of k's ledger.
PackageEvents(k) ==
  LET shipped == [i \in DOMAIN packages |-> packages[i].event] IN
  /\ Len(shipped) < Len(ledger[k]) /\ IsPrefix(shipped, ledger[k])
  /\ packages' = Append(packages,
       [start |-> Len(shipped) + 1, event |-> ledger[k][Len(shipped) + 1],
        previous |-> LastHash(shipped)])
  /\ UNCHANGED <<db, table, process, made>>

\* verify_journal_chain: where the first package starts is not looked at.
JournalContinuous(s) ==
  \A i \in 2 .. Len(s) :
    /\ s[i].start = s[i - 1].start + 1
    /\ s[i].previous = s[i - 1].event.id

\* The host is gone, and with it every process and every row.
DatabaseLost ==
  /\ \A k \in Kernels : pc[k] \in {"OFF", "DEAD"}
  /\ events # <<>>
  /\ lifecycle' = [k \in Kernels |-> [status |-> "ABSENT", kernel_epoch |-> 0]]
  /\ events' = <<>> /\ row' = [r \in Rows |-> Absent]
  /\ pc' = [k \in Kernels |-> "OFF"] /\ epoch' = [k \in Kernels |-> 1]
  /\ diedBefore' = [k \in Kernels |-> {}] /\ defaulted' = {}
  /\ UNCHANGED <<ledger, table, made, packages>>

Present(e, log) == \E i \in DOMAIN log : log[i].id = e.id

\* The log once the events of tail that it has not are appended, one after the other.
Replayed(log, tail) ==
  LET after[n \in 0 .. Len(tail)] ==
        IF n = 0 THEN log
        ELSE IF Present(tail[n].event, after[n - 1]) THEN after[n - 1]
        ELSE Append(after[n - 1], tail[n].event)
  IN after[Len(tail)]

\* The marker and the missing events are committed together; the chain they
\* make is verified afterwards, and a failure leaves them in place.
Restore(k) ==
  /\ packages # <<>> /\ lifecycle[k].status = "ABSENT" /\ pc[k] = "OFF"
  /\ \E i, j \in DOMAIN packages :
       /\ i <= j /\ JournalContinuous(SubSeq(packages, i, j))
       /\ events' = Replayed(events, SubSeq(packages, i, j))
  /\ lifecycle' = [lifecycle EXCEPT ![k] = [status |-> "RUNNING", kernel_epoch |-> NextEpoch]]
  /\ UNCHANGED <<row, table, process, made, packages, defaulted>>

-----------------------------------------------------------------------------
(* Leases, jobs and tasks, written by any kernel that is up *)

Write(k, r, x) ==
  /\ pc[k] = "READY" /\ row' = [row EXCEPT ![r] = x]
  /\ UNCHANGED <<lifecycle, events, table, process, made, packages>>

\* The parameter kernel_epoch of the repositories is 1 when a caller leaves it out.
WriteHeld(k, r, x) ==
  \E named \in BOOLEAN :
    /\ Write(k, r, [x EXCEPT !.kernel_epoch = IF named THEN epoch[k] ELSE 1])
    /\ defaulted' = IF named THEN defaulted \ {r} ELSE defaulted \cup {r}

WriteOther(k, r, x) == Write(k, r, x) /\ UNCHANGED defaulted

SaveLease(k, r) ==
  /\ table[r] = "model_leases" /\ row[r].status = "ABSENT"
  /\ WriteHeld(k, r, [row[r] EXCEPT !.status = "ACTIVE"])

RevokeLease(k, r) ==
  /\ table[r] = "model_leases" /\ row[r].status = "ACTIVE"
  /\ WriteOther(k, r, [row[r] EXCEPT !.status = "REVOKED"])

SaveJob(k, r) ==
  /\ table[r] = "worker_jobs" /\ row[r].status = "ABSENT"
  /\ WriteHeld(k, r, [row[r] EXCEPT !.status = "QUEUED"])

\* The generation must be new; neither the status nor the epoch is looked at.
UpdateJobLease(k, r) ==
  /\ table[r] = "worker_jobs" /\ row[r].status # "ABSENT"
  /\ \E g \in 1 .. MaxWrites :
       /\ row[r].version < g
       /\ WriteHeld(k, r, [row[r] EXCEPT !.status = "LEASED", !.version = g])

CompleteJob(k, r) ==
  /\ table[r] = "worker_jobs" /\ row[r].status # "ABSENT"
  /\ WriteOther(k, r, [row[r] EXCEPT !.status = "COMPLETED"])

SaveTask(k, r) ==
  /\ table[r] = "tasks" /\ row[r].status = "ABSENT"
  /\ \E s \in {"PLANNED", "RUNNING"} : WriteOther(k, r, [row[r] EXCEPT !.status = s, !.version = 1])

UpdateTaskStatusWithVersion(k, r, expected_version) ==
  /\ table[r] = "tasks" /\ row[r].status # "ABSENT"
  /\ row[r].version = expected_version /\ expected_version < MaxWrites
  /\ \E s \in {"RUNNING", "COMPLETED"} :
       WriteOther(k, r, [row[r] EXCEPT !.status = s, !.version = expected_version + 1])

Next ==
  \/ \E k \in Kernels :
       \/ BootBegin(k) \/ BootEnd(k) \/ Die(k) \/ RecordCleanShutdown(k)
       \/ RecordEvent(k) \/ PackageEvents(k) \/ Restore(k)
       \/ \E r \in Rows :
            \/ SaveLease(k, r) \/ RevokeLease(k, r) \/ SaveJob(k, r)
            \/ UpdateJobLease(k, r) \/ CompleteJob(k, r) \/ SaveTask(k, r)
            \/ \E v \in 1 .. MaxWrites : UpdateTaskStatusWithVersion(k, r, v)
  \/ RowDamaged
  \/ DatabaseLost

Spec == Init /\ [][Next]_vars

-----------------------------------------------------------------------------

RowType(t) ==
  CASE t = "model_leases" -> ModelLeaseORM [] t = "worker_jobs" -> WorkerJobORM
    [] OTHER -> TaskORM

\* Markers, events, rows and processes have their types.
TypeOK ==
  /\ lifecycle \in [Kernels -> KernelLifecycleORM]
  /\ events \in Seq(EventORM) /\ made \in 0 .. MaxEvents
  /\ table \in [Rows -> Table] /\ \A r \in Rows : row[r] \in RowType(table[r])
  /\ pc \in [Kernels -> {"OFF", "RECOVERING", "READY", "INTEGRITY_FAILURE", "DEAD"}]
  /\ epoch \in [Kernels -> Nat \ {0}]
  /\ ledger \in [Kernels -> Seq(EventORM)]
  /\ packages \in Seq([start : Nat, event : EventORM, previous : Nat])
  /\ diedBefore \in [Kernels -> SUBSET Nat] /\ defaulted \subseteq Rows

Held(r) == row[r].status \in {"ACTIVE", "LEASED"}

\* While a kernel is READY, no lease or job is held in the name of an epoch
\* whose kernels were all dead when it began to boot (startup.py:108-112),
\* whatever other kernels boot, write or die meanwhile.  A row whose writer left
\* the epoch out names 1, whoever wrote it (executive.py:26, workers.py:64).
DeadEpochsHoldNothing ==
  \A k \in Kernels, r \in Rows \ defaulted :
    pc[k] = "READY" /\ Held(r) => row[r].kernel_epoch \notin diedBefore[k]

\* The ledger of a READY kernel is an unbroken chain without repetitions,
\* although what is persisted may be forked by an older kernel, damaged, cut by
\* a rolled-back transaction or restored from a part of the journal
\* (startup.py:60-93).
ReadyLedgerIsChained ==
  \A k \in Kernels :
    pc[k] = "READY" =>
      /\ ChainIntact(ledger[k])
      /\ \A i, j \in DOMAIN ledger[k] : ledger[k][i].id = ledger[k][j].id => i = j

=============================================================================
