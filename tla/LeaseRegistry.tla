--------------------------- MODULE LeaseRegistry ---------------------------
(***************************************************************************)
(* The durable lease registry of the engineering agency                    *)
(* (engineering/distributed_leases.py): one JSON file, replaced atomically,*)
(* and one lock file, shared by worker processes that run concurrently.    *)
(*                                                                         *)
(* A call is not atomic.  It creates the lock file, loads and decides,     *)
(* writes the new file, and unlinks the lock file, and the processes       *)
(* interleave between these steps.  A process may die between any two of   *)
(* them and leave its lock file behind; a lock file older than the         *)
(* threshold is unlinked by whoever finds it, in two steps (look at its    *)
(* age, unlink the path), and a call that ends unlinks the path too,       *)
(* whosever file is there by then.                                         *)
(***************************************************************************)
EXTENDS Naturals, FiniteSets

CONSTANTS
  Procs,        \* worker processes; each is its own worker_id
  Tasks,        \* task ids
  Nobody,       \* no process
  TTL,          \* the length of a lease, in ticks
  MaxTime,      \* bound: ticks of the clock
  MaxGen,       \* bound: generations granted on a task
  MaxCrashes,   \* bound: processes that die
  StaleLocks    \* whose lock file may grow past the stale age

ASSUME BoundsAssumption ==
  /\ TTL \in Nat \ {0}
  /\ MaxTime \in Nat /\ MaxGen \in Nat /\ MaxCrashes \in Nat
  /\ StaleLocks \in {"never", "of the dead", "any"}
  /\ Nobody \notin Procs

VARIABLES
  now,      \* the clock
  file,     \* the registry file: [leases, generations], by task
  lock,     \* the lock file: who created it and whether it has become stale
  pc,       \* where each process is in its call
  call,     \* the call it is making
  draft,    \* the state it loaded and changed, to be written
  reply,    \* the lease the call will return
  held,     \* by process and task: the lease it believes it holds
  granted,  \* every lease an acquire returned
  fence     \* by task: the largest generation a fence check has passed

vars == <<now, file, lock, pc, call, draft, reply, held, granted, fence>>

NoLease == [worker |-> Nobody, gen |-> 0, expires |-> 0]

\* workspace_id is fixed by the worker here.
Lease == [worker : Procs \cup {Nobody}, gen : Nat, expires : Nat]

State == [leases : [Tasks -> Lease], generations : [Tasks -> Nat]]

LockFile == [owner : Procs \cup {Nobody}, stale : BOOLEAN]

NoLock == [owner |-> Nobody, stale |-> FALSE]

Ops == {"acquire", "heartbeat", "release", "validate", "get", "list"}

NoCall == [op |-> "none"]

Call == [op : Ops, task : Tasks, gen : Nat]

Steps == {"idle", "locking", "breaking", "decide", "persist", "unlock", "dead"}

Granted == [task : Tasks, worker : Procs, gen : Nat]

EmptyState == [leases |-> [t \in Tasks |-> NoLease],
               generations |-> [t \in Tasks |-> 0]]

Init ==
  /\ now = 0
  /\ file = EmptyState
  /\ lock = NoLock
  /\ pc = [p \in Procs |-> "idle"]
  /\ call = [p \in Procs |-> NoCall]
  /\ draft = [p \in Procs |-> EmptyState]
  /\ reply = [p \in Procs |-> NoLease]
  /\ held = [p \in Procs |-> [t \in Tasks |-> NoLease]]
  /\ granted = {}
  /\ fence = [t \in Tasks |-> 0]

-----------------------------------------------------------------------------
(* The lock file.                                                          *)

\* How many acquisitions may still be granted, for the bound on generations.
Acquiring(t) ==
  {q \in Procs : pc[q] \notin {"idle", "dead"} /\ call[q].op = "acquire" /\ call[q].task = t}

\* Heartbeats, releases and fence checks name any generation the process was
\* ever granted: a retry may come from before it lost the task.
Begin(p, c) ==
  /\ pc[p] = "idle"
  /\ c.op \in {"heartbeat", "release", "validate"} =>
        [task |-> c.task, worker |-> p, gen |-> c.gen] \in granted
  /\ c.op \in {"acquire", "get", "list"} => c.gen = 0
  /\ c.op = "acquire" =>
        file.generations[c.task] + Cardinality(Acquiring(c.task)) < MaxGen
  /\ pc' = [pc EXCEPT ![p] = "locking"]
  /\ call' = [call EXCEPT ![p] = c]
  /\ held' = IF c.op = "release" THEN [held EXCEPT ![p][c.task] = NoLease] ELSE held
  /\ UNCHANGED <<now, file, lock, draft, reply, granted, fence>>

\* The call is over, and its locals are gone.
Return(p) ==
  /\ pc' = [pc EXCEPT ![p] = "idle"]
  /\ call' = [call EXCEPT ![p] = NoCall]
  /\ draft' = [draft EXCEPT ![p] = EmptyState]
  /\ reply' = [reply EXCEPT ![p] = NoLease]

\* O_CREAT | O_EXCL.
LockIsFree == lock = NoLock

TakeLock(p) ==
  /\ pc[p] = "locking"
  /\ LockIsFree
  /\ lock' = [owner |-> p, stale |-> FALSE]
  /\ pc' = [pc EXCEPT ![p] = "decide"]
  /\ UNCHANGED <<now, file, call, draft, reply, held, granted, fence>>

FindStaleLock(p) ==
  /\ pc[p] = "locking"
  /\ lock.stale
  /\ pc' = [pc EXCEPT ![p] = "breaking"]
  /\ UNCHANGED <<now, file, lock, call, draft, reply, held, granted, fence>>

\* The path is unlinked, whatever file it names by now.
BreakLock(p) ==
  /\ pc[p] = "breaking"
  /\ lock' = NoLock
  /\ pc' = [pc EXCEPT ![p] = "locking"]
  /\ UNCHANGED <<now, file, call, draft, reply, held, granted, fence>>

\* Mutant: no deadline while the holder of the lock is gone.
TimeOutOnLiving(p) ==
  /\ pc[p] = "locking"
  /\ lock # NoLock
  /\ pc[lock.owner] # "dead"
  /\ Return(p)
  /\ UNCHANGED <<now, file, lock, held, granted, fence>>
TimeOut(p) ==
  /\ pc[p] = "locking"
  /\ lock # NoLock
  /\ Return(p)
  /\ UNCHANGED <<now, file, lock, held, granted, fence>>

-----------------------------------------------------------------------------
(* Under the lock: load the file, decide, and keep what is to be written.  *)

Free(l) == l.worker = Nobody

\* expires_at <= now.  Mutant: a tick early.
ExpiredEarly(l) == ~Free(l) /\ l.expires <= now + 1
Expired(l) == ~Free(l) /\ l.expires <= now

\* _prune_expired
Pruned(s) ==
  [s EXCEPT !.leases = [t \in Tasks |-> IF Expired(s.leases[t]) THEN NoLease
                                        ELSE s.leases[t]]]

Without(s, t) == [s EXCEPT !.leases[t] = NoLease]

\* The generation of a new lease.
\* Mutant: it is counted from the lease, which expiry and release remove.
GenerationOfLease(s, t) == s.leases[t].gen + 1
NextGeneration(s, t) == s.generations[t] + 1

WithLease(s, t, l) ==
  [s EXCEPT !.leases[t] = l, !.generations[t] = l.gen]

Is(p, op) == pc[p] = "decide" /\ call[p].op = op

Current(p) == file.leases[call[p].task]

\* _assert_holder
Holds(p) == Current(p).worker = p /\ Current(p).gen = call[p].gen

Write(p, s, l) ==
  /\ pc' = [pc EXCEPT ![p] = "persist"]
  /\ draft' = [draft EXCEPT ![p] = s]
  /\ reply' = [reply EXCEPT ![p] = l]
  /\ UNCHANGED <<now, file, lock, call, held, granted, fence>>

\* A lease returned, or an error raised (NoLease), with nothing to write.
Answer(p, l) ==
  /\ pc' = [pc EXCEPT ![p] = "unlock"]
  /\ reply' = [reply EXCEPT ![p] = l]
  /\ UNCHANGED <<now, file, lock, call, draft, held, granted>>

Acquire(p) ==
  LET t == call[p].task
      s == Pruned(file)
      gen == NextGeneration(s, t)
      new == [worker |-> p, gen |-> gen, expires |-> now + TTL] IN
  /\ Is(p, "acquire")
  /\ IF Free(s.leases[t])
       THEN Write(p, WithLease(s, t, new), new)
       ELSE /\ Answer(p, IF s.leases[t].worker = p THEN s.leases[t] ELSE NoLease)
            /\ UNCHANGED fence

Heartbeat(p) ==
  LET t == call[p].task
      renewed == [Current(p) EXCEPT !.expires = now + TTL] IN
  /\ Is(p, "heartbeat")
  /\ IF ~Holds(p) THEN Answer(p, NoLease) /\ UNCHANGED fence
     ELSE IF Expired(Current(p)) THEN Write(p, Without(file, t), NoLease)
     ELSE Write(p, [file EXCEPT !.leases[t] = renewed], renewed)

Release(p) ==
  /\ Is(p, "release")
  /\ IF Holds(p) THEN Write(p, Without(file, call[p].task), NoLease)
     ELSE Answer(p, NoLease) /\ UNCHANGED fence

\* validate_fence: the worker's right to commit a result, as of now.
FencePasses(p) ==
  /\ Holds(p)
  /\ ~Expired(Current(p))
  /\ file.generations[call[p].task] = call[p].gen

ValidateFence(p) ==
  /\ Is(p, "validate")
  /\ Answer(p, NoLease)
  /\ fence' = IF FencePasses(p) THEN [fence EXCEPT ![call[p].task] = call[p].gen]
              ELSE fence

Get(p) ==
  /\ Is(p, "get")
  /\ IF Expired(Current(p)) THEN Write(p, Without(file, call[p].task), NoLease)
     ELSE Answer(p, NoLease) /\ UNCHANGED fence

ListActive(p) ==
  /\ Is(p, "list")
  /\ IF Pruned(file) # file THEN Write(p, Pruned(file), NoLease)
     ELSE Answer(p, NoLease) /\ UNCHANGED fence

Decide(p) ==
  \/ Acquire(p) \/ Heartbeat(p) \/ Release(p)
  \/ ValidateFence(p) \/ Get(p) \/ ListActive(p)

\* os.replace
Persist(p) ==
  /\ pc[p] = "persist"
  /\ file' = draft[p]
  /\ pc' = [pc EXCEPT ![p] = "unlock"]
  /\ UNCHANGED <<now, lock, call, draft, reply, held, granted, fence>>

\* The temporary file cannot be written: the registry stays as it was and the
\* call raises, through the finally clause that unlocks.
PersistFails(p) ==
  /\ pc[p] = "persist"
  /\ pc' = [pc EXCEPT ![p] = "unlock"]
  /\ reply' = [reply EXCEPT ![p] = NoLease]
  /\ UNCHANGED <<now, file, lock, call, draft, held, granted, fence>>

\* finally: the lock path is unlinked, and the call returns.
Unlock(p) ==
  LET t == call[p].task
      l == reply[p] IN
  /\ pc[p] = "unlock"
  /\ lock' = NoLock
  /\ Return(p)
  /\ held' = IF Free(l) THEN held ELSE [held EXCEPT ![p][t] = l]
  /\ granted' = IF Free(l) THEN granted
                ELSE granted \cup {[task |-> t, worker |-> p, gen |-> l.gen]}
  /\ UNCHANGED <<now, file, fence>>

-----------------------------------------------------------------------------
(* The environment: time, lock files growing old, processes dying.         *)

Tick ==
  /\ now < MaxTime
  /\ now' = now + 1
  /\ UNCHANGED <<file, lock, pc, call, draft, reply, held, granted, fence>>

LockGrowsStale ==
  /\ lock # NoLock /\ ~lock.stale
  /\ \/ StaleLocks = "any"
     \/ StaleLocks = "of the dead" /\ pc[lock.owner] = "dead"
  /\ lock' = [lock EXCEPT !.stale = TRUE]
  /\ UNCHANGED <<now, file, pc, call, draft, reply, held, granted, fence>>

\* The process dies where it stands; what it believed dies with it.
Crash(p) ==
  /\ pc[p] # "dead"
  /\ Cardinality({q \in Procs : pc[q] = "dead"}) < MaxCrashes
  /\ pc' = [pc EXCEPT ![p] = "dead"]
  /\ call' = [call EXCEPT ![p] = NoCall]
  /\ draft' = [draft EXCEPT ![p] = EmptyState]
  /\ reply' = [reply EXCEPT ![p] = NoLease]
  /\ held' = [held EXCEPT ![p] = [t \in Tasks |-> NoLease]]
  /\ UNCHANGED <<now, file, lock, granted, fence>>

Step(p) ==
  \/ TakeLock(p) \/ FindStaleLock(p) \/ BreakLock(p) \/ TimeOut(p)
  \/ Decide(p) \/ Persist(p) \/ PersistFails(p) \/ Unlock(p)

Next ==
  \/ \E p \in Procs :
       \/ \E c \in [op : Ops, task : Tasks, gen : 0 .. MaxGen] : Begin(p, c)
       \/ Step(p)
       \/ Crash(p)
  \/ Tick
  \/ LockGrowsStale

Spec == Init /\ [][Next]_vars

\* A process that has started a call keeps running until it returns or dies.
FairSpec == Spec /\ \A p \in Procs : WF_vars(Step(p))

-----------------------------------------------------------------------------
TypeOK ==
  /\ now \in Nat
  /\ file \in State
  /\ lock \in LockFile
  /\ pc \in [Procs -> Steps]
  /\ call \in [Procs -> Call \cup {NoCall}]
  /\ draft \in [Procs -> State]
  /\ reply \in [Procs -> Lease]
  /\ held \in [Procs -> [Tasks -> Lease]]
  /\ granted \in SUBSET Granted
  /\ fence \in [Tasks -> Nat]

Inside(p) == pc[p] \in {"decide", "persist", "unlock"}

\* Two processes never work on the registry at once, through crashes, stale
\* lock files and timeouts (the _locked context manager).
MutualExclusion == \A p, q \in Procs : Inside(p) /\ Inside(q) => p = q

\* No generation of a task is ever granted to two workers: what lets a result
\* be attributed to, and refused from, one holder (REQ-ENG-029).
OneHolderPerGeneration ==
  \A g, h \in granted : g.task = h.task /\ g.gen = h.gen => g.worker = h.worker

\* At any moment at most one worker believes it holds a lease of the task that
\* has not run out, from what acquire and heartbeat told it: no call interleaved
\* with an expiry hands the task over early.
Believes(p, t) == ~Free(held[p][t]) /\ now < held[p][t].expires
OneLiveHolder ==
  \A t \in Tasks, p, q \in Procs : Believes(p, t) /\ Believes(q, t) => p = q

\* Once a worker of some generation has passed the fence check, none of an
\* older one ever does ("a stale worker holding generation N cannot submit as
\* the active holder", docs/architecture/ENGINEERING_AGENCY_V52.md:61).
FenceNeverRegresses == [][\A t \in Tasks : fence[t] <= fence'[t]]_vars

\* Every call returns, even when the lock file belongs to a dead process.
CallsReturn == \A p \in Procs : (pc[p] # "idle") ~> (pc[p] \in {"idle", "dead"})

\* The file implements the abstract registry.
Registry == INSTANCE FencedRegistry
  WITH Workers <- Procs,
       holder <- [t \in Tasks |-> file.leases[t].worker],
       epoch <- file.generations
ImplementsRegistry == Registry!Spec
=============================================================================
