---------------------------- MODULE WorkerQueue ----------------------------
(***************************************************************************)
(* The pull-based job queue for untrusted remote workers                   *)
(* (tools/workers/queue.py), with the credentials it mints                 *)
(* (tools/workers/auth.py), the HTTP endpoints in front of it              *)
(* (api/router.py), the completion gate that verifies a claim before it    *)
(* reaches the queue (engineering/worker_verification.py) and the rollback *)
(* of the dispatch tool (tools/workers/tool.py).                           *)
(*                                                                         *)
(* Calls on the queue run one at a time, but a worker's request may arrive *)
(* late or twice, long after its lease was taken away: requests are built  *)
(* from any lease ever granted.  The gate awaits its verifier between      *)
(* reading the job and acting on it, so anything may happen in between.    *)
(***************************************************************************)
EXTENDS Naturals, Sequences, FiniteSets

CONSTANTS
  Workers,    \* worker ids
  Keys,       \* idempotency keys
  MaxJobs,    \* bound: jobs ever enqueued
  MaxGrants,  \* bound: leases ever granted
  MaxSeq,     \* bound: the largest checkpoint sequence number sent
  TTL,        \* bound: the longest lease, in ticks
  MaxClaims,  \* bound: claims being verified at once
  NoKey,      \* a call without an idempotency key
  NoWorker    \* the worker of a job that was never leased

ASSUME BoundsAssumption ==
  /\ MaxJobs \in Nat /\ MaxGrants \in Nat /\ MaxSeq \in Nat /\ MaxClaims \in Nat
  /\ TTL \in Nat \ {0}
  /\ NoKey \notin Keys
  /\ NoWorker \notin Workers

VARIABLES
  registered,     \* the keys of EphemeralJobQueue._workers
  njobs,          \* Len(_jobs); a job's number is its insertion order
  status,         \* WorkerJob.status
  key,            \* WorkerJob.idempotency_key
  generation,     \* WorkerJob.lease_generation, the fencing counter
  lease,          \* WorkerJob.current_lease
  checkpoints,    \* WorkerJob.checkpoints
  lastSeq,        \* WorkerJob.last_checkpoint_seq
  evidence,       \* WorkerJob.completion_evidence: who wrote it, and as what
  completedKeys,  \* EphemeralJobQueue._completed_idempotency_keys, 0 if absent
  grants,         \* every lease handed to a worker: what its requests carry
  claims          \* completion claims whose verifier has not answered

vars == <<registered, njobs, status, key, generation, lease, checkpoints,
          lastSeq, evidence, completedKeys, grants, claims>>

JobIds == 1 .. MaxJobs

\* The members of JobStatus that some operation assigns (ABSENT: not enqueued).
JobStatus == {"ABSENT", "QUEUED", "LEASED", "RUNNING", "COMPLETED",
              "CANCELLED", "REJECTED_RESULT"}

\* left counts the ticks until now > expires_at; it is 0 once expired.
WorkerLease == [worker : Workers \cup {NoWorker}, fenced : BOOLEAN, left : 0 .. TTL]

\* No lease at all answers the fence check as a fenced one does.
NoLease == [worker |-> NoWorker, fenced |-> TRUE, left |-> 0]

CheckpointRecord == [gen : Nat \ {0}, seq : 1 .. MaxSeq]

Grant == [job : JobIds, worker : Workers, gen : Nat \ {0}]

Claim == [grant : Grant, key : Keys \cup {NoKey}, token : BOOLEAN]

Evidence == [gen : Nat, kind : {"none", "accepted", "rejected"}]

Enqueued == 1 .. njobs

Init ==
  /\ registered = {}
  /\ njobs = 0
  /\ status = [j \in JobIds |-> "ABSENT"]
  /\ key = [j \in JobIds |-> NoKey]
  /\ generation = [j \in JobIds |-> 0]
  /\ lease = [j \in JobIds |-> NoLease]
  /\ checkpoints = [j \in JobIds |-> <<>>]
  /\ lastSeq = [j \in JobIds |-> 0]
  /\ evidence = [j \in JobIds |-> [gen |-> 0, kind |-> "none"]]
  /\ completedKeys = [k \in Keys |-> 0]
  /\ grants = {}
  /\ claims = {}

-----------------------------------------------------------------------------
(* Registration, dispatch and leasing.                                     *)

\* Registering again only replaces the session id, which no later check reads
\* apart from the generation it was leased under.
RegisterWorker(w) ==
  /\ w \notin registered
  /\ registered' = registered \cup {w}
  /\ UNCHANGED <<njobs, status, key, generation, lease, checkpoints, lastSeq,
                 evidence, completedKeys, grants, claims>>

\* A key already completed returns the job of that completion and adds none.
\* A key that is merely in flight is not looked for: it gets a second job.
EnqueueJob(k) ==
  /\ njobs < MaxJobs
  /\ k \in Keys => completedKeys[k] = 0
  /\ njobs' = njobs + 1
  /\ status' = [status EXCEPT ![njobs + 1] = "QUEUED"]
  /\ key' = [key EXCEPT ![njobs + 1] = k]
  /\ UNCHANGED <<registered, generation, lease, checkpoints, lastSeq, evidence,
                 completedKeys, grants, claims>>

\* The job a poll hands out: the first QUEUED one in insertion order.
FirstQueued(j) ==
  /\ j \in Enqueued
  /\ status[j] = "QUEUED"
  /\ \A i \in 1 .. j - 1 : status[i] # "QUEUED"

\* The fencing counter of the lease a poll grants on j.
NextGeneration(j) == generation[j] + 1

\* The endpoint wants the session token that registration returned.
MayPoll(w) == w \in registered

PollAndLease(w, j, d) ==
  /\ MayPoll(w)
  /\ FirstQueued(j)
  /\ Cardinality(grants) < MaxGrants
  /\ generation' = [generation EXCEPT ![j] = NextGeneration(j)]
  /\ lease' = [lease EXCEPT ![j] = [worker |-> w, fenced |-> FALSE, left |-> d]]
  /\ status' = [status EXCEPT ![j] = "LEASED"]
  /\ grants' = grants \cup {[job |-> j, worker |-> w, gen |-> NextGeneration(j)]}
  /\ UNCHANGED <<registered, njobs, key, checkpoints, lastSeq, evidence,
                 completedKeys, claims>>

-----------------------------------------------------------------------------
(* What a worker's request must pass.                                      *)

\* verify_job_lease_token.  The token of the current lease expires with it,
\* and every token of an older generation fails the fence check below.
TokenAccepted(g, token) == token => lease[g.job].left > 0

\* The fencing gate and the ownership check.
\* Mutant: the owner is checked, the generation of its request is not.
OwnsJob(g) ==
  /\ ~lease[g.job].fenced
  /\ lease[g.job].worker = g.worker
HoldsLease(g) ==
  /\ g.gen = generation[g.job]
  /\ ~lease[g.job].fenced
  /\ lease[g.job].worker = g.worker

MaySubmit(g, token) == TokenAccepted(g, token) /\ HoldsLease(g)

\* Mutant: a repeated sequence number passes.
SequenceRepeats(j, s) == s >= lastSeq[j]
SequenceAdvances(j, s) == s > lastSeq[j]

\* Neither the status nor the expiry of the lease is asked: a job that was
\* completed, cancelled or rejected under a lease nobody fenced runs again.
RecordProgress(g, s, token) ==
  LET j == g.job IN
  /\ MaySubmit(g, token)
  /\ SequenceAdvances(j, s)
  /\ status' = [status EXCEPT ![j] = "RUNNING"]
  /\ checkpoints' = [checkpoints EXCEPT ![j] = Append(@, [gen |-> g.gen, seq |-> s])]
  /\ lastSeq' = [lastSeq EXCEPT ![j] = s]
  /\ UNCHANGED <<registered, njobs, key, generation, lease, evidence,
                 completedKeys, grants, claims>>

\* A completion repeated with the job's own key changes nothing.
IsReplay(j, k) == status[j] = "COMPLETED" /\ k # NoKey /\ k = key[j]

Completes(j, gen, k) ==
  /\ status' = [status EXCEPT ![j] = "COMPLETED"]
  /\ evidence' = [evidence EXCEPT ![j] = [gen |-> gen, kind |-> "accepted"]]
  /\ completedKeys' = [x \in Keys |-> IF x = k THEN j ELSE completedKeys[x]]

CompleteJob(g, k, token) ==
  /\ MaySubmit(g, token)
  /\ ~IsReplay(g.job, k)
  /\ Completes(g.job, g.gen, k)
  /\ UNCHANGED <<registered, njobs, key, generation, lease, checkpoints,
                 lastSeq, grants, claims>>

-----------------------------------------------------------------------------
(* Expiry, cancellation and the verified completion gate.                  *)

\* Time passes for every lease at once.
Tick ==
  /\ \E j \in JobIds : lease[j].left > 0
  /\ lease' = [j \in JobIds |->
                 [lease[j] EXCEPT !.left = IF @ > 0 THEN @ - 1 ELSE 0]]
  /\ UNCHANGED <<registered, njobs, status, key, generation, checkpoints,
                 lastSeq, evidence, completedKeys, grants, claims>>

\* The leases reap_stale_leases takes back.  Progress does not extend one.
\* Mutant: a job that has reported progress is left out.
StaleUnstarted(j) == status[j] = "LEASED" /\ lease[j].left = 0
Stale(j) == status[j] \in {"LEASED", "RUNNING"} /\ lease[j].left = 0

FencedAfterReap(j) == [lease[j] EXCEPT !.fenced = TRUE]

ReapStaleLeases ==
  /\ \E j \in JobIds : Stale(j)
  /\ lease' = [j \in JobIds |-> IF Stale(j) THEN FencedAfterReap(j) ELSE lease[j]]
  /\ status' = [j \in JobIds |-> IF Stale(j) THEN "QUEUED" ELSE status[j]]
  /\ UNCHANGED <<registered, njobs, key, generation, checkpoints, lastSeq,
                 evidence, completedKeys, grants, claims>>

\* Rolling back a dispatch marks its job, whatever state the job has reached.
RollbackDispatch(j) ==
  /\ j \in Enqueued
  /\ status[j] # "CANCELLED"
  /\ status' = [status EXCEPT ![j] = "CANCELLED"]
  /\ UNCHANGED <<registered, njobs, key, generation, lease, checkpoints,
                 lastSeq, evidence, completedKeys, grants, claims>>

\* The gate looks the job up and starts awaiting the verifier.
ClaimCompletion(g, k, token) ==
  /\ Cardinality(claims) < MaxClaims
  /\ claims' = claims \cup {[grant |-> g, key |-> k, token |-> token]}
  /\ UNCHANGED <<registered, njobs, status, key, generation, lease, checkpoints,
                 lastSeq, evidence, completedKeys, grants>>

\* The verifier accepts: complete_job decides with the state it finds now.
ClaimVerified(c) ==
  /\ claims' = claims \ {c}
  /\ IF MaySubmit(c.grant, c.token) /\ ~IsReplay(c.grant.job, c.key)
       THEN Completes(c.grant.job, c.grant.gen, c.key)
       ELSE UNCHANGED <<status, evidence, completedKeys>>
  /\ UNCHANGED <<registered, njobs, key, generation, lease, checkpoints,
                 lastSeq, grants>>

\* The verifier rejects: the job is marked at once, with no fence check.
ClaimRejected(c) ==
  LET j == c.grant.job IN
  /\ claims' = claims \ {c}
  /\ status' = [status EXCEPT ![j] = "REJECTED_RESULT"]
  /\ evidence' = [evidence EXCEPT ![j] = [gen |-> c.grant.gen, kind |-> "rejected"]]
  /\ UNCHANGED <<registered, njobs, key, generation, lease, checkpoints,
                 lastSeq, completedKeys, grants>>

-----------------------------------------------------------------------------
WorkerRequest(g) ==
  \/ \E s \in 0 .. MaxSeq, token \in BOOLEAN : RecordProgress(g, s, token)
  \/ \E k \in Keys \cup {NoKey}, token \in BOOLEAN :
        CompleteJob(g, k, token) \/ ClaimCompletion(g, k, token)

Next ==
  \/ \E w \in Workers : RegisterWorker(w)
  \/ \E k \in Keys \cup {NoKey} : EnqueueJob(k)
  \/ \E w \in Workers, j \in JobIds, d \in 1 .. TTL : PollAndLease(w, j, d)
  \/ \E g \in grants : WorkerRequest(g)
  \/ Tick
  \/ ReapStaleLeases
  \/ \E j \in JobIds : RollbackDispatch(j)
  \/ \E c \in claims : ClaimVerified(c) \/ ClaimRejected(c)

Spec == Init /\ [][Next]_vars

-----------------------------------------------------------------------------
TypeOK ==
  /\ registered \in SUBSET Workers
  /\ njobs \in 0 .. MaxJobs
  /\ status \in [JobIds -> JobStatus]
  /\ key \in [JobIds -> Keys \cup {NoKey}]
  /\ generation \in [JobIds -> Nat]
  /\ lease \in [JobIds -> WorkerLease]
  /\ checkpoints \in [JobIds -> Seq(CheckpointRecord)]
  /\ lastSeq \in [JobIds -> 0 .. MaxSeq]
  /\ evidence \in [JobIds -> Evidence]
  /\ completedKeys \in [Keys -> 0 .. MaxJobs]
  /\ grants \in SUBSET Grant
  /\ claims \in SUBSET Claim

\* What reaping, re-leasing and late requests leave of status and lease: a job
\* out with a worker has a live lease, and a job waiting for one is safe from
\* whoever held it before (queue.py: the fence set by reap_stale_leases must
\* reach every path back to QUEUED).
StatusMatchesLease ==
  \A j \in JobIds :
    /\ status[j] \in {"LEASED", "RUNNING"} => ~lease[j].fenced
    /\ status[j] = "QUEUED" => lease[j].fenced

\* No two workers ever hold credentials of the same generation of a job, and
\* none holds one newer than the job's counter: what makes the generation a
\* fencing token at all (M5 Section 50).
OneHolderPerGeneration ==
  /\ \A g \in grants : g.gen <= generation[g.job]
  /\ \A g, h \in grants : g.job = h.job /\ g.gen = h.gen => g.worker = h.worker

\* Across any number of disconnections the checkpoints of a job stay a single
\* history: sequence numbers increase, generations never step back, and the
\* resumption point is the last one (M5 Sections 55 and 59).
CheckpointsFormOneHistory ==
  \A j \in JobIds :
    LET log == checkpoints[j] IN
    /\ \A m, n \in 1 .. Len(log) :
         m < n => log[m].seq < log[n].seq /\ log[m].gen <= log[n].gen
    /\ lastSeq[j] = IF log = <<>> THEN 0 ELSE log[Len(log)].seq

\* The queue has taken work of generation n of job j: a completion it accepted,
\* or a checkpoint while the evidence is not that of a completion.
WorkTaken(j, n) ==
  \/ evidence[j] = [gen |-> n, kind |-> "accepted"]
  \/ /\ evidence[j].kind # "accepted"
     /\ \E m \in 1 .. Len(checkpoints[j]) : checkpoints[j][m].gen = n

\* Once the queue has taken work of a generation, no completion of an older one
\* is ever accepted: not by a late or repeated request, not by a verdict that
\* arrives after an await, and not after a refused claim (which may come from
\* any generation: queue_stale) has overwritten the evidence in between.
AcceptancesMoveForward ==
  \A j \in JobIds, n \in 1 .. MaxGrants :
    [](WorkTaken(j, n) => [](evidence[j].kind = "accepted" => n <= evidence[j].gen))

\* A job whose completion was accepted is not handed out again: what
\* docs/security/THREAT_MODEL.md:43 says of duplicate execution.
CompletedJobsNotRerun ==
  [][\A j \in JobIds :
       evidence[j].kind = "accepted" => generation'[j] = generation[j]]_vars

\* Only a worker of the current, unfenced lease decides a job's outcome: M5-INV-09,
\* tests/unit/test_m5_ephemeral_worker_fabric.py:141.
StaleUpdatesRejected ==
  [][\A j \in JobIds :
       evidence'[j] # evidence[j] =>
         evidence'[j].gen = generation[j] /\ ~lease[j].fenced]_vars

\* A worker that vanishes does not keep its job for ever: while the reaper is
\* called, every leased or running job leaves those states again.
AbandonedJobsReturn ==
  \A j \in JobIds :
    status[j] \in {"LEASED", "RUNNING"} ~> status[j] \notin {"LEASED", "RUNNING"}

\* The queue implements the fenced log.
Log == INSTANCE FencedLog WITH Items <- JobIds, Seqs <- 1 .. MaxSeq,
                               epoch <- generation, log <- checkpoints
ImplementsFencedLog == Log!Spec

=============================================================================
