------------------------- MODULE WorkerQueueProofs -------------------------
(***************************************************************************)
(* Theorems about WorkerQueue, for any workers, keys and bounds.           *)
(*                                                                         *)
(* The safety invariants are not inductive one by one.  Safe joins them    *)
(* with three facts they lean on: a job number not yet handed out has no   *)
(* live lease, no checkpoint was written under a generation the job has    *)
(* not reached, and no accepted evidence either.                           *)
(***************************************************************************)
EXTENDS WorkerQueue, TLAPS

UnusedJobsUnleased == \A j \in JobIds : j \notin Enqueued => lease[j].fenced

WritesWithinGeneration ==
  \A j \in JobIds :
    /\ \A n \in 1 .. Len(checkpoints[j]) : checkpoints[j][n].gen <= generation[j]
    /\ evidence[j].kind = "accepted" => evidence[j].gen <= generation[j]

Safe ==
  /\ TypeOK
  /\ StatusMatchesLease
  /\ OneHolderPerGeneration
  /\ CheckpointsFormOneHistory
  /\ UnusedJobsUnleased
  /\ WritesWithinGeneration

-----------------------------------------------------------------------------
LEMMA InitSafe == Init => Safe
<1> USE BoundsAssumption
<1> SUFFICES ASSUME Init PROVE Safe
  OBVIOUS
<1>1. TypeOK
  BY DEF Init, TypeOK, JobIds, JobStatus, WorkerLease, NoLease, Evidence
<1>2. StatusMatchesLease /\ UnusedJobsUnleased
  BY DEF Init, StatusMatchesLease, UnusedJobsUnleased, NoLease
<1>3. OneHolderPerGeneration
  BY DEF Init, OneHolderPerGeneration
<1>4. CheckpointsFormOneHistory /\ WritesWithinGeneration
  BY DEF Init, CheckpointsFormOneHistory, WritesWithinGeneration
<1> QED
  BY <1>1, <1>2, <1>3, <1>4 DEF Safe

-----------------------------------------------------------------------------
(* The type invariant is preserved by each operation.                      *)

LEMMA TypeStep == TypeOK /\ [Next]_vars => TypeOK'
<1> USE BoundsAssumption
<1> SUFFICES ASSUME TypeOK, [Next]_vars PROVE TypeOK'
  OBVIOUS
<1> USE DEF TypeOK
<1>1. ASSUME NEW w \in Workers, RegisterWorker(w) PROVE TypeOK'
  BY <1>1 DEF RegisterWorker
<1>2. ASSUME NEW k \in Keys \cup {NoKey}, EnqueueJob(k) PROVE TypeOK'
  BY <1>2 DEF EnqueueJob, JobIds, JobStatus
<1>3. ASSUME NEW w \in Workers, NEW j \in JobIds, NEW d \in 1 .. TTL,
             PollAndLease(w, j, d)
      PROVE  TypeOK'
  <2>1. generation[j] + 1 \in Nat \ {0}
    BY DEF JobIds
  <2>2. [worker |-> w, fenced |-> FALSE, left |-> d] \in WorkerLease
    BY DEF WorkerLease
  <2>3. [job |-> j, worker |-> w, gen |-> NextGeneration(j)] \in Grant
    BY <2>1 DEF Grant, NextGeneration
  <2> QED
    BY <1>3, <2>1, <2>2, <2>3 DEF PollAndLease, NextGeneration, JobStatus
<1>4. ASSUME NEW g \in grants, NEW s \in 0 .. MaxSeq, NEW token \in BOOLEAN,
             RecordProgress(g, s, token)
      PROVE  TypeOK'
  <2>1. g.job \in JobIds /\ g.gen \in Nat \ {0}
    BY DEF Grant
  <2>2. s \in 1 .. MaxSeq
    BY <1>4, <2>1 DEF RecordProgress, SequenceAdvances
  <2>3. [gen |-> g.gen, seq |-> s] \in CheckpointRecord
    BY <2>1, <2>2 DEF CheckpointRecord
  <2>4. Append(checkpoints[g.job], [gen |-> g.gen, seq |-> s]) \in Seq(CheckpointRecord)
    BY <2>1, <2>3
  <2> QED
    BY <1>4, <2>1, <2>2, <2>4 DEF RecordProgress, JobStatus
<1>5. ASSUME NEW g \in grants, NEW k \in Keys \cup {NoKey}, Completes(g.job, g.gen, k)
      PROVE  /\ status' \in [JobIds -> JobStatus]
             /\ evidence' \in [JobIds -> Evidence]
             /\ completedKeys' \in [Keys -> 0 .. MaxJobs]
  <2>1. g.job \in JobIds /\ g.gen \in Nat
    BY DEF Grant
  <2>2. g.job \in 0 .. MaxJobs
    BY <2>1 DEF JobIds
  <2> QED
    BY <1>5, <2>1, <2>2 DEF Completes, JobStatus, Evidence
<1>6. ASSUME NEW g \in grants, NEW k \in Keys \cup {NoKey}, NEW token \in BOOLEAN,
             CompleteJob(g, k, token)
      PROVE  TypeOK'
  BY <1>5, <1>6 DEF CompleteJob
<1>7. ASSUME NEW g \in grants, NEW k \in Keys \cup {NoKey}, NEW token \in BOOLEAN,
             ClaimCompletion(g, k, token)
      PROVE  TypeOK'
  BY <1>7 DEF ClaimCompletion, Claim
<1>8. CASE Tick
  <2>1. ASSUME NEW j \in JobIds
        PROVE  [lease[j] EXCEPT !.left = IF @ > 0 THEN @ - 1 ELSE 0] \in WorkerLease
    <3>1. lease[j] \in WorkerLease
      OBVIOUS
    <3>2. ASSUME NEW l \in WorkerLease, NEW n \in 0 .. TTL
          PROVE  [l EXCEPT !.left = n] \in WorkerLease
      BY DEF WorkerLease
    <3>3. (IF lease[j].left > 0 THEN lease[j].left - 1 ELSE 0) \in 0 .. TTL
      BY <3>1 DEF WorkerLease
    <3> QED
      BY <3>1, <3>2, <3>3
  <2>2. lease' \in [JobIds -> WorkerLease]
    BY <1>8, <2>1 DEF Tick
  <2> QED
    BY <1>8, <2>2 DEF Tick
<1>9. CASE ReapStaleLeases
  <2>1. ASSUME NEW j \in JobIds PROVE lease[j] \in WorkerLease /\ FencedAfterReap(j) \in WorkerLease
    <3>1. lease[j] \in WorkerLease
      OBVIOUS
    <3>2. ASSUME NEW l \in WorkerLease PROVE [l EXCEPT !.fenced = TRUE] \in WorkerLease
      BY DEF WorkerLease
    <3> QED
      BY <3>1, <3>2 DEF FencedAfterReap
  <2>2. lease' \in [JobIds -> WorkerLease]
    BY <1>9, <2>1 DEF ReapStaleLeases
  <2>3. status' \in [JobIds -> JobStatus]
    BY <1>9 DEF ReapStaleLeases, JobStatus
  <2> QED
    BY <1>9, <2>2, <2>3 DEF ReapStaleLeases
<1>10. ASSUME NEW j \in JobIds, RollbackDispatch(j) PROVE TypeOK'
  BY <1>10 DEF RollbackDispatch, JobStatus
<1>11. ASSUME NEW c \in claims, ClaimVerified(c) PROVE TypeOK'
  <2>1. c.grant \in Grant /\ c.key \in Keys \cup {NoKey}
    BY DEF Claim
  <2>2. c.grant.job \in JobIds /\ c.grant.job \in 0 .. MaxJobs /\ c.grant.gen \in Nat
    BY <2>1 DEF Grant, JobIds
  <2>3. ASSUME Completes(c.grant.job, c.grant.gen, c.key)
        PROVE  /\ status' \in [JobIds -> JobStatus]
               /\ evidence' \in [JobIds -> Evidence]
               /\ completedKeys' \in [Keys -> 0 .. MaxJobs]
    <3>1. status' \in [JobIds -> JobStatus]
      BY <2>2, <2>3 DEF Completes, JobStatus
    <3>2. evidence' \in [JobIds -> Evidence]
      BY <2>2, <2>3 DEF Completes, Evidence
    <3>3. completedKeys' \in [Keys -> 0 .. MaxJobs]
      BY <2>2, <2>3 DEF Completes
    <3> QED
      BY <3>1, <3>2, <3>3
  <2> QED
    BY <1>11, <2>3 DEF ClaimVerified
<1>12. ASSUME NEW c \in claims, ClaimRejected(c) PROVE TypeOK'
  BY <1>12 DEF ClaimRejected, Claim, Grant, JobStatus, Evidence
<1>13. CASE UNCHANGED vars
  BY <1>13 DEF vars
<1> QED
  BY <1>1, <1>2, <1>3, <1>4, <1>6, <1>7, <1>8, <1>9, <1>10, <1>11, <1>12, <1>13
  DEF Next, WorkerRequest

\* Every variable keeps its type, for any instance (WorkerJob, WorkerLease and
\* CheckpointRecord of tools/workers/schemas.py).
THEOREM TypeCorrect == Spec => []TypeOK
<1>1. Init => TypeOK
  BY InitSafe DEF Safe
<1>2. TypeOK /\ [Next]_vars => TypeOK'
  BY TypeStep
<1> QED
  BY <1>1, <1>2, PTL DEF Spec

-----------------------------------------------------------------------------
(* What each kind of step does to the fields the invariants read.          *)

\* A request that passes the gate comes from the holder of the current lease.
LEMMA CompletionIsFenced ==
  ASSUME TypeOK, NEW g \in Grant, NEW k, NEW token,
         MaySubmit(g, token), Completes(g.job, g.gen, k)
  PROVE  /\ g.job \in JobIds
         /\ g.gen = generation[g.job]
         /\ ~lease[g.job].fenced
         /\ status' = [status EXCEPT ![g.job] = "COMPLETED"]
         /\ evidence' = [evidence EXCEPT ![g.job] =
                           [gen |-> g.gen, kind |-> "accepted"]]
  BY DEF MaySubmit, HoldsLease, Completes, Grant

LEMMA StatusStep == Safe /\ [Next]_vars => StatusMatchesLease' /\ UnusedJobsUnleased'
<1> USE BoundsAssumption
<1> SUFFICES ASSUME Safe, [Next]_vars
             PROVE  StatusMatchesLease' /\ UnusedJobsUnleased'
  OBVIOUS
<1> USE DEF Safe, StatusMatchesLease, UnusedJobsUnleased
<1>0. TypeOK
  OBVIOUS
<1>1. ASSUME NEW w \in Workers, RegisterWorker(w)
      PROVE  StatusMatchesLease' /\ UnusedJobsUnleased'
  BY <1>1 DEF RegisterWorker, Enqueued
<1>2. ASSUME NEW k \in Keys \cup {NoKey}, EnqueueJob(k)
      PROVE  StatusMatchesLease' /\ UnusedJobsUnleased'
  BY <1>0, <1>2 DEF EnqueueJob, Enqueued, TypeOK, JobIds
<1>3. ASSUME NEW w \in Workers, NEW j \in JobIds, NEW d \in 1 .. TTL,
             PollAndLease(w, j, d)
      PROVE  StatusMatchesLease' /\ UnusedJobsUnleased'
  BY <1>0, <1>3 DEF PollAndLease, FirstQueued, Enqueued, TypeOK
<1>4. ASSUME NEW g \in grants, NEW s \in 0 .. MaxSeq, NEW token \in BOOLEAN,
             RecordProgress(g, s, token)
      PROVE  StatusMatchesLease' /\ UnusedJobsUnleased'
  BY <1>0, <1>4 DEF RecordProgress, MaySubmit, HoldsLease, Enqueued, TypeOK, Grant
<1>5. ASSUME NEW g \in grants, NEW k \in Keys \cup {NoKey}, NEW token \in BOOLEAN,
             CompleteJob(g, k, token)
      PROVE  StatusMatchesLease' /\ UnusedJobsUnleased'
  BY <1>0, <1>5, CompletionIsFenced DEF CompleteJob, Enqueued, TypeOK
<1>6. ASSUME NEW g \in grants, NEW k \in Keys \cup {NoKey}, NEW token \in BOOLEAN,
             ClaimCompletion(g, k, token)
      PROVE  StatusMatchesLease' /\ UnusedJobsUnleased'
  BY <1>6 DEF ClaimCompletion, Enqueued
<1>7. CASE Tick
  <2>1. \A j \in JobIds : lease'[j].fenced = lease[j].fenced
    BY <1>0, <1>7 DEF Tick, TypeOK, WorkerLease
  <2> QED
    BY <1>7, <2>1 DEF Tick, Enqueued
<1>8. CASE ReapStaleLeases
  <2>1. \A j \in JobIds : lease'[j].fenced = (Stale(j) \/ lease[j].fenced)
    BY <1>0, <1>8 DEF ReapStaleLeases, FencedAfterReap, TypeOK, WorkerLease
  <2> QED
    BY <1>8, <2>1 DEF ReapStaleLeases, Stale, Enqueued
<1>9. ASSUME NEW j \in JobIds, RollbackDispatch(j)
      PROVE  StatusMatchesLease' /\ UnusedJobsUnleased'
  BY <1>0, <1>9 DEF RollbackDispatch, Enqueued, TypeOK
<1>10. ASSUME NEW c \in claims, ClaimVerified(c)
       PROVE  StatusMatchesLease' /\ UnusedJobsUnleased'
  <2>1. c.grant \in Grant
    BY <1>0 DEF TypeOK, Claim
  <2>2. UNCHANGED <<lease, njobs>>
    BY <1>10 DEF ClaimVerified
  <2>3. CASE MaySubmit(c.grant, c.token) /\ ~IsReplay(c.grant.job, c.key)
    <3>1. Completes(c.grant.job, c.grant.gen, c.key)
      BY <1>10, <2>3 DEF ClaimVerified
    <3>2. status' = [status EXCEPT ![c.grant.job] = "COMPLETED"]
      BY <1>0, <2>1, <2>3, <3>1, CompletionIsFenced
    <3>3. \A j \in JobIds : status'[j] = status[j] \/ status'[j] = "COMPLETED"
      BY <1>0, <3>2 DEF TypeOK
    <3> QED
      BY <2>2, <3>3 DEF Enqueued
  <2>4. CASE ~(MaySubmit(c.grant, c.token) /\ ~IsReplay(c.grant.job, c.key))
    <3>1. UNCHANGED status
      BY <1>10, <2>4, Zenon DEF ClaimVerified
    <3> QED
      BY <2>2, <3>1 DEF Enqueued
  <2> QED
    BY <2>3, <2>4
<1>11. ASSUME NEW c \in claims, ClaimRejected(c)
       PROVE  StatusMatchesLease' /\ UnusedJobsUnleased'
  BY <1>0, <1>11 DEF ClaimRejected, Enqueued, TypeOK
<1>12. CASE UNCHANGED vars
  BY <1>12 DEF vars, Enqueued
<1> QED
  BY <1>1, <1>2, <1>3, <1>4, <1>5, <1>6, <1>7, <1>8, <1>9, <1>10, <1>11, <1>12
  DEF Next, WorkerRequest

LEMMA HolderStep == Safe /\ [Next]_vars => OneHolderPerGeneration'
<1> SUFFICES ASSUME Safe, [Next]_vars PROVE OneHolderPerGeneration'
  OBVIOUS
<1> USE DEF Safe, OneHolderPerGeneration
<1>0. TypeOK
  OBVIOUS
<1>1. ASSUME NEW w \in Workers, NEW j \in JobIds, NEW d \in 1 .. TTL,
             PollAndLease(w, j, d)
      PROVE  OneHolderPerGeneration'
  <2> DEFINE new == [job |-> j, worker |-> w, gen |-> NextGeneration(j)]
  <2>1. generation[j] \in Nat /\ \A g \in grants : generation[g.job] \in Nat /\ g.gen \in Nat
    BY <1>0 DEF TypeOK, Grant
  <2>2. /\ grants' = grants \cup {new}
        /\ generation' = [generation EXCEPT ![j] = generation[j] + 1]
    BY <1>1 DEF PollAndLease, NextGeneration
  <2>3. \A g \in grants : g.job = j => g.gen < new.gen
    BY <2>1 DEF NextGeneration
  <2>4. \A g \in grants' : g.gen <= generation'[g.job]
    BY <1>0, <2>1, <2>2, <2>3 DEF TypeOK, Grant, NextGeneration
  <2>5. \A g, h \in grants' : g.job = h.job /\ g.gen = h.gen => g.worker = h.worker
    <3> TAKE g, h \in grants'
    <3>1. CASE g \in grants /\ h \in grants
      BY <3>1
    <3>2. CASE g = new \/ h = new
      BY <2>1, <2>2, <2>3, <3>2
    <3> QED
      BY <2>2, <3>1, <3>2
  <2> QED
    BY <2>4, <2>5
<1>2. CASE UNCHANGED <<grants, generation>>
  BY <1>2
<1>3. [Next]_vars => \/ \E w \in Workers, j \in JobIds, d \in 1 .. TTL : PollAndLease(w, j, d)
                    \/ UNCHANGED <<grants, generation>>
  BY DEF Next, WorkerRequest, vars, RegisterWorker, EnqueueJob, RecordProgress,
         CompleteJob, ClaimCompletion, Tick, ReapStaleLeases, RollbackDispatch,
         ClaimVerified, ClaimRejected
<1> QED
  BY <1>1, <1>2, <1>3

LEMMA EntryTypes ==
  ASSUME NEW log \in Seq(CheckpointRecord), NEW n \in 1 .. Len(log)
  PROVE  /\ log[n] \in CheckpointRecord
         /\ log[n].gen \in Nat
         /\ log[n].seq \in Nat
<1>1. log[n] \in CheckpointRecord
  OBVIOUS
<1> QED
  BY <1>1, BoundsAssumption DEF CheckpointRecord

LEMMA HistoryStep == Safe /\ [Next]_vars => CheckpointsFormOneHistory' /\ WritesWithinGeneration'
<1> USE BoundsAssumption
<1> SUFFICES ASSUME Safe, [Next]_vars
             PROVE  CheckpointsFormOneHistory' /\ WritesWithinGeneration'
  OBVIOUS
<1> DEFINE HistoryOf(j) ==
      LET log == checkpoints[j] IN
      /\ \A m, n \in 1 .. Len(log) :
           m < n => log[m].seq < log[n].seq /\ log[m].gen <= log[n].gen
      /\ lastSeq[j] = IF log = <<>> THEN 0 ELSE log[Len(log)].seq
<1> DEFINE LogWithin(j) == \A n \in 1 .. Len(checkpoints[j]) : checkpoints[j][n].gen <= generation[j]
<1> DEFINE EvidenceWithin(j) == evidence[j].kind = "accepted" => evidence[j].gen <= generation[j]
<1>a. TypeOK
  BY DEF Safe
<1>b. \A j \in JobIds : HistoryOf(j) /\ LogWithin(j) /\ EvidenceWithin(j)
  BY DEF Safe, CheckpointsFormOneHistory, WritesWithinGeneration
<1> SUFFICES ASSUME NEW j \in JobIds PROVE HistoryOf(j)' /\ LogWithin(j)' /\ EvidenceWithin(j)'
  BY DEF CheckpointsFormOneHistory, WritesWithinGeneration
<1>c. checkpoints[j] \in Seq(CheckpointRecord) /\ generation[j] \in Nat /\ lastSeq[j] \in Nat
  BY <1>a DEF TypeOK
<1>1. ASSUME NEW w \in Workers, NEW i \in JobIds, NEW d \in 1 .. TTL, PollAndLease(w, i, d)
      PROVE  HistoryOf(j)' /\ LogWithin(j)' /\ EvidenceWithin(j)'
  <2>1. generation'[j] \in Nat /\ generation[j] <= generation'[j]
    BY <1>1, <1>a, <1>c DEF PollAndLease, NextGeneration, TypeOK
  <2>2. evidence[j].gen \in Nat
    BY <1>a DEF TypeOK, Evidence
  <2>3. UNCHANGED <<checkpoints, lastSeq, evidence>>
    BY <1>1 DEF PollAndLease
  <2>4. \A n \in 1 .. Len(checkpoints[j]) : checkpoints[j][n].gen \in Nat
    BY <1>c, EntryTypes
  <2> QED
    BY <1>b, <1>c, <2>1, <2>2, <2>3, <2>4
<1>2. ASSUME NEW g \in grants, NEW s \in 0 .. MaxSeq, NEW token \in BOOLEAN,
             RecordProgress(g, s, token)
      PROVE  HistoryOf(j)' /\ LogWithin(j)' /\ EvidenceWithin(j)'
  <2>1. CASE g.job # j
    <3>1. checkpoints'[j] = checkpoints[j] /\ lastSeq'[j] = lastSeq[j]
      BY <1>2, <1>a, <2>1 DEF RecordProgress, TypeOK
    <3>2. UNCHANGED <<generation, evidence>>
      BY <1>2 DEF RecordProgress
    <3> QED
      BY <1>b, <3>1, <3>2
  <2>2. CASE g.job = j
    <3> DEFINE e == [gen |-> generation[j], seq |-> s]
               log == checkpoints[j]
    <3>1. checkpoints'[j] = Append(log, e) /\ lastSeq'[j] = s
      BY <1>2, <1>a, <2>2 DEF RecordProgress, MaySubmit, HoldsLease, TypeOK
    <3>2. UNCHANGED <<generation, evidence>>
      BY <1>2 DEF RecordProgress
    <3>3. s > lastSeq[j]
      BY <1>2, <2>2 DEF RecordProgress, SequenceAdvances
    <3>4. \A n \in 1 .. Len(log) : /\ log[n] \in CheckpointRecord
                                   /\ log[n].gen \in Nat /\ log[n].seq \in Nat
      BY <1>c, EntryTypes
    <3>5. \A n \in 1 .. Len(log) : log[n].seq <= lastSeq[j] /\ log[n].gen <= generation[j]
      BY <1>b, <1>c, <3>4
    <3>6. /\ Len(Append(log, e)) = Len(log) + 1
          /\ \A n \in 1 .. Len(log) : Append(log, e)[n] = log[n]
          /\ Append(log, e)[Len(log) + 1] = e
          /\ Append(log, e) # <<>>
      BY <1>c
    <3>7. Len(log) \in Nat
      BY <1>c
    <3> HIDE DEF log
    <3>8. e.gen = generation[j] /\ e.seq = s
      OBVIOUS
    <3> HIDE DEF e
    <3>9. HistoryOf(j)'
      <4>1. ASSUME NEW m \in 1 .. Len(checkpoints'[j]), NEW n \in 1 .. Len(checkpoints'[j]), m < n
            PROVE  /\ checkpoints'[j][m].seq < checkpoints'[j][n].seq
                   /\ checkpoints'[j][m].gen <= checkpoints'[j][n].gen
        <5>1. m \in 1 .. Len(log) /\ n \in 1 .. Len(log) + 1
          BY <3>1, <3>6, <3>7, <4>1
        <5>2. CASE n \in 1 .. Len(log)
          BY <1>b, <3>1, <3>6, <4>1, <5>1, <5>2 DEF log
        <5>3. CASE n = Len(log) + 1
          BY <1>c, <3>1, <3>3, <3>4, <3>5, <3>6, <3>8, <5>1, <5>3
        <5> QED
          BY <3>7, <5>1, <5>2, <5>3
      <4>2. lastSeq'[j] = IF checkpoints'[j] = <<>> THEN 0
                          ELSE checkpoints'[j][Len(checkpoints'[j])].seq
        BY <3>1, <3>6, <3>8
      <4> QED
        BY <4>1, <4>2
    <3>10. LogWithin(j)'
      BY <1>c, <3>1, <3>2, <3>5, <3>6, <3>7, <3>8
    <3> QED
      BY <1>b, <3>2, <3>9, <3>10
  <2> QED
    BY <2>1, <2>2
<1>3. ASSUME NEW g \in Grant, NEW k, NEW token,
             MaySubmit(g, token), Completes(g.job, g.gen, k),
             UNCHANGED <<checkpoints, lastSeq, generation>>
      PROVE  HistoryOf(j)' /\ LogWithin(j)' /\ EvidenceWithin(j)'
  <2>1. /\ g.gen = generation[g.job]
        /\ evidence' = [evidence EXCEPT ![g.job] = [gen |-> g.gen, kind |-> "accepted"]]
    BY <1>a, <1>3, CompletionIsFenced
  <2>2. EvidenceWithin(j)'
    BY <1>a, <1>b, <1>c, <1>3, <2>1 DEF TypeOK
  <2> QED
    BY <1>b, <1>3, <2>2
<1>4. ASSUME NEW g \in grants, NEW k \in Keys \cup {NoKey}, NEW token \in BOOLEAN,
             CompleteJob(g, k, token)
      PROVE  HistoryOf(j)' /\ LogWithin(j)' /\ EvidenceWithin(j)'
  <2>1. g \in Grant
    BY <1>a DEF TypeOK
  <2> QED
    BY <1>3, <1>4, <2>1 DEF CompleteJob
<1>5. ASSUME NEW c \in claims, ClaimVerified(c)
      PROVE  HistoryOf(j)' /\ LogWithin(j)' /\ EvidenceWithin(j)'
  <2>1. c.grant \in Grant
    BY <1>a DEF TypeOK, Claim
  <2>2. UNCHANGED <<checkpoints, lastSeq, generation>>
    BY <1>5 DEF ClaimVerified
  <2>3. CASE MaySubmit(c.grant, c.token) /\ ~IsReplay(c.grant.job, c.key)
    BY <1>3, <1>5, <2>1, <2>2, <2>3 DEF ClaimVerified
  <2>4. CASE ~(MaySubmit(c.grant, c.token) /\ ~IsReplay(c.grant.job, c.key))
    BY <1>b, <1>5, <2>2, <2>4 DEF ClaimVerified
  <2> QED
    BY <2>3, <2>4
<1>6. ASSUME NEW c \in claims, ClaimRejected(c)
      PROVE  HistoryOf(j)' /\ LogWithin(j)' /\ EvidenceWithin(j)'
  <2>1. UNCHANGED <<checkpoints, lastSeq, generation>>
    BY <1>6 DEF ClaimRejected
  <2>2. EvidenceWithin(j)'
    BY <1>a, <1>b, <1>6, <2>1 DEF ClaimRejected, TypeOK
  <2> QED
    BY <1>b, <2>1, <2>2
<1>7. CASE UNCHANGED <<checkpoints, lastSeq, generation, evidence>>
  BY <1>b, <1>7
<1>8. \/ \E w \in Workers, i \in JobIds, d \in 1 .. TTL : PollAndLease(w, i, d)
      \/ \E g \in grants, s \in 0 .. MaxSeq, token \in BOOLEAN : RecordProgress(g, s, token)
      \/ \E g \in grants, k \in Keys \cup {NoKey}, token \in BOOLEAN : CompleteJob(g, k, token)
      \/ \E c \in claims : ClaimVerified(c) \/ ClaimRejected(c)
      \/ UNCHANGED <<checkpoints, lastSeq, generation, evidence>>
  BY DEF Next, WorkerRequest, vars, RegisterWorker, EnqueueJob, ClaimCompletion,
         Tick, ReapStaleLeases, RollbackDispatch
<1> QED
  BY <1>1, <1>2, <1>4, <1>5, <1>6, <1>7, <1>8

LEMMA SafeStep == Safe /\ [Next]_vars => Safe'
  BY TypeStep, StatusStep, HolderStep, HistoryStep DEF Safe

-----------------------------------------------------------------------------
LEMMA AlwaysSafe == Spec => []Safe
<1>1. Init => Safe
  BY InitSafe
<1>2. Safe /\ [Next]_vars => Safe'
  BY SafeStep
<1> QED
  BY <1>1, <1>2, PTL DEF Spec

\* Whatever is delayed, repeated or reaped, a job out with a worker has a live
\* lease and a waiting job is safe from its former holder (queue.py,
\* poll_and_lease and reap_stale_leases).
THEOREM StatusAlwaysMatchesLease == Spec => []StatusMatchesLease
<1>1. Safe => StatusMatchesLease
  BY DEF Safe
<1> QED
  BY <1>1, AlwaysSafe, PTL

\* The fencing generation identifies one holder (queue.py, poll_and_lease).
THEOREM GenerationsAreFencingTokens == Spec => []OneHolderPerGeneration
<1>1. Safe => OneHolderPerGeneration
  BY DEF Safe
<1> QED
  BY <1>1, AlwaysSafe, PTL

\* The checkpoints of a job form one history across every disconnection
\* (queue.py, record_progress).
THEOREM HistoryIsKept == Spec => []CheckpointsFormOneHistory
<1>1. Safe => CheckpointsFormOneHistory
  BY DEF Safe
<1> QED
  BY <1>1, AlwaysSafe, PTL

\* Work of generation n of job j is behind the queue: the job's counter has
\* reached n and no completion older than n is in force.  WorkTaken leads here
\* and no step leads away.
Behind(j, n) ==
  /\ n <= generation[j]
  /\ evidence[j].kind = "accepted" => n <= evidence[j].gen

\* A step that accepts a completion accepts that of the current generation, and
\* no step moves a generation back.
LEMMA BehindStep ==
  ASSUME Safe, [Next]_vars, NEW j \in JobIds, NEW n \in Nat, Behind(j, n)
  PROVE  Behind(j, n)'
<1>0. TypeOK
  BY DEF Safe
<1>1. ASSUME NEW g \in Grant, NEW k, NEW token,
             MaySubmit(g, token), Completes(g.job, g.gen, k), UNCHANGED generation
      PROVE  Behind(j, n)'
  <2>1. /\ g.gen = generation[g.job]
        /\ evidence' = [evidence EXCEPT ![g.job] = [gen |-> g.gen, kind |-> "accepted"]]
    BY <1>0, <1>1, CompletionIsFenced
  <2>2. CASE j = g.job
    BY <1>0, <1>1, <2>1, <2>2 DEF Behind, TypeOK
  <2>3. CASE j # g.job
    BY <1>0, <1>1, <2>1, <2>3 DEF Behind, TypeOK
  <2> QED
    BY <2>2, <2>3
<1>2. CASE \E g \in grants, k \in Keys \cup {NoKey}, token \in BOOLEAN : CompleteJob(g, k, token)
  BY <1>0, <1>1, <1>2 DEF CompleteJob, TypeOK
<1>3. ASSUME NEW c \in claims, ClaimVerified(c) PROVE Behind(j, n)'
  <2>1. c.grant \in Grant
    BY <1>0 DEF TypeOK, Claim
  <2>2. CASE MaySubmit(c.grant, c.token) /\ ~IsReplay(c.grant.job, c.key)
    BY <1>1, <1>3, <2>1, <2>2 DEF ClaimVerified
  <2>3. CASE ~(MaySubmit(c.grant, c.token) /\ ~IsReplay(c.grant.job, c.key))
    BY <1>3, <2>3 DEF ClaimVerified, Behind
  <2> QED
    BY <2>2, <2>3
<1>4. ASSUME NEW c \in claims, ClaimRejected(c) PROVE Behind(j, n)'
  BY <1>0, <1>4 DEF ClaimRejected, Behind, TypeOK
<1>5. ASSUME NEW w, NEW i \in JobIds, NEW d, PollAndLease(w, i, d) PROVE Behind(j, n)'
  <2>1. generation'[j] \in {generation[j], generation[j] + 1} /\ UNCHANGED evidence
    BY <1>0, <1>5 DEF PollAndLease, NextGeneration, TypeOK
  <2> QED
    BY <1>0, <2>1 DEF Behind, TypeOK
<1>6. CASE UNCHANGED <<generation, evidence>>
  BY <1>6 DEF Behind
<1>7. \/ \E g \in grants, k \in Keys \cup {NoKey}, token \in BOOLEAN : CompleteJob(g, k, token)
      \/ \E c \in claims : ClaimVerified(c) \/ ClaimRejected(c)
      \/ \E w \in Workers, i \in JobIds, d \in 1 .. TTL : PollAndLease(w, i, d)
      \/ UNCHANGED <<generation, evidence>>
  BY DEF Next, WorkerRequest, vars, RegisterWorker, EnqueueJob, RecordProgress,
         ClaimCompletion, Tick, ReapStaleLeases, RollbackDispatch
<1> QED
  BY <1>2, <1>3, <1>4, <1>5, <1>6, <1>7

\* Once the queue has taken work of a generation, it accepts no completion of an
\* older one for the rest of the behaviour, refused claims in between or not
\* (queue.py, complete_job, and the verified path of worker_verification.py).
THEOREM OlderWorkIsNotAccepted == Spec => AcceptancesMoveForward
<1> SUFFICES ASSUME NEW j \in JobIds, NEW n \in 1 .. MaxGrants
             PROVE  Spec =>
                      [](WorkTaken(j, n) => [](evidence[j].kind = "accepted" => n <= evidence[j].gen))
  BY DEF AcceptancesMoveForward
<1> DEFINE InForce == evidence[j].kind = "accepted" => n <= evidence[j].gen
<1>1. Safe /\ WorkTaken(j, n) => Behind(j, n)
  BY BoundsAssumption DEF Safe, WorkTaken, WritesWithinGeneration, Behind
<1>2. Behind(j, n) => InForce
  BY DEF Behind
<1>3. Safe /\ [Next]_vars /\ Behind(j, n) => Behind(j, n)'
  BY BehindStep, BoundsAssumption
<1> HIDE DEF InForce
<1>4. Spec => [](WorkTaken(j, n) => []InForce)
  BY <1>1, <1>2, <1>3, AlwaysSafe, PTL DEF Spec
<1> QED
  BY <1>4 DEF InForce

\* The queue, its endpoints and the gate together implement the fenced log.
THEOREM QueueImplementsFencedLog == Spec => ImplementsFencedLog
<1>1. Init => Log!Init
  BY DEF Init, Log!Init
<1>2. ASSUME Safe, [Next]_vars
      PROVE  [Log!Next]_<<generation, checkpoints>>
  <2>0. TypeOK /\ CheckpointsFormOneHistory
    BY <1>2 DEF Safe
  <2>1. ASSUME NEW w \in Workers, NEW j \in JobIds, NEW d \in 1 .. TTL, PollAndLease(w, j, d)
        PROVE  Log!Advance(j)
    BY <2>1 DEF PollAndLease, NextGeneration, Log!Advance
  <2>2. ASSUME NEW g \in grants, NEW s \in 0 .. MaxSeq, NEW token \in BOOLEAN,
               RecordProgress(g, s, token)
        PROVE  g.job \in JobIds /\ Log!Extend(g.job)
    <3>1. g.job \in JobIds
      BY <2>0 DEF TypeOK, Grant
    <3>2. Log!LastSeq(g.job) = lastSeq[g.job]
      BY <2>0, <3>1 DEF CheckpointsFormOneHistory, Log!LastSeq
    <3>3. g.gen = generation[g.job] /\ s > lastSeq[g.job]
      BY <2>2 DEF RecordProgress, MaySubmit, HoldsLease, SequenceAdvances
    <3>4. s \in 1 .. MaxSeq
      BY <2>0, <3>1, <3>3, BoundsAssumption DEF TypeOK
    <3> QED
      BY <2>2, <3>1, <3>2, <3>3, <3>4 DEF RecordProgress, Log!Extend
  <2>3. \/ \E w \in Workers, j \in JobIds, d \in 1 .. TTL : PollAndLease(w, j, d)
        \/ \E g \in grants, s \in 0 .. MaxSeq, token \in BOOLEAN : RecordProgress(g, s, token)
        \/ UNCHANGED <<generation, checkpoints>>
    BY <1>2 DEF Next, WorkerRequest, vars, RegisterWorker, EnqueueJob, CompleteJob,
           ClaimCompletion, Tick, ReapStaleLeases, RollbackDispatch, ClaimVerified,
           ClaimRejected
  <2> QED
    BY <2>1, <2>2, <2>3 DEF Log!Next
<1> QED
  BY <1>1, <1>2, AlwaysSafe, PTL DEF Spec, ImplementsFencedLog, Log!Spec
=============================================================================
