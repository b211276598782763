\* One job through three leases; two jobs with smaller bounds (MCWorkerQueue).
CONSTANTS
  Workers = {w1, w2}
  Keys = {k1}
  MaxJobs = 2
  MaxGrants = 3
  MaxSeq = 2
  TTL = 2
  MaxClaims = 1
  NoKey = NoKey
  NoWorker = NoWorker
SPECIFICATION MCSpec
INVARIANTS
  CheckpointsFormOneHistory
PROPERTIES
  AcceptancesMoveForward
  ImplementsFencedLog
  AbandonedJobsReturn
CHECK_DEADLOCK FALSE
