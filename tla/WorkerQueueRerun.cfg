\* One job, two leases: a completed job goes out again.
CONSTANTS
  Workers = {w1, w2}
  Keys = {k1}
  MaxJobs = 1
  MaxGrants = 2
  MaxSeq = 2
  TTL = 1
  MaxClaims = 1
  NoKey = NoKey
  NoWorker = NoWorker
SPECIFICATION Spec
PROPERTY CompletedJobsNotRerun
CHECK_DEADLOCK FALSE
