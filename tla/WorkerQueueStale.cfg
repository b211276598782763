\* One job, two leases: a late verdict decides the second one.
CONSTANTS
  Workers = {w1, w2}
  Keys = {k1}
  MaxJobs = 1
  MaxGrants = 2
  MaxSeq = 2
  TTL = 1
  MaxClaims = 1
  NoKey = NoKey
  NoWorker = NoWorker
SPECIFICATION Spec
PROPERTY StaleUpdatesRejected
CHECK_DEADLOCK FALSE
