SPECIFICATION MCSpec
CONSTANTS
  r1 = r1
  r2 = r2
  Reqs = {r1, r2}
  None = None
  MaxParallel = 2
  MaxActive = 2
  Long = {r1}
  MaxRecoveries = 2
  MaxEdits = 2
  MaxCrashes = 1
  Services = {api, db}
  MaxStarts = 3
  MaxRestarts = 2
  Callers = {c1, c2}
  MaxId = 3
  MaxProcesses = 2
  MaxOutput = 1
INVARIANT BaseVerified
INVARIANT IntegrationSeesAll
INVARIANT BoundWorktreesExist
INVARIANT StoppedIsGone
INVARIANT AnswersOwnQuestion
CHECK_DEADLOCK FALSE
PROPERTY ImplementsVerifiedDelivery
