SPECIFICATION Spec
CONSTANTS
  Reqs = {r1, r2}
  None = None
  MaxParallel = 2
  MaxActive = 2
  Long = {}
  MaxRecoveries = 1
  MaxEdits = 2
  MaxCrashes = 0
PROPERTY MergedIsLatestVerified
CHECK_DEADLOCK FALSE
