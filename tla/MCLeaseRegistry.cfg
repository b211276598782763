\* Two processes, one of which may die anywhere; its lock file grows stale.
CONSTANTS
  Procs = {p1, p2}
  Tasks = {t1}
  Nobody = Nobody
  TTL = 1
  MaxTime = 3
  MaxGen = 2
  MaxCrashes = 1
  StaleLocks = "of the dead"
SPECIFICATION FairSpec
INVARIANTS
  OneLiveHolder
PROPERTIES
  CallsReturn
  ImplementsRegistry
CHECK_DEADLOCK FALSE
