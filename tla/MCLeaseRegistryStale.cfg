\* Three processes: one dies with the lock, and two break its lock file.
CONSTANTS
  Procs = {p1, p2, p3}
  Tasks = {t1}
  Nobody = Nobody
  TTL = 1
  MaxTime = 0
  MaxGen = 2
  MaxCrashes = 1
  StaleLocks = "of the dead"
SPECIFICATION Spec
SYMMETRY Symmetry
INVARIANTS
  OneHolderPerGeneration
CHECK_DEADLOCK FALSE
