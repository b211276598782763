\* Two dispatchers over two rows, two handlers, two attempts, one rollback.
CONSTANTS
  Dispatchers = {d1, d2}
  Handlers = {h1, h2}
  MaxRows = 2
  BatchSize = 2
  MaxRetries = 2
  MaxAborts = 1
  MaxFailures = 3
SPECIFICATION FairSpec
INVARIANTS
  DeliveredWereSeen
PROPERTIES
  Settles
CHECK_DEADLOCK FALSE
