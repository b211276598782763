CONSTANTS
  None = None
  p = p
  notp = notp
  h1 = h1
  h2 = h2
  h3 = h3
  m1 = m1
  m2 = m2
  n1 = n1
  n2 = n2
  s1 = s1
  s2 = s2
  s3 = s3
  s4 = s4
  door = door
  open = open
  cell1 = cell1
  cell2 = cell2
  Tasks = {task}
  Claims = {p, notp}
  Commitments = {promise}
  Missions = {m1, m2}
  Nodes = {a, b, c, d}
  Holders = {h1, h2, h3}
  Resources = {gpu}
  Calls = {call1, call2}
  Models = {r1, r2}
  Conversations = {chat}
  Requests = {q1, q2}
  Recoveries = {rec1, rec2}
  Positions = {builder, critic}
  Work = {n1, n2}
  Seats = {s1, s2, s3, s4}
  Entities = {door, lamp}
  Values = {open, shut}
  Sources = {cam}
  Cells = {cell1, cell2}
  MissionMaximum = 0
  MaxTurns = 1
  MaxSpend = 0
  Contradicts <- MCContradicts
  MissionOf <- MCMissionOf
  Cheap = {r1}
  Local = {r1}
  MaxRequests = 1
  FailureThreshold = 2
  MaxConcurrency = 1
  MaxAttempts = 2
  MaxCandidates = 2
  A2 = {n1}
  Complex = {n2}
  Deps <- MCDeps
  ModelOf <- MCModelOf
  MaxEpoch = 2
  MaxLeases = 3
  MaxVersion = 2
  MaxEntries = 4
  MaxGeneration = 4
  MaxRefs = 2
  MaxRestarts = 1
  MaxObservations = 2
  MaxAssertions = 3
  MaxTime = 1
  MaxResolutions = 1
  MaxRowVersion = 3
  MaxWatches = 1
SPECIFICATION Spec
INVARIANTS ConflictedCanBeArbitrated DeadlocksAreFound OneHolderAtATime
INVARIANTS EachRouteOnce OneLogicalBinding CouncilOfIndependents NewestInForce
PROPERTIES NewestAgentActs ImplementsFencedRegistry
CHECK_DEADLOCK FALSE
