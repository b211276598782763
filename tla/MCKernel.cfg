CONSTANTS
  a1 = a1
  look = look
  write = write
  config = config
  m1 = m1
  w1 = w1
  s1 = s1
  s2 = s2
  Actions = {a1}
  Keys = {key}
  Tools = {look, write}
  Targets = {config, secret}
  Patterns = {config, secret}
  Payloads = {payload}
  BatchLimit = 1
  Files = {f1}
  AnyTarget = AnyTarget
  Brain = Brain
  Costs = {10}
  DiskLevels = {50, 95}
  ActionTool <- MCActionTool
  ActionTarget <- MCActionTarget
  ToolClass <- MCToolClass
  Ceilings <- MCCeilings
  Budget = 10
  Contents = {v1, v2}
  Ids = {i}
  Statements = {t1, t2}
  Kernels = {k1, k2, k3}
  Pair = {k1, k2}
  Rows = {row1}
  Clients = {c1}
  Missions = {m1}
  Wakeups = {w1}
  Agents = {agent}
  Schedulers = {s1, s2}
  WakeupOf <- MCWakeupOf
  EpochOf <- MCEpochOf
  Consoles = {console1, console2}
  MaxReplayBuffer = 1
  None = None
  MaxClock = 1
  MaxRevisions = 1
  MaxTokens = 1
  MaxLedger = 2
  ApprovalEvents = 1
  MaxCheckpoints = 2
  MaxEdits = 2
  MaxContracts = 3
  MaxEvents = 2
  MaxWrites = 2
  MaxVersion = 3
  MaxGeneration = 2
  MaxSequence = 2
  MaxRestarts = 1
SPECIFICATION Spec
INVARIANTS RunsAsReviewed EffectsAudited JournalInOrder
INVARIANTS UndoneContentIsBack ConstraintsKept
INVARIANTS DeadEpochsHoldNothing ReadyLedgerIsChained NothingMissed
PROPERTIES RecoveryResumesSleepers ImplementsEpochFence
CHECK_DEADLOCK FALSE
