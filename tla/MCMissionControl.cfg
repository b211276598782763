\* One mission, two wakeups, one amendment of the contract.
CONSTANTS
  Missions = {m1}
  Keys = {k1}
  NoKey = NoKey
  MaxVersion = 5
  MaxContract = 2
  MaxWakeups = 2
  MaxTime = 1
SPECIFICATION FairSpec
INVARIANTS
  CommandAppliedOnce
  OneWinnerPerVersion
PROPERTIES
  SleepersAreWoken
CHECK_DEADLOCK FALSE
