SPECIFICATION FairAgentSpec
CONSTANTS
  MaxCycles = 2
  SleepSlices = 1
  MaxArgs = 3
  MaxSetBacks = 1
INVARIANTS
  LocalBeforeRemote
  RunningMeansDelivered
  FailuresReported
  OnceExitHonest
  EventIdsUnique
PROPERTIES
  CtrlCEndsAgent
  ParsesAsUsageSays
CHECK_DEADLOCK FALSE
