SPECIFICATION AgentSpec
CONSTANTS
  MaxCycles = 2
  SleepSlices = 1
  MaxArgs = 0
  MaxSetBacks = 0
PROPERTIES
  NoEventAfterStop
CHECK_DEADLOCK FALSE
