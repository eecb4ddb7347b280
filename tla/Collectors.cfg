SPECIFICATION Spec
CONSTANTS
  Limit = 4
  MaxMemory = 2
  Names = {"a"}
  Timestamps = {1}
  ProcessIds = {7}
INVARIANTS
  PercentIsTrue
  CollectedIsAccepted
CHECK_DEADLOCK FALSE
