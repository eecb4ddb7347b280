SPECIFICATION FairSpec
CONSTANTS
  Threads = {t1, t2}
  Nobody = Nobody
  MaxLines = 2
  MaxCalls = 1
  MaxOpens = 1
  MaxDiskFull = 1
INVARIANTS
  LinesTogether
  OnlyOwnersLinesAtRisk
  ReasonRecorded
PROPERTIES
  CallsReturn
CHECK_DEADLOCK FALSE
