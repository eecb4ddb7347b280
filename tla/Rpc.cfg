SPECIFICATION FairSpec
CONSTANTS
  Limit = 4
  Names = {"a"}
  Timestamps = {1}
  ProcessIds = {7}
  Callers = {c1, c2}
  Payloads <- MCPayloads
  Foreign <- MCForeign
  MaxArgs = 2
INVARIANTS
  AcceptedIsTrue
  JournalIsClean
PROPERTIES
  SignalEndsServer
CHECK_DEADLOCK FALSE
