SPECIFICATION ViewSpec
CONSTANTS
  Snapshots <- AgentSnapshots
  Faults = {}
  MaxAsked = 2
INVARIANTS
  OldDataMarked
