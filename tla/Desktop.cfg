SPECIFICATION ViewFairSpec
CONSTANTS
  Snapshots <- FewSnapshots
  Faults = {"badLength", "corrupt"}
  MaxAsked = 2
INVARIANTS
  TimersFollowSocket
  FramesAligned
  SpinnerHasCause
  OldMetricFlagged
  HonestStatus
PROPERTIES
  OneBackoffStep
  ProtocolErrorHasCause
  KeepsReceiving
  LostDataStaysMarked
  SpinnerEnds
