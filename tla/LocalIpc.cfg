SPECIFICATION FairIpcSpec
CONSTANTS
  desk = desk
  Desktop = desk
  Clients = {desk}
  Nobody = Nobody
  Waker = Waker
  PipeSize = 3
  MaxVersion = 1
  MaxAsked = 2
  MaxEpoch = 1
PROPERTIES
  KeepsChannelPromise
  IsClientEnvironment
  CatchesUp
