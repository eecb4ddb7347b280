SPECIFICATION IpcSpec
CONSTANTS
  desk = desk
  oth = oth
  Desktop = desk
  Clients = {desk, oth}
  Nobody = Nobody
  Waker = Waker
  PipeSize = 2
  MaxVersion = 1
  MaxAsked = 1
  MaxEpoch = 0
INVARIANTS
  LinkAgrees
