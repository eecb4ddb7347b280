SPECIFICATION ServerSpec
CONSTANTS
  Clients = {}
  Nobody = Nobody
  Waker = Waker
  PipeSize = 4
  MaxVersion = 0
  MaxAsked = 2
PROPERTIES
  StopReturns
CHECK_DEADLOCK FALSE
