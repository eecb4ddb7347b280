SPECIFICATION ServerSpec
CONSTANTS
  c1 = c1
  c2 = c2
  Clients = {c1, c2}
  Nobody = Nobody
  Waker = Waker
  PipeSize = 4
  MaxVersion = 1
  MaxAsked = 2
INVARIANTS
  OneInstance
  WorkerOutlivesClients
  RequestsConserved
  ReadsWhenDecoded
  AnswersAreFresh
  WholeFrames
PROPERTIES
  ServesNextClient
  StopEndsBlockedCall
