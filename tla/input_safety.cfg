SPECIFICATION FairSpec
CONSTANTS
  HeadLen = 2
  MaxBatch = 2
  Timeouts = {"WAIT", "SOME"}
  SocketType = "TCP"
  MaxMsgs = 3
INVARIANTS
  Accounted
  InPlace
  UnreadInOrder
PROPERTIES
  NumbersGrow
  CallEnds
CHECK_DEADLOCK FALSE
