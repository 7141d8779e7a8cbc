SPECIFICATION Spec
CONSTANTS
  HeadLen = 2
  MaxBatch = 2
  Timeouts = {"WAIT", "SOME"}
  SocketType = "TCP"
  MaxMsgs = 3
INVARIANT SizeIsPayload
CHECK_DEADLOCK FALSE
