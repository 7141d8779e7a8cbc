SPECIFICATION FairSpec
CONSTANTS
  HeadLen = 2
  MaxBatch = 2
  Timeouts = {"WAIT"}
  SocketType = "TCP"
  MaxMsgs = 3
PROPERTY NumbersIdentify
CHECK_DEADLOCK FALSE
