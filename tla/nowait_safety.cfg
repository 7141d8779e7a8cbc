SPECIFICATION Spec
CONSTANTS
  BufferCount = 2
  Capacity = 1
  MaxClients = 1
  Clients = {c1, c2}
  Senders = {s1}
  AutoFlushers = {}
  Timeout = "NOWAIT"
  BufferSwitches = {1}
  MaxMsgs = 6
SYMMETRY Symmetry
INVARIANTS
  SentIntactUntilMiss
  SkippedCounted
CHECK_DEADLOCK FALSE
