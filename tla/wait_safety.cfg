SPECIFICATION Spec
CONSTANTS
  BufferCount = 2
  Capacity = 1
  MaxClients = 2
  Clients = {c1, c2}
  Senders = {s1}
  AutoFlushers = {f1}
  Timeout = "WAIT"
  BufferSwitches = {1}
  MaxMsgs = 3
SYMMETRY Symmetry
INVARIANTS
  ReadsPublished
  Numbered
  NothingLost
  ContainersKept
  DrainedFirst
  CacheIsLow
CHECK_DEADLOCK FALSE
