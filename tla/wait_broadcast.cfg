SPECIFICATION Spec
CONSTANTS
  BufferCount = 2
  Capacity = 1
  MaxClients = 2
  Clients = {c1, c2}
  Senders = {s1}
  AutoFlushers = {}
  Timeout = "WAIT"
  BufferSwitches = {0, 1}
  MaxMsgs = 3
INVARIANTS
  WellFramed
PROPERTIES
  ImplementsBroadcast
CHECK_DEADLOCK FALSE
