SPECIFICATION Spec
CONSTANTS
  BufferCount = 2
  Capacity = 1
  MaxClients = 1
  Clients = {c1}
  Senders = {s1}
  AutoFlushers = {}
  Timeout = "NOWAIT"
  BufferSwitches = {1}
  MaxMsgs = 5
INVARIANTS
  SentIntact
CHECK_DEADLOCK FALSE
