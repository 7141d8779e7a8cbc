SPECIFICATION SendersSpec
CONSTANTS
  BufferCount = 2
  MaxClients = 1
  Clients = {c1}
  Senders = {s1}
  AutoFlushers = {f1}
  BufferSwitches = {1}
PROPERTIES
  WaitEnds
  Delivered
  TerminateEnds
  StoreEnds
  Advances
CHECK_DEADLOCK FALSE
