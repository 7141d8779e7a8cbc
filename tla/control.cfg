SPECIFICATION ControlSpec
CONSTANTS
  NULL = NULL
  OutFormats <- MCOutFormats
  Required <- MCRequired
  Room = 1
  MaxSets = 2
  MaxStores = 2
  MaxBreaks = 1
  Supervisors = {s1, s2, s3}
  NoPeer = NoPeer
  TableSize = 2
  MaxAsks = 1
  MaxConnects = 3
INVARIANTS
  FormatIsKnown
  NegotiatedFormat
  Attended
PROPERTIES
  Reconciled
  Answered
CHECK_DEADLOCK FALSE
