SPECIFICATION StoresSpec
CONSTANTS
  NumIn = 2
  NumOut = 2
  BufferCount = 2
  Capacity = 1
  MaxClients = 1
  Clients = {c1}
  Senders = {s1}
  AutoFlushers = {}
  Timeout = "NOWAIT"
  BufferSwitches = {1}
  MaxMsgs = 4
  FileConfigs <- MCFileConfigs
  IndexMod = 3
  Stamp <- MCStamp
  PerFile = 1
  PerBuffer = 1
  FileFormats = {"u", "j", "bad"}
  JsonFormats = {"j"}
  Refused = {"bad"}
  Existing <- MCExisting
  MaxOffers = 3
  MaxChanges = 1
  MaxFaults = 1
  StaticNames <- MCStaticNames
  StaticTypes <- MCStaticTypes
  FieldNames = {"a", "b", "c"}
  FieldTypes = {"int", "str"}
  BadType = "bad"
  DataFmts <- MCDataFmts
  Room = 1
  MaxFields = 3
  UrHandles = {h1}
  Undefined = "none"
  UrTemplates <- MCUrTemplates
  UrSize <- MCUrSize
  UrNames <- MCUrNames
  UrBytes = {"tag"}
  UrRecords = {r1, r2}
  Texts <- MCTexts
  Elements = {1}
  ArrayAlloc = 2
  MaxVarLen = 2
  Junk = 0
  Bits = 3
  MaxNetworks = 4
  PyTemplates = {p1, p2}
  Buffers = {b1, b2, b3}
  None = None
  TrapBuffer = TrapBuffer
  Order = 3
  BptKeys = {1, 2, 3, 4, 5, 6}
  NoNode = NoNode
  FhtThreads = {t1, t2}
  FhtKeys = {k1, k2, k3, k4, k5, k6}
  HashRow <- MCHashRow
  TableRows = 1
  StashSize = 1
  FhtStashed = TRUE
  NoKey = NoKey
  FhfKeys = {1, 2, 3}
  Hashes <- MCHashes
  FhfCols = 2
  MaxRows = 8
  NoTable = NoTable
  Empty = Empty
  Strings <- MCStrings
  Separator = "."
  Relaxations = {TRUE, FALSE}
  JustOnes = 2
  UsedFrom = 2
  MaxCalls = 4
  TrPayloads = {1, 3}
  TrTimeouts = {"WAIT", "SOME"}
  TrMaxMade = 2
  TrMaxLinks = 2
  CkKeys = {1, 2, 3, 4, 5}
  CkHashes <- MCCkHashes
  CkSize = 3
  CkMaxRows = 6
  CkNone = 0
VIEW StoresView
INVARIANTS
  CleanEnd
  OnlyLeaksDrainPool
  Archive
  ReadBack
  TemplatesResolve
  FieldsRead
  PrefixesFound
  DataAlive
  TreeHolds
  KeptInOrder
  IterationComplete
  FilterKeeps
  TrieFinds
  TlsReadWhole
  CuckooFinds
CHECK_DEADLOCK FALSE
