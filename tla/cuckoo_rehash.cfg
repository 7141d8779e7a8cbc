SPECIFICATION GrowingSpec
CONSTANTS
  CkKeys = {1, 2, 3, 4, 5}
  CkHashes <- MCCkHashes
  CkSize = 3
  CkMaxRows = 6
  CkNone = 0
PROPERTIES
  RehashKeepsAll
CHECK_DEADLOCK FALSE
