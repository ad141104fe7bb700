\* A picture of two versions and one of one, a queue of one, two attempts; one failure, catalog update, move and power cut.
CONSTANTS
  Paths <- MCPaths
  MaxQueue = 1
  MaxRetries = 2
  DiskLimit = 2
  DiskKeep = 1
  MaxFails = 1
  MaxRefresh = 1
  MaxMoves = 1
  MaxCrash = 1
CHECK_DEADLOCK FALSE
SPECIFICATION CacheFairSpec
INVARIANTS JobsAgree
PROPERTIES Appears
