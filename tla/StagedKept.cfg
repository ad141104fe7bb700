\* A doc against the code: staged files after a move failed. One attempt, one I/O error.
CONSTANTS
  NoBranch = NoBranch
  Paths <- MCPaths
  Branches = {"X", "Y"}
  Branch <- MCBranch
  Archives <- MCArchives
  OldSizes <- MCOldSizes
  Capacity = 6
  Margin = 1
  MaxOthers = 0
  MaxFaults = 1
  MaxCuts = 0
  MaxAttempts = 1
CHECK_DEADLOCK FALSE
SPECIFICATION Spec
INVARIANTS StagedWorkKept
