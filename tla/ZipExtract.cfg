\* Unpacking over existing files: two attempts, two I/O errors, one power cut.
CONSTANTS
  NoBranch = NoBranch
  Paths <- MCPaths
  Branches = {"X", "Y"}
  Branch <- MCBranch
  Archives <- MCArchives
  OldSizes <- MCOldSizes
  Capacity = 6
  Margin = 1
  MaxOthers = 1
  MaxFaults = 2
  MaxCuts = 1
  MaxAttempts = 2
CHECK_DEADLOCK FALSE
SPECIFICATION Spec
INVARIANTS UsersFilesSurvive SpaceSuffices OutcomeIsTrue
