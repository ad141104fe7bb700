\* Installing a package: two installations, four faults, two power cuts.
CONSTANTS
  Packages <- MCPackages
  MaxFaults = 4
  MaxCuts = 2
  MaxInstalls = 2
CHECK_DEADLOCK FALSE
SPECIFICATION FairSpec
INVARIANTS FailureKeepsApp
PROPERTIES WholeAppStays StagingReclaimed
