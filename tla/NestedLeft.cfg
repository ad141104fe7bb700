\* One installation of a package inside a package, one fault.
CONSTANTS
  Packages = {"nested"}
  MaxFaults = 1
  MaxCuts = 0
  MaxInstalls = 1
CHECK_DEADLOCK FALSE
SPECIFICATION Spec
INVARIANTS NoCopyLeft
