\* Two catalogs, two versions, three tab changes, a fault and a restart; the program may end.
CONSTANTS
    Homebrew = homebrew
    Catalog = {homebrew, vita}
    MaxVersion = 2
    MaxSwitches = 3
    MaxFileFaults = 1
    MaxLaunches = 1
CHECK_DEADLOCK FALSE
SPECIFICATION RefreshSpec
INVARIANTS NeverOlder
PROPERTIES KeepsTab Settles WorkerEnds
