\* A ring of two lines, two threads and five calls; the program may end.
CONSTANTS
    Main = main
    Thread = {main, other}
    Capacity = 2
    MaxCalls = 5
CHECK_DEADLOCK FALSE
SPECIFICATION Spec
INVARIANTS NewestKept NoLostWake
PROPERTIES ShutdownDrains
