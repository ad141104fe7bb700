\* Three versions, two changes of the release, two faults, three whims of the user.
CONSTANTS
    MaxClient = 3
    MaxReleases = 2
    MaxFailures = 2
    MaxWhims = 3
SPECIFICATION UpdateFairSpec
INVARIANTS AppliedIsWhole
PROPERTIES UpdatedAtLast
