\* Two parts of two blocks, two versions, a resume, three network failures, one of the storage; the job ends.
CONSTANTS
    Kinds <- AllKinds
    Parts = 2
    PartLen = 2
    MaxVersion = 2
    MaxAttempts = 2
    MaxOuter = 2
    MaxRetry = 1
    MaxSessions = 2
    MaxFaults = 1
CHECK_DEADLOCK FALSE
SPECIFICATION Spec
INVARIANTS CompletedIsWhole CheckpointHonest
PROPERTIES SessionEnds
