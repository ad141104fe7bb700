\* Two jobs of any kind; one fault; three attempts, two on integrity errors.
CONSTANTS
    MaxJobs = 2
    MaxFaults = 1
    MaxAttempts = 3
    MaxIntegrity = 2
    Kind = {"zip", "vpk", "plugin"}
SPECIFICATION Spec
INVARIANTS CancelPreventsInstall PausedResumable
PROPERTIES JobsOwned WorkerReturns
