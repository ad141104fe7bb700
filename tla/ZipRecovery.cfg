\* Archives of two and of four ranges that want one name and one an older client left; three faults.
CONSTANTS
    j1 = j1
    j2 = j2
    j3 = j3
    Job = {j1, j2, j3}
    NoJob = NoJob
    Parts <- TwoFourOne
    Legacy = {j3}
    NumBases = 2
    MaxFaults = 3
SPECIFICATION Spec
INVARIANTS NoLoss
PROPERTIES NeverOverwrites RecoveryCompletes HeldUntilDropped
