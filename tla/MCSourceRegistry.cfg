SPECIFICATION RegistrySpec
CONSTANTS
    u1 = u1
    u2 = u2
    Urls <- MCUrls
    Parallel = 2
    Base = 3
    Cap = 2
    MaxTurns = 2
    MaxBatches = 2
    MaxOthers = 1
    MaxTime = 1
INVARIANTS NumbersHold DetailKept
SYMMETRY Symmetric
CHECK_DEADLOCK FALSE
