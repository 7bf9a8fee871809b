CONSTANTS
    p1 = p1
    p2 = p2
    x = x
    y = y
    z = z
    ma = ma
    mb = mb
    Procs <- MCProcs
    Texts <- MCTexts
    About <- MCAbout
    LastDay = 2
    MaxRows = 3
    PerSlot = 2
    PoolDays = 0
    MaxEvents = 1
CHECK_DEADLOCK FALSE
SPECIFICATION FairSpec
INVARIANTS
    ServedAfterOk
PROPERTIES
    SavesInClaimOrder
    OffStaysOff
    RunEnds
