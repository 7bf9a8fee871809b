CONSTANTS
    GateOn <- MCGateOn
    Budget = 2
    MaxText = 2
    MaxDays = 1
SPECIFICATION FairSpec
INVARIANTS
    ScreenAgrees
    GoodTextKept
    CallsPaid
PROPERTIES
    NotTakenBack
    GenerationEnds
