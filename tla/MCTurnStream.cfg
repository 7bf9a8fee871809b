CONSTANTS
    Entry <- MCSession
    Nothing = Nothing
    MaxText = 2
    MaxCalls = 1
    MaxCallRetries = 1
SPECIFICATION FairSpec
INVARIANTS
    WireInOrder
    EndRecorded
PROPERTIES
    ContractHolds
    TurnEnds
