SPECIFICATION FairSpec
CONSTANTS
    r1 = r1
    r2 = r2
    c1 = c1
    Requests <- MCRequests
    Chats <- MCChats
    ResponseTTL = 1
    NegativeTTL = 1
    SeedTTL = 2
    RowsTTL = 1
    Patience = 1
    MaxGens = 2
    MaxTime = 3
INVARIANTS
    ServedFresh
PROPERTIES
    OneForAll
    StayersAnswered
