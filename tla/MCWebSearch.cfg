CONSTANTS
    t1 = t1
    t2 = t2
    msg = msg
    Messages = {msg}
    Turns <- MCTurns
    TurnOf <- MCTurnOf
    MsgOf <- MCMsgOf
    Configured <- MCConfigured
    Requests <- MCRequests
    MaxPrefetches = 2
    MaxAttempts = 2
CHECK_DEADLOCK FALSE
SPECIFICATION SearchFairSpec
INVARIANTS
    ServedOncePerTurn
PROPERTIES
    OutcomeHonest
    OnlyLateRelease
    SearchesEnd
