SPECIFICATION Spec
CONSTANTS
    t1 = t1
    t2 = t2
    d1 = d1
    d2 = d2
    a = a
    b = b
    s1 = s1
    NoId = NoId
    Free = Free
    Nobody = Nobody
    Turns <- MCTwoTurns
    Deletes <- MCDeletes
    Servers <- MCTwoServers
    Known <- MCKnown
    Asks <- MCOneSession
    MaxAppends = 1
SYMMETRY Symmetry
INVARIANTS
    NobodyStuck
    SavedTurnKept
    DeletedNotContinued
PROPERTIES
    HiddenStaysQuiet
    CollisionsExplained
