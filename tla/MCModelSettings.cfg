CONSTANTS
    c1 = c1
    c2 = c2
    gemini = gemini
    haiku = haiku
    Off = Off
    Null = Null
    Retired = Retired
    NoCache = NoCache
    NoRow = NoRow
    Callers <- MCCallers
    Selectable <- MCSelectable
    Config <- MCConfig
    SavedRows <- MCRows
    TTL = 2
    MaxSaves = 2
SPECIFICATION FairSpec
INVARIANTS
    FreshAfterEdit
PROPERTY Converges
