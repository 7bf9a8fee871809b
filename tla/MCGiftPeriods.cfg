SPECIFICATION Spec
CONSTANTS
    Keys = {k1}
    Editors = {e1, e2}
    Near = {e1}
    Readers = {b1}
    Members = {u1}
    LastDay = 3
    MaxRows = 3
INVARIANTS OverlapOnlyByRace ResultsLandRight BannerExplained
CONSTRAINT BannerOrMember
CHECK_DEADLOCK FALSE
