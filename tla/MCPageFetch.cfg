SPECIFICATION FairSpec
CONSTANTS
    Keys = {p1, p2}
    Sides = {s1}
    Callers = {c1, c2}
    MaxEntries = 1
    Ttl = 1
    Slots = 2
    Burst = 1
    Unit = 2
    MaxRetries = 1
    MaxRedirects = 1
    Pause = 1
    MaxFetches = 1
    Window = 2
INVARIANTS RateKept
PROPERTIES FetchIsShared WaitersServed
CHECK_DEADLOCK FALSE
