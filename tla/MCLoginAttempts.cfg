SPECIFICATION LoginSpec
CONSTANTS
    Requests = {a1, a2, a3}
    MaxFailures = 1
    Window = 1
    MaxTime = 2
INVARIANTS AttemptsBounded OldSessionsEnd
SYMMETRY Symmetric
CHECK_DEADLOCK FALSE
