CONSTANTS
    t1 = t1
    t2 = t2
    t3 = t3
    gemini = gemini
    haiku = haiku
    NoModel = NoModel
    None = None
    Turns <- MCTurns
    Models <- MCModels
    Requests <- MCNoRequest
    Choices <- MCChoices
    Cooldown = 3
    MaxTime = 2
SYMMETRY Symmetry
SPECIFICATION Spec
PROPERTIES
    NoFlap
    AlarmMeansUnseen
    LateCooldownOnly
