CONSTANTS
    i1 = i1
    s1 = s1
    s2 = s2
    Instruments = {i1}
    NoInstrument = NoInstrument
    Modes = {"live"}
    Intents = {"go_long"}
    Sizes = {0, 1}
    MaxOpenPositions = 1
    BreakerLimit = 1
    Slots = {s1, s2}
    MaxActivities = 2
    FaultKinds = {}
    MaxFaults = 0
SPECIFICATION Spec
INVARIANTS LevelsArmed
CHECK_DEADLOCK FALSE
