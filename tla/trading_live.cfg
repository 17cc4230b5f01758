CONSTANTS
    i1 = i1
    s1 = s1
    s2 = s2
    Instruments = {i1}
    NoInstrument = NoInstrument
    Modes = {"live"}
    Intents = {"go_long", "go_short", "decrease"}
    Sizes = {0, 1}
    MaxOpenPositions = 1
    BreakerLimit = 1
    Slots = {s1, s2}
    MaxActivities = 2
    FaultKinds = {"mark", "refuse", "timeout", "write", "drop", "close", "sum"}
    MaxFaults = 1
SPECIFICATION Spec
SYMMETRY Symmetry
INVARIANTS TypeOK PositionTrue TrackersTrue
CHECK_DEADLOCK FALSE
