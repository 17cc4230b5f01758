CONSTANTS
    i1 = i1
    i2 = i2
    s1 = s1
    s2 = s2
    Instruments = {i1, i2}
    NoInstrument = NoInstrument
    Modes = {"paper"}
    Intents = {"go_long", "go_short", "go_flat", "increase"}
    Sizes = {1}
    MaxOpenPositions = 1
    BreakerLimit = 1
    Slots = {s1, s2}
    MaxActivities = 3
    FaultKinds = {"limit", "write", "read", "die"}
    MaxFaults = 1
SPECIFICATION Spec
SYMMETRY Symmetry
INVARIANTS RowsTrue LevelsArmed ExitsOnlyClose OpenPositionsLimited CooldownHolds ExitGuardHeld
CHECK_DEADLOCK FALSE
