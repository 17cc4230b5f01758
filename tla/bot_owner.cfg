CONSTANTS
    Workers = {w1, w2}
    Ids = {b1}
    NoWorker = NoWorker
    Slots = {s1, s2}
    Gens = {g1, g2}
    NoGen = NoGen
    NoBot = NoBot
    FaultKinds = {"acquire", "factory", "start", "mark", "release", "crash", "halt", "die", "send"}
    MaxFaults = 1
    RaceKinds = {"overlap", "stale_start"}
    MaxRaces = 1
    Calls = {c1}
    Ops = {"start", "stop", "restart", "stop_bot"}
SPECIFICATION Spec
SYMMETRY Symmetry
INVARIANTS TypeOK OneOwner RunningIsLeased RunningIsRegistered NoPoisonedStart StoppedStaysStopped CrashedNeverRuns
CHECK_DEADLOCK FALSE
