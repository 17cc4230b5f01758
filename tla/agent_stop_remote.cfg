CONSTANTS
    Workers = {w1, w2}
    Ids = {a1}
    NoWorker = NoWorker
    Slots = {s1, s2}
    MaxTasks = 2
    Gens = {g1, g2}
    NoGen = NoGen
    NoAgent = NoAgent
    Decisions = {d1}
    NoDecision = NoDecision
    FaultKinds = {"acquire", "start", "release", "crash", "term", "die", "stall"}
    MaxFaults = 1
    MaxCalls = 2
SPECIFICATION Spec
SYMMETRY Symmetry
INVARIANT RemoteStopHolds
CHECK_DEADLOCK FALSE
