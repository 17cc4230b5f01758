CONSTANTS
    Workers = {w1, w2}
    Ids = {a1}
    NoWorker = NoWorker
    Slots = {s1, s2}
    MaxTasks = 2
    Gens = {g1, g2}
    NoGen = NoGen
    NoAgent = NoAgent
    Decisions = {}
    NoDecision = NoDecision
    FaultKinds = {"acquire", "start", "release", "crash", "term", "die", "stall"}
    MaxFaults = 1
    MaxCalls = 0
SPECIFICATION LiveSpec
PROPERTY AgentResumes
CHECK_DEADLOCK FALSE
