\* A process is told to stop while it starts a bot for a job.  No failure.
CONSTANTS
    Workers = {w1, w2}
    Ids = {b1}
    NoWorker = NoWorker
    Slots = {s1}
    Gens = {g1}
    NoGen = NoGen
    NoBot = NoBot
    FaultKinds = {}
    MaxFaults = 0
    RaceKinds = {"unrenewed"}
    MaxRaces = 1
    Calls = {c1}
    Ops = {"start"}
SPECIFICATION Spec
INVARIANT OneWorker
CHECK_DEADLOCK FALSE
