\* One slot a process, but every failure and race: is a running row taken up?
CONSTANTS
    Workers = {w1, w2}
    Ids = {b1}
    NoWorker = NoWorker
    Slots = {s1}
    Gens = {g1}
    NoGen = NoGen
    NoBot = NoBot
    FaultKinds = {"acquire", "factory", "start", "mark", "release", "crash", "halt", "die", "send", "stall", "restore"}
    MaxFaults = 1
    RaceKinds = {"reentered", "stalled", "unrenewed", "overlap", "stale_start", "late_mark", "missed_stop", "stale_read", "rollback"}
    MaxRaces = 9
    Calls = {c1}
    Ops = {"start", "stop", "restart"}
SPECIFICATION FairSpec
CHECK_DEADLOCK FALSE
PROPERTIES RunningResumes
