\* Three calls that may be retries of one another, each failure once or twice.
CONSTANTS
    Calls = {c1, c2, c3}
    Replicas = {p1, p2}
    Keys = {k1}
    Requests = {q1, q2}
    Results = {x1, x2}
    NoRequest = NoRequest
    NoResult = NoResult
    NoCall = NoCall
    FaultKinds = {"begin", "complete", "die"}
    MaxFaults = 2
SPECIFICATION FairSpec
INVARIANTS TypeOK AtMostOnce AnswersAgree NoSpuriousError InProgressIsReal
PROPERTIES KeepsContract EveryCallEnds
CHECK_DEADLOCK FALSE
