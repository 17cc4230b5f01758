\* Two plans of one order each and one mishap of any kind.
CONSTANTS
    Plans = {p1, p2}
    PerPlan = 1
    Slots = {s1}
    NoOrder = NoOrder
    Kinds = {"overlap", "stop_loss", "timeout", "unanswered", "undrained",
             "blind", "database"}
    MaxMishaps = 1
SPECIFICATION Spec
INVARIANTS TypeOK WriteAhead StatusTruth ResolvedIsOver OneLivePlan OutcomeIsTrue
PROPERTY VerdictsStand
SYMMETRY Symmetry
