\* One order, and nothing goes wrong.
CONSTANTS
    Plans = {p1}
    PerPlan = 1
    Slots = {s1}
    NoOrder = NoOrder
    Kinds = {}
    MaxMishaps = 0
SPECIFICATION FairSpec
PROPERTY PlansResolve
