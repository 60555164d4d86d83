SPECIFICATION Spec
CONSTANTS
    None = None
    a = a
    b = b
    Value = {a, b}
    Key <- OneKey
    KeyOf <- SameKey
    Mutator <- AtoB
    Dynamic = FALSE
    MaxCalls = 5
    MaxBatch = 2
INVARIANTS
    ReplayMatches
    ReplayStops
CHECK_DEADLOCK FALSE
