SPECIFICATION Spec
CONSTANTS
    None = None
    a = a
    b = b
    Value = {a, b}
    Key <- OneKey
    KeyOf <- SameKey
    Mutator <- AtoB
    Dynamic = TRUE
    MaxCalls = 4
    MaxBatch = 2
INVARIANTS
    ReplayMatches
CHECK_DEADLOCK FALSE
