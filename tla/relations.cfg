SPECIFICATION FairSpec
CONSTANTS
    None = None
    a = a
    b = b
    Owner <- MCOwner
    ChunkMin = 1
    MaxQueue = 1
    MaxWeight = 1
    Value = {a}
    Key <- OneKey
    KeyOf <- SameKey
    Mutator <- Failing
    RelId = {r1, r2}
    N = 2
    MaxEpoch = 1
    MaxBatch = 2
    MaxAborted = 1
INVARIANTS
    DataflowExact
    RelationsRestored
PROPERTIES
    OutputsOnlyInFlush
    Returns
