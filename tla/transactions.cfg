SPECIFICATION Spec
CONSTANTS
    None = None
    a = a
    b = b
    Owner <- MCOwner
    ChunkMin = 1
    MaxQueue = 1
    MaxWeight = 1
    Value = {a, b}
    Key <- OneKey
    KeyOf <- SameKey
    Mutator <- AtoB
    RelId = {r1}
    N = 2
    MaxEpoch = 2
    MaxBatch = 2
    MaxAborted = 1
INVARIANTS
    TypeOK
    DeltaExact
    DataflowExact
    UndoSucceeds
    RelationsRestored
    DataflowRestored
    CommitComplete
    OneOpenEpoch
    RepliesMatch
    EnabledWhileRunning
