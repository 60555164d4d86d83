SPECIFICATION Spec
CONSTANTS
    None = None
    a = a
    b = b
    Owner <- MCOwner
    ChunkMin = 1
    MaxQueue = 1
    MaxWeight = 1
    Value = {a, b}
    Key <- TwoKeys
    KeyOf <- OwnKey
    Mutator <- AtoB
    RelId = {r1}
    N = 1
    MaxEpoch = 2
    MaxBatch = 1
    MaxAborted = 0
INVARIANTS
    UndoSucceeds
