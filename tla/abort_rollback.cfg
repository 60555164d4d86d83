SPECIFICATION Spec
CONSTANTS
    None = None
    a = a
    b = b
    Owner <- MCOwner
    ChunkMin = 1
    MaxQueue = 1
    MaxWeight = 1
    Value = {a, b}
    Key <- OneKey
    KeyOf <- SameKey
    Mutator <- NoMutator
    RelId = {r1}
    N = 1
    MaxEpoch = 1
    MaxBatch = 2
    MaxAborted = 1
INVARIANTS
    RollbackRestoresDataflow
