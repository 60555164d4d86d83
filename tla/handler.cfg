SPECIFICATION FairSpec
CONSTANTS
    None = None
    Thread = {t1, t2}
    Row = {x, y}
    DoStore = TRUE
    Serialised = TRUE
    MaxTxns = 2
INVARIANTS
    TypeOK
    DumpCommitted
    ChangesExact
    HandlerAlternates
PROPERTIES
    CallsReturn
