SPECIFICATION FairSpec
CONSTANTS
    None = None
    Thread = {t1, t2}
    Row = {x, y}
    DoStore = TRUE
    Serialised = FALSE
    MaxTxns = 2
PROPERTIES
    CallsReturn
CHECK_DEADLOCK FALSE
