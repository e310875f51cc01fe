\* Every kind of fault, one at a time.
SPECIFICATION FairSpec
CONSTANTS
    Nodes = {1, 2}
    Wildcard = {}
    Disturbances = {"loss", "dup", "reorder", "crash", "close", "overwrite"}
    MaxDisturbances = 1
    SynMaxRetries = 1
    DeadLink = 3
    MaxConvs = 2
    MaxSends = 1
    MaxLink = 1
    None = None
INVARIANTS TypeOK Agreement AckedWasDelivered DataFollowsConnected
PROPERTY SentIsResolved
CHECK_DEADLOCK FALSE
