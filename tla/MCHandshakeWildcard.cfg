\* Both peers are bound to the unspecified address.
SPECIFICATION Spec
CONSTANTS
    Nodes = {1, 2}
    Wildcard = {1, 2}
    Disturbances = {}
    MaxDisturbances = 0
    SynMaxRetries = 1
    DeadLink = 3
    MaxConvs = 2
    MaxSends = 2
    MaxLink = 1
    None = None
INVARIANT Agreement
CHECK_DEADLOCK FALSE
