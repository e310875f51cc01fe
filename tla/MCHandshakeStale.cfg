\* A SYN that is sent after its sender has yielded.
SPECIFICATION Spec
CONSTANTS
    Nodes = {1, 2}
    Wildcard = {}
    Disturbances = {}
    MaxDisturbances = 0
    SynMaxRetries = 1
    DeadLink = 3
    MaxConvs = 2
    MaxSends = 2
    MaxLink = 1
    None = None
PROPERTY AgreedSessionSurvives
CHECK_DEADLOCK FALSE
