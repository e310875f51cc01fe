\* A restarted peer, data for recv(), and the end of the tasks.
SPECIFICATION FairSpec
CONSTANTS
    None = None
    Peers = {p1}
    Higher = {p1}
    Conv = {v1, v2}
    Arcs = {a1, a2, a3, a4, a5, a6}
    Callers = {}
    Receivers = {r1}
    RcvWnd = 2
    MaxPending = 3
    SynMaxRetries = 0
INVARIANT SoleReceiverIsAwake
PROPERTIES
    RestartIsFollowedByConnected
    TasksExit
    SleeperIsWoken
