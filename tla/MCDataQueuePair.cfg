\* Two tasks share the KcpPeer and both call recv().
SPECIFICATION QueueSpec
CONSTANTS
    Peers = {p1, p2}
    Receivers = {r1, r2}
    RcvWnd = 2
    MaxPending = 3
PROPERTY SleeperIsWoken
