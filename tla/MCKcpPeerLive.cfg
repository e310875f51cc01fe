\* Handshakes and queued data come to an end.
SPECIFICATION FairSpec
CONSTANTS
    None = None
    Peers = {p1}
    Higher = {}
    Conv = {v1}
    Arcs = {a1, a2, a3, a4, a5, a6}
    Callers = {c1}
    Receivers = {}
    RcvWnd = 1
    MaxPending = 0
    SynMaxRetries = 1
PROPERTIES
    HandshakeResolves
    QueuedDataIsResolved
