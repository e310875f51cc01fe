\* An inbound handshake against send().
SPECIFICATION Spec
CONSTANTS
    None = None
    Peers = {p1}
    Higher = {p1}
    Conv = {v1, v2}
    Arcs = {a1, a2, a3, a4, a5, a6}
    Callers = {c1}
    Receivers = {}
    RcvWnd = 1
    MaxPending = 0
    SynMaxRetries = 1
PROPERTY LossOfQueuedDataIsReported
