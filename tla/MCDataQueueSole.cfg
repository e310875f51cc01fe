\* One task calls recv(), the way the README's examples use it.
SPECIFICATION QueueSpec
CONSTANTS
    Peers = {p1, p2}
    Receivers = {r1}
    RcvWnd = 2
    MaxPending = 4
INVARIANTS
    QueueTypeOK
    SoleReceiverMissesNothing
PROPERTY SleeperIsWoken
