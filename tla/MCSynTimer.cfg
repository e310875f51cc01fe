\* As the defaults are to each other: the retry interval 1.5 ticks, the
\* idle timeout long after the retries; two retries, one clock jump.
SPECIFICATION Spec
CONSTANTS
    TickInterval = 2
    SynRetryInterval = 3
    SynMaxRetries = 2
    SessionTimeout = 13
    MaxLate = 1
    JumpBy = 3
    MaxJumps = 1
    MaxArrivals = 1
    MaxNow = 40
    None = None
INVARIANTS TypeOK HandshakeEnds SilenceIsNoticed
PROPERTIES RetrySpacing HandshakeGetsItsTime SilenceIsReal
