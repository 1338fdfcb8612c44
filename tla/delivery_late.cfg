\* A lifetime one cycle shorter than a round trip for each subscription: one
\* that the client uses expires.
SPECIFICATION DSpec
CONSTANTS
    MaxSubs = 2
    DataItems = {d, e}
    EventItems = {}
    QueueSizes = {0}
    Immediate = {1}
    LifetimeCount = 1
    MaxKeepAliveCount = 1
    NoAcksLimit = 2
    RecursionDepth = 1
    Hints = {"none"}
    MaxRequests = 5
    MaxChanges = 2
    RoundTrip = 1
    MaxCalls = 3
CHECK_DEADLOCK FALSE
INVARIANT TheLivingAreKnown
