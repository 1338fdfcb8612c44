\* A subscription with a loop and one that publishes immediately, a data item
\* and an event item each, no queue limit: delivery and liveness.
SPECIFICATION FairSpec
CONSTANTS
    MaxSubs = 2
    DataItems = {1}
    EventItems = {2}
    QueueSizes = {0}
    Immediate = {2}
    LifetimeCount = 1
    MaxKeepAliveCount = 0
    NoAcksLimit = 2
    RecursionDepth = 1
    Hints = {"none"}
    MaxRequests = 2
    MaxChanges = 1
CHECK_DEADLOCK FALSE
PROPERTIES
    PendingLeavesOrSubscriptionEnds
    RequestsAreUsed
    LoopEnds
