\* Expiry of a subscription without a loop.
SPECIFICATION Spec
CONSTANTS
    MaxSubs = 1
    DataItems = {1, 2, 3}
    EventItems = {}
    QueueSizes = {1}
    Immediate = {1}
    LifetimeCount = 1
    MaxKeepAliveCount = 0
    NoAcksLimit = 2
    RecursionDepth = 2
    Hints = {"none"}
    MaxRequests = 1
    MaxChanges = 1
CHECK_DEADLOCK FALSE
PROPERTIES
    ExpiredLeavesService
