\* A subscription that expires on the publish request it waited for.
SPECIFICATION Spec
CONSTANTS
    MaxSubs = 1
    DataItems = {1}
    EventItems = {}
    QueueSizes = {0}
    Immediate = {}
    LifetimeCount = 1
    MaxKeepAliveCount = 0
    NoAcksLimit = 2
    RecursionDepth = 2
    Hints = {"none"}
    MaxRequests = 2
    MaxChanges = 1
CHECK_DEADLOCK FALSE
PROPERTIES
    RequestResetsCycleCount
