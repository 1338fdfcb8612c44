\* modify_monitored_items makes the size smaller than the queue.
SPECIFICATION Spec
CONSTANTS
    MaxSubs = 1
    DataItems = {1}
    EventItems = {}
    QueueSizes = {0, 1}
    Immediate = {}
    LifetimeCount = 1
    MaxKeepAliveCount = 0
    NoAcksLimit = 2
    RecursionDepth = 2
    Hints = {"none"}
    MaxRequests = 1
    MaxChanges = 3
CHECK_DEADLOCK FALSE
PROPERTIES
    QueueWithinSize
