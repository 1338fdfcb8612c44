\* One client with two subscriptions, the first of which publishes
\* immediately, two data items each without a queue limit.
SPECIFICATION FairDSpec
CONSTANTS
    MaxSubs = 2
    DataItems = {d, e}
    EventItems = {}
    QueueSizes = {0}
    Immediate = {1}
    LifetimeCount = 2
    MaxKeepAliveCount = 1
    NoAcksLimit = 2
    RecursionDepth = 1
    Hints = {"none"}
    MaxRequests = 5
    MaxChanges = 2
    RoundTrip = 1
    MaxCalls = 3
CHECK_DEADLOCK FALSE
INVARIANTS
    OneOpenRequest
    NoExpiryOfTheLiving
PROPERTIES
    StreamsKeepPromise
    EveryNotificationArrives
