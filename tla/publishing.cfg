\* Two subscriptions with a publishing loop and one data item each, a queue
\* that is unlimited or holds two notifications and may be changed from one to
\* the other, requests with a TimeoutHint: safety of the two queues, the
\* numbering and the delivery.
SPECIFICATION Spec
CONSTANTS
    MaxSubs = 2
    DataItems = {1}
    EventItems = {}
    QueueSizes = {0, 2}
    Immediate = {}
    LifetimeCount = 1
    MaxKeepAliveCount = 0
    NoAcksLimit = 1
    RecursionDepth = 2
    Hints = {"fresh"}
    MaxRequests = 3
    MaxChanges = 4
CONSTRAINT BusyAndQuiet
CHECK_DEADLOCK FALSE
INVARIANTS
    TypeOK
    NoIdleRequest
    StarvedIsWaiting
    AnsweredInOrder
    NumberedWithoutGaps
    NothingLostButOverflow
    RetransmissionStore
PROPERTIES
    SilentWhenStopped
    NoOvertaking
