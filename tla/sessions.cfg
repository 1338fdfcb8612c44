\* Two connections, each with up to two sessions, and a subscription without a
\* loop: the count, and what is left when a connection is lost.
SPECIFICATION FairSpec
CONSTANTS
    Conns = {c1, c2}
    MaxSessions = 3
    MaxSubs = 2
    MaxConnections = 2
    PerConnection = 2
    Immediate = {2}
CHECK_DEADLOCK FALSE
INVARIANTS
    CountIsExact
    OnlyReplacedAreLeft
PROPERTIES
    LostConnectionEndsSubscriptions
