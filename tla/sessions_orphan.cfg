\* A second session on a connection that has one.
SPECIFICATION Spec
CONSTANTS
    Conns = {c1, c2}
    MaxSessions = 3
    MaxSubs = 2
    MaxConnections = 2
    PerConnection = 2
    Immediate = {}
CHECK_DEADLOCK FALSE
INVARIANTS
    NothingLeftInService
