\* One server, one subscription, two nodes (one of which does not exist) with two
\* attributes, two failures: the maps of the reconciliator, and that they agree.
SPECIFICATION FairSpec
CONSTANTS
    u1 = u1
    u2 = u2
    s1 = s1
    s2 = s2
    n1 = n1
    n2 = n2
    Clients <- MCOneClient
    Subs = {s1}
    Nodes = {n1, n2}
    Attrs = {value, timestamp}
    Subscribable <- MCOneSub
    Absent <- MCAbsent
    Levels = {1, 200}
    NoClient = none
    MaxFaults = 2
CHECK_DEADLOCK FALSE
INVARIANTS
    LookupsSucceed
    RoundAchieves
PROPERTIES
    Converges
