\* Two servers whose service levels come and go: which one is active, and
\* what is wanted of each.
SPECIFICATION FairSpec
CONSTANTS
    u1 = u1
    u2 = u2
    s1 = s1
    s2 = s2
    n1 = n1
    n2 = n2
    Clients <- MCTwoClients
    Subs = {s1}
    Nodes = {}
    Attrs = {value}
    Subscribable = {}
    Absent = {}
    Levels = {1, 200}
    NoClient = none
    MaxFaults = 0
CHECK_DEADLOCK FALSE
INVARIANTS
    IdealFollowsActive
PROPERTIES
    FailsOver
