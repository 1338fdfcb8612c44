\* A node that moves from one subscription to another.
SPECIFICATION Spec
CONSTANTS
    u1 = u1
    u2 = u2
    s1 = s1
    s2 = s2
    n1 = n1
    n2 = n2
    Clients <- MCOneClient
    Subs = {s1, s2}
    Nodes = {n1}
    Attrs = {value}
    Subscribable <- MCEither
    Absent = {}
    Levels = {1, 200}
    NoClient = none
    MaxFaults = 0
CHECK_DEADLOCK FALSE
INVARIANT
    ReconciliatorRuns
