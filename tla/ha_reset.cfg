\* A round between the reset of a url and the end of its session: the client
\* never gets back what was created in between (not one of the runs).
SPECIFICATION FairSpec
CONSTANTS
    u1 = u1
    u2 = u2
    s1 = s1
    s2 = s2
    n1 = n1
    n2 = n2
    Clients <- MCOneClient
    Subs = {s1}
    Nodes = {}
    Attrs = {value}
    Subscribable = {}
    Absent = {}
    Levels = {1, 200}
    NoClient = none
    MaxFaults = 0
CHECK_DEADLOCK FALSE
PROPERTY
    ConvergesAnyway
