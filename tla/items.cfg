\* Two subscriptions, the callbacks of one suspend, two tasks that write.
SPECIFICATION Spec
CONSTANTS
    Nodes = {n1}
    Subs = {s1, s2}
    Suspending = {s1}
    Writers = {w1, w2}
    Values = {0, 1}
    Bands = {0, 1}
    MaxItems = 2
CHECK_DEADLOCK FALSE
INVARIANTS
    ItemsAreUpToDate
    LeftoversNeedDeletedNode
