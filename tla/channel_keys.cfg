\* Keys that are kept for the lifetime (the policies other than Basic256).
SPECIFICATION Spec
CONSTANTS
    Lifetime = 20
    KeyLife = 20
    Timeout = 2
    MaxDelay = 1
    MaxTime = 40
    MaxInFlight = 2
    SeqLimit = 4
    SeqWindow = 2
    Renewers = {"loop"}
INVARIANTS
    NothingRejected
