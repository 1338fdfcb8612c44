\* The application renews the channel too, beside the loop.
SPECIFICATION Spec
CONSTANTS
    Lifetime = 20
    KeyLife = 25
    Timeout = 2
    MaxDelay = 1
    MaxTime = 40
    MaxInFlight = 2
    SeqLimit = 4
    SeqWindow = 2
    Renewers = {"loop", "app"}
INVARIANTS
    NothingRejected
