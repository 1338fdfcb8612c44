\* Two renewals by the loop of the client, sequence numbers that wrap, and
\* keys that are kept for 125 % of the lifetime (SecurityPolicyBasic256).
SPECIFICATION Spec
CONSTANTS
    Lifetime = 20
    KeyLife = 25
    Timeout = 2
    MaxDelay = 1
    MaxTime = 40
    MaxInFlight = 3
    SeqLimit = 4
    SeqWindow = 2
    Renewers = {"loop"}
INVARIANTS
    NothingRejected
    ClientRevolvesFirst
    RenewalIsComplete
    RenewedBeforeExpiry
