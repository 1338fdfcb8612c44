\* A chunk holds 35 bytes of an encrypted message, 36 or 46 of a
\* signed one, and 56 or 66 of a message without security.
SPECIFICATION FairSpec
CONSTANTS
    ServerLimits <- MCServerLimits
    Hellos <- MCHellos
    Cryptos <- MCCryptos
    Lengths = {36, 100}
    OpenSizes = {70, 95}
    MaxMessages = 2
    MaxAborts = 1
CHECK_DEADLOCK FALSE
INVARIANTS
    LimitsHold
    DeliveredWhole
PROPERTIES
    SentArrives
