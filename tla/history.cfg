\* One value per page, and values that are evicted by age and by number.
SPECIFICATION FairSpec
CONSTANTS
    Period = 2
    Count = 2
    PageSize = 1
    Limits = {0, 2}
    MaxTime = 5
    MaxDelay = 1
    MaxSaved = 3
    MaxPages = 5
CHECK_DEADLOCK FALSE
INVARIANTS
    RetentionIsExact
    ReadIsComplete
PROPERTIES
    ReadEnds
