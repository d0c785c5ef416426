SPECIFICATION FairSpec
CONSTANTS
    Path <- Sides
    ComparePairs <- Both
    StopPairs <- OnlySubs
    MayThrow <- None
    MayVanish <- OnlyRX
    MayCrash = TRUE
    MaxEvents = 5
CHECK_DEADLOCK FALSE
PROPERTY RequestsAreServed
