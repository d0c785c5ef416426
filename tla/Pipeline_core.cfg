SPECIFICATION Spec
CONSTANTS
    Path <- Sides
    ComparePairs <- AndInside
    StopPairs <- Both
    MayThrow <- OnlyRX
    MayVanish <- OnlyRX
    MayCrash = TRUE
    MaxEvents = 6
CHECK_DEADLOCK FALSE
INVARIANTS TypeOK OnePairAtATime
PROPERTIES Pass2ReadsStableRows ServesInOrder
