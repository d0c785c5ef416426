SPECIFICATION Spec
CONSTANTS
    Path <- Tree
    ScanRoots <- AandB
    StopRoots <- None
    Denied <- None
    Partial <- OnlyC
    MayThrow <- OnlyB
    MayVanish <- BandC
    MayReturn <- BandC
    MayCrash = TRUE
    MaxEvents = 6
CHECK_DEADLOCK FALSE
INVARIANT FaultsLeaveNoGap
