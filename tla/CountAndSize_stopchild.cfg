SPECIFICATION Spec
CONSTANTS
    Path <- Tree
    ScanRoots <- AandB
    StopRoots <- OnlyB
    Denied <- None
    Partial <- None
    MayThrow <- None
    MayVanish <- None
    MayReturn <- None
    MayCrash = FALSE
    MaxEvents = 3
CHECK_DEADLOCK FALSE
INVARIANT StopIsWhole
