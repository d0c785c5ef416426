SPECIFICATION Spec
CONSTANTS
    Path <- Tree
    ScanRoots <- OnlyRoot
    StopRoots <- OnlyRoot
    Denied <- None
    Partial <- None
    MayThrow <- None
    MayVanish <- None
    MayReturn <- None
    MayCrash = FALSE
    MaxEvents = 3
CHECK_DEADLOCK FALSE
INVARIANT StopIsWhole
