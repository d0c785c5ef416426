SPECIFICATION FairSpec
CONSTANTS
    Path <- Tree
    ScanRoots <- AandB
    StopRoots <- AandB
    Denied <- OnlyC
    Partial <- None
    MayThrow <- None
    MayVanish <- OnlyB
    MayReturn <- None
    MayCrash = TRUE
    MaxEvents = 5
CHECK_DEADLOCK FALSE
INVARIANTS TypeOK PendingIsOwned QueueRespectsStop SettledIsWhole
PROPERTIES StoppedIsNotOverwritten PendingSettles
