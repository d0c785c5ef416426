SPECIFICATION FairSpec
CONSTANTS
    Dir <- Twins
    File <- TwinFiles
    SizeOf <- LargeSizes
    HeadOf <- LargeHeads
    Threshold = 2
    InitialDisk <- AllSame
    ScanRoots <- JustR
    FolderModes <- WithFolders
    Refreshable <- AAndD
    Deletable <- ADE
    Ignorable <- JustEA
    Edits <- TwinsChange
    Removable <- Nothing
    Flaky <- Nothing
    Rejecting <- Nothing
    CacheHits <- AnyCache
    Overlap = FALSE
    MayCrash = FALSE
    MaxRuns = 2
    MaxEvents = 5
INVARIANT GroupsAreTrue
PROPERTIES ReportsAreExact LastCopyIsKept RunEnds
CHECK_DEADLOCK FALSE
