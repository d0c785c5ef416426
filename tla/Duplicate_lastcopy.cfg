SPECIFICATION FairSpec
CONSTANTS
    Dir <- Twins
    File <- TwinFiles
    SizeOf <- LargeSizes
    HeadOf <- LargeHeads
    Threshold = 2
    InitialDisk <- AllSame
    ScanRoots <- JustR
    FolderModes <- WithFolders
    Refreshable <- Nothing
    Deletable <- TwinCopies
    Ignorable <- Nothing
    Edits <- Nothing
    Removable <- Nothing
    Flaky <- Nothing
    Rejecting <- Nothing
    CacheHits <- NoCache
    Overlap = FALSE
    MayCrash = FALSE
    MaxRuns = 2
    MaxEvents = 4
PROPERTY LastCopyIsKept
CHECK_DEADLOCK FALSE
