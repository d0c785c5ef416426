SPECIFICATION FairSpec
CONSTANTS
    Dir <- Hollow
    File <- TwinFiles
    SizeOf <- LargeSizes
    HeadOf <- LargeHeads
    Threshold = 2
    InitialDisk <- AllSame
    ScanRoots <- JustR
    FolderModes <- WithFolders
    Refreshable <- AAndD
    Deletable <- Nothing
    Ignorable <- Nothing
    Edits <- Nothing
    Removable <- JustDV
    Flaky <- Nothing
    Rejecting <- Nothing
    CacheHits <- NoCache
    Overlap = FALSE
    MayCrash = FALSE
    MaxRuns = 2
    MaxEvents = 5
PROPERTY FoldersAreTwins
CHECK_DEADLOCK FALSE
