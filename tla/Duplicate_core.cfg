SPECIFICATION FairSpec
CONSTANTS
    Dir <- OneDir
    File <- ThreeFiles
    SizeOf <- Sizes
    HeadOf <- Heads
    Threshold = 2
    InitialDisk <- TwoSame
    ScanRoots <- JustR
    FolderModes <- NoFolders
    Refreshable <- AAndD
    Deletable <- Nothing
    Ignorable <- JustD
    Edits <- AGrowsDAShrinks
    Removable <- JustD
    Flaky <- JustA
    Rejecting <- JustD
    CacheHits <- NoCache
    Overlap = FALSE
    MayCrash = TRUE
    MaxRuns = 2
    MaxEvents = 5
INVARIANTS TypeOK OneRunAtATime GroupsAreTrue IgnoredIsNotReported
PROPERTIES FindsEveryDuplicate
CHECK_DEADLOCK FALSE
