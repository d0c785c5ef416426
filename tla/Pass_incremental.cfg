SPECIFICATION Spec
CONSTANTS
    Dirs <- SmallDirs
    Files <- TwoFiles
    Content <- Alike
    SizeOf <- SizesAlike
    PartialOf <- BeginningsAlike
    Initial <- AnyRight
    Modes <- Both
    Unreadable <- SmallFiles
    MayEdit <- SmallFiles
    MayDelete <- None
    MayIgnore <- OnF
    MayUnignore <- None
    StopPhases <- OnListing
    MayCrash = FALSE
    MaxEvents = 4
CHECK_DEADLOCK FALSE
INVARIANTS StatusesShownRight NoNeedlessRead ProgressReachesTotal
