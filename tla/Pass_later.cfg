SPECIFICATION Spec
CONSTANTS
    Dirs <- SmallDirs
    Files <- SmallFiles
    Content <- Alike
    SizeOf <- SizesAlike
    PartialOf <- BeginningsAlike
    Initial <- TwoAlike
    Modes <- Full
    Unreadable <- None
    MayEdit <- None
    MayDelete <- None
    MayIgnore <- None
    MayUnignore <- None
    StopPhases <- OnHash
    MayCrash = FALSE
    MaxEvents = 3
CHECK_DEADLOCK FALSE
INVARIANTS LaterCompareIsRight
