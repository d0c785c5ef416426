SPECIFICATION Spec
CONSTANTS
    Dirs <- KindDirs
    Files <- KindFiles
    Content <- AllContents
    SizeOf <- Sizes
    PartialOf <- Beginnings
    Initial <- AnyRight
    Modes <- Full
    Unreadable <- SmallFiles
    MayEdit <- SmallFiles
    MayDelete <- OnlyK
    MayIgnore <- OnF
    MayUnignore <- OnF
    StopPhases <- Anytime
    MayCrash = TRUE
    MaxEvents = 3
CHECK_DEADLOCK FALSE
INVARIANTS TypeOK StatusesShownRight
