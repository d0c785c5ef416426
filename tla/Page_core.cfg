SPECIFICATION Spec
CONSTANTS
    PageSize = 9
    MaxAutoPages = 1
    Rank <- ByName
    Names <- AllNames
    Folders <- AllFolders
    Trees <- TwoTrees
    Starts <- OneOpen
    Syncs = {TRUE}
    Outcomes = {"ok", "unreadable"}
    CrossDevice = TRUE
    MaxActs = 2
    Patient = TRUE
    Apart = TRUE
CHECK_DEADLOCK FALSE
INVARIANTS ShownIsCurrent
PROPERTIES NothingIsLost ActivityEnds
