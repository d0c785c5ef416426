SPECIFICATION PagesSpec
CONSTANTS
    PageSize = 2
    MaxAutoPages = 2
    Rank <- Ranks
    Queries <- TwoQueries
    Names <- FiveNames
    Openings <- OpenP
    Directories <- FiveAndNone
    Filters <- MatchingOnly
    Statuses <- ThreeMatch
    MaxChanges = 2
    MayFail = TRUE
    MayBeLost = FALSE
    Steady = TRUE
    Patient = TRUE
    EntryNames <- AllNames
    Folders <- AllFolders
    Trees <- TwoTrees
    Starts <- OneOpen
    Syncs = {TRUE}
    Outcomes = {"ok", "unreadable"}
    CrossDevice = TRUE
    Apart = TRUE
    ListedAtOnce = 9
    MaxOperations = 2
    Tree <- ThreeBelow
    Start <- Deep
    RowsAtOnce = 1
    MayRefuse = FALSE
    MaxScanActs = 3
    ContentOf <- TwoGroups
    Top <- Slash
    GroupsAtOnce = 3
    MaxDuplicateActs = 3
CHECK_DEADLOCK FALSE
INVARIANTS OneLiveFetch RowsAreTheListing EnoughIsVisible ShownIsCurrent PageIsCurrent ResultsAreCurrent
PROPERTIES NothingIsLost WhatIsShownEnds
