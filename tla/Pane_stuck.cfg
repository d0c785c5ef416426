SPECIFICATION Spec
CONSTANTS
    PageSize = 2
    MaxAutoPages = 4
    Rank <- Ranks
    Queries <- OneDirectory
    Names <- SixNames
    Openings <- OpenP
    Directories <- AllSix
    Filters <- MatchingOnly
    Statuses <- MoreMatch
    MaxChanges = 2
    MayFail = FALSE
    MayBeLost = FALSE
    Steady = FALSE
CHECK_DEADLOCK FALSE
INVARIANTS EnoughIsVisible
