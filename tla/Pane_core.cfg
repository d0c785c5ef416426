SPECIFICATION Spec
CONSTANTS
    PageSize = 2
    MaxAutoPages = 2
    Rank <- Ranks
    Queries <- TwoQueries
    Names <- FiveNames
    Openings <- OpenP
    Directories <- FiveAndNone
    Filters <- MatchingOnly
    Statuses <- ThreeMatch
    MaxChanges = 2
    MayFail = TRUE
    MayBeLost = FALSE
    Steady = TRUE
CHECK_DEADLOCK FALSE
INVARIANTS TypeOK OneLiveFetch RowsAreTheListing EnoughIsVisible
PROPERTIES LoadingEnds
