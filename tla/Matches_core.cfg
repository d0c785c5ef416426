SPECIFICATION Spec
CONSTANTS
    Pairs <- TwoPairs
    Names <- FourNames
    Spare <- TwoSpare
    Contents <- FourContents
    Initial <- Many
    MayCreate <- OnlyName2
    Races = FALSE
    MaxLeftovers = 1
    Loops <- OneLoop
    Patient = TRUE
CHECK_DEADLOCK FALSE
INVARIANTS TypeOK MatchesAreBest PlanWorks ModalIsTrue
PROPERTIES NothingIsLost SearchIsShownToEnd
