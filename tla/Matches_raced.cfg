SPECIFICATION Spec
CONSTANTS
    Pairs <- OnePair
    Names <- TwoNames
    Spare <- OneSpare
    Contents <- TwoContents
    Initial <- OneSwapRaced
    MayCreate <- OnlyName2
    Races = TRUE
    MaxLeftovers = 1
    Loops <- OneLoop
    Patient = TRUE
CHECK_DEADLOCK FALSE
PROPERTIES NothingIsLost
