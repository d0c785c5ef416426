SPECIFICATION Spec
CONSTANTS
    Pairs <- OnePair
    Names <- TwoNames
    Spare <- OneSpare
    Contents <- TwoContents
    Initial <- OneGhost
    MayCreate <- Nobody
    Races = FALSE
    MaxLeftovers = 1
    Loops <- OneLoop
    Patient = TRUE
CHECK_DEADLOCK FALSE
INVARIANTS NoStepIsRefused
