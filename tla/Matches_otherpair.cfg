SPECIFICATION Spec
CONSTANTS
    Pairs <- TwoPairs
    Names <- TwoNames
    Spare <- OneSpare
    Contents <- TwoContents
    Initial <- OneSwap
    MayCreate <- Nobody
    Races = FALSE
    MaxLeftovers = 2
    Loops <- TwoLoops
    Patient = FALSE
CHECK_DEADLOCK FALSE
INVARIANTS PlanIsOfPair
