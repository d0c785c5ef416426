SPECIFICATION Spec
CONSTANTS
    ContentOf <- TwoGroups
    Top <- Root
    PageSize = 3
    MaxActs = 3
    Patient = TRUE
CHECK_DEADLOCK FALSE
INVARIANTS ResultsAreCurrent CopiesAreCurrent
PROPERTIES RunIsSeenToEnd
