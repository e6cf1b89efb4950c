SPECIFICATION Spec
CONSTANTS
    CoerceKeys = TRUE
    MergeOverride = FALSE
    MergeWarning = TRUE
    MaxPairs = 3
    Objects <- MCObjects
    Inputs <- MCInputs
INVARIANT TypeOK
INVARIANT MatchesDocumentation
CHECK_DEADLOCK FALSE
