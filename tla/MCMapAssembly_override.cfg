SPECIFICATION Spec
CONSTANTS
    CoerceKeys = FALSE
    MergeOverride = TRUE
    MergeWarning = FALSE
    MaxPairs = 3
    Objects <- MCObjects
    Inputs <- MCInputs
INVARIANT UniqueKeys
INVARIANT PlainPairsWin
INVARIANT MatchesDocumentation
INVARIANT LoopsComputeAssembleMap
CHECK_DEADLOCK FALSE
