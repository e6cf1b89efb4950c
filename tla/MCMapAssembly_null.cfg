SPECIFICATION Spec
CONSTANTS
    CoerceKeys = FALSE
    MergeOverride = FALSE
    MergeWarning = FALSE
    MaxPairs = 3
    Objects <- MCObjects
    Inputs <- MCInputs
INVARIANT NoDuplicateKey
CHECK_DEADLOCK FALSE
