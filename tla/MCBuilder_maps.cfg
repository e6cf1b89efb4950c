SPECIFICATION Spec
CONSTANTS
    CoerceKeys = FALSE
    MergeOverride = TRUE
    MergeWarning = FALSE
    MaxNodes = 7
    MaxDocuments = 1
    Anchors = {}
    Scalars <- MCMapScalars
    SequenceTags = {"omap"}
    MappingTags = {"map"}
    HandlerTags = {}
    HandlerOutcomes <- MCNoOutcomes
    EvalExpr = FALSE
INVARIANTS MapsHaveUniqueKeys InternalErrorsUnreachable
CHECK_DEADLOCK FALSE
