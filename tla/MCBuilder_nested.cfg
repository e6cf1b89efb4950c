SPECIFICATION Spec
CONSTANTS
    CoerceKeys = TRUE
    MergeOverride = FALSE
    MergeWarning = FALSE
    MaxNodes = 5
    MaxDocuments = 2
    Anchors = {"a"}
    Scalars <- MCOneScalar
    SequenceTags = {"seq"}
    MappingTags = {"map"}
    HandlerTags = {"str"}
    HandlerOutcomes <- MCNestedOutcomes
    EvalExpr = FALSE
INVARIANT HandledErrorsAreNotRaised
CHECK_DEADLOCK FALSE
