SPECIFICATION Spec
CONSTANTS
    CoerceKeys = TRUE
    MergeOverride = FALSE
    MergeWarning = FALSE
    MaxNodes = 4
    MaxDocuments = 2
    Anchors = {"a"}
    Scalars <- MCTaggedScalars
    SequenceTags = {"seq"}
    MappingTags = {"map", "omap"}
    HandlerTags = {"str", "seq"}
    HandlerOutcomes <- MCPlainOutcomes
    EvalExpr = TRUE
INVARIANTS TypeOK StackMirrorsParser OneCellPerDocument NoMarkerEscapes
           FailuresAreRaised HandledErrorsAreNotRaised
PROPERTIES FirstDocumentIsFinal Terminates
CHECK_DEADLOCK FALSE
