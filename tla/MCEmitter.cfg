SPECIFICATION Spec
CONSTANTS
    ImplicitTag <- FindImplicitTag
    Precision = 2
    BestIndent = 2
    BestWidth = 5
    SimpleKeyLimit = 128
    IndentMappingSequence = FALSE
    MaxNodes = 3
    MaxSpecial = 1
    MaxFaults = 2
INVARIANTS TypeOK IndentsFollowNesting GoodStreamsAreWritten RoundTrip OutcomesAreTrue ValuesComeBack
PROPERTIES ImplementsContract RefusalIsFinal
