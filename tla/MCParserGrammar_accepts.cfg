SPECIFICATION GrammarRunSpec
CONSTANTS
    Scan <- Derive
    ScannerStart <- InitialDerivation
    MaxRun = 10
    MaxTokens = 10
    WithProperties = TRUE
    EmptyPairKey = FALSE
INVARIANTS AcceptsGrammar EventsAsDerived
