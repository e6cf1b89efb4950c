SPECIFICATION GrammarRunSpec
CONSTANTS
    Scan <- Derive
    ScannerStart <- InitialDerivation
    MaxRun = 9
    MaxTokens = 9
    WithProperties = FALSE
    EmptyPairKey = TRUE
INVARIANTS AcceptsGrammar
