SPECIFICATION FairSpec
CONSTANTS
    Scan <- Deliver
    ScannerStart <- InitialScanner
    MaxRun = 6
    MaxTokens = 6
    PlainTokens <- AllPlain
    TagHandles = {"", "!e!"}
    DirectiveHandles = {"!e!", "!!"}
    Versions = {"compatible", "incompatible"}
INVARIANTS TypeOK FirstTokenIsThere StatesMatchDocument MarksFollowStates
           DirectivesAreLocal
PROPERTIES ProducesGrammar Terminates
