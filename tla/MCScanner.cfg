SPECIFICATION Spec
CONSTANTS
    MaxNumberLength = 9
    SimpleKeyLength = 4
    AnyLength = 3
    CoreLength = 5
    Texts <- MCTexts
INVARIANTS TypeOK KeysAreQueued StreamEndIsLast
PROPERTIES KeysAreShort StartsMeetEntries FollowsTokenStream FetchesRead
