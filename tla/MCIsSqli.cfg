\* Short texts over the characters of each parser, and texts of words.
CONSTANTS
    Inputs <- MCInputs
    Words <- MCWords
    Phrases <- MCPhrases
    Fingerprints <- MCFingerprints
    Underscored <- MCUnderscored
    Spelling <- Joined
    TokenSize = 8
    Tokens = {}
    MaxRead = 40
SPECIFICATION FairDetectSpec
INVARIANTS
    DetectTypeOK
    WindowInBounds
    ScanAdvances
    StringEndsAtItsQuote
    CommentIsWhole
    QuotedContextIsPrefixedInput
    CountersAreOfThisParse
    NothingLeftUntried
    FingerprintIsInOrder
PROPERTIES
    Decides
    DetectionAdvances
\* The function has returned.
CHECK_DEADLOCK FALSE
