\* Every kind of token, streams of up to three.
CONSTANTS
    Tokens <- EveryKind
    Phrases <- MCPhrases
    Underscored <- MCUnderscored
    MaxRead = 3
SPECIFICATION FairSpec
INVARIANTS
    TypeOK
    WindowInBounds
    NoHoleInFingerprint
    CommentEndsFingerprint
    NoTwinsLeft
PROPERTIES
    Terminates
    FoldingAdvances
\* The function has returned.
CHECK_DEADLOCK FALSE
