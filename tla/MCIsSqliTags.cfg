\* libinjection_sqli.c:1068: where a string between tags ends.
CONSTANTS
    Inputs <- TaggedInputs
    Words <- MCWords
    Phrases <- MCPhrases
    Fingerprints <- MCFingerprints
    Underscored <- MCUnderscored
    Spelling <- Joined
    TokenSize = 8
    Tokens = {}
    MaxRead = 40
SPECIFICATION DetectSpec
INVARIANTS
    TaggedStringEndsAtItsTag
\* The function has returned.
CHECK_DEADLOCK FALSE
