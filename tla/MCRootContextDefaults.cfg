\* README lines 98-99: a part nothing is passed for has the default policy.
CONSTANTS
    Referer <- MCReferer
    UserAgent <- MCUserAgent
    Urlencoded <- MCUrlencoded
    Documents <- MCDocuments
    NoDocument = NoDocument
    MaxConfigures = 2
SPECIFICATION RootSpec
INVARIANTS
    UnnamedPartsDefault
CHECK_DEADLOCK FALSE
