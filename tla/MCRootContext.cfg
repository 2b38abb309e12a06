\* Any two documents, one after the other.
CONSTANTS
    Referer <- MCReferer
    UserAgent <- MCUserAgent
    Urlencoded <- MCUrlencoded
    Documents <- MCDocuments
    NoDocument = NoDocument
    MaxConfigures = 2
SPECIFICATION RootSpec
INVARIANTS
    RootTypeOK
    PartsFromOneDocument
PROPERTIES
    RefusalIsAPrefix
    AcceptedPartsApply
\* MaxConfigures is reached, or the VM has trapped.
CHECK_DEADLOCK FALSE
