\* Two streams, any two configurations.
CONSTANTS
    Referer <- MCReferer
    UserAgent <- MCUserAgent
    Urlencoded <- MCUrlencoded
    CookieHeader <- MCCookie
    PathHeader <- MCPath
    ContentTypeHeader <- MCContentType
    ServerHeaders <- MCServerHeaders
    DetectSQLi <- MCDetectSQLi
    NoDocument = NoDocument
    NoPolicy = NoPolicy
    Documents <- MCDocuments
    Requests <- MCRequests
    Streams = {s1, s2}
    MaxConfigures = 2
SPECIFICATION Spec
SYMMETRY Symmetry
INVARIANTS
    TypeOK
    ForwardedHeadersClean
    ForwardedChunksClean
    BlockNamesThePart
    BlockedIsRefused
    SnapshotIsCoherent
PROPERTIES
    BlockedIsFinal
    ImplementsGate
\* The VM has trapped and no stream is left.
CHECK_DEADLOCK FALSE
