\* README line 3: the server receives an empty body.
CONSTANTS
    Referer <- MCReferer
    UserAgent <- MCUserAgent
    Urlencoded <- MCUrlencoded
    CookieHeader <- MCCookie
    PathHeader <- MCPath
    ContentTypeHeader <- MCContentType
    ServerHeaders <- MCServerHeaders
    DetectSQLi <- MCDetectSQLi
    NoDocument = NoDocument
    NoPolicy = NoPolicy
    Documents <- MCDocuments
    Requests <- LateRequests
    Streams = {s1}
    MaxConfigures = 1
SPECIFICATION Spec
INVARIANTS
    BlockedBodyIsEmpty
CHECK_DEADLOCK FALSE
