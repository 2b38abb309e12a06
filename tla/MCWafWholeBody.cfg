\* README lines 100-101: all query parameters in the body are inspected.
CONSTANTS
    Referer <- MCReferer
    UserAgent <- MCUserAgent
    Urlencoded <- MCUrlencoded
    CookieHeader <- MCCookie
    PathHeader <- MCPath
    ContentTypeHeader <- MCContentType
    ServerHeaders <- MCServerHeaders
    DetectSQLi <- MCDetectSQLi
    NoDocument = NoDocument
    NoPolicy = NoPolicy
    Documents <- MCDocuments
    Requests <- LateRequests
    Streams = {s1}
    MaxConfigures = 1
SPECIFICATION Spec
INVARIANTS
    WholeBodyInspected
CHECK_DEADLOCK FALSE
