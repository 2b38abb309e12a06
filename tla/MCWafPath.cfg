\* README lines 96-101: the path's policy decides on the path, and on nothing else.
CONSTANTS
    Referer <- MCReferer
    UserAgent <- MCUserAgent
    Urlencoded <- MCUrlencoded
    CookieHeader <- MCCookie
    PathHeader <- MCPath
    ContentTypeHeader <- MCContentType
    ServerHeaders <- MCServerHeaders
    DetectSQLi <- MCDetectSQLi
    NoDocument = NoDocument
    NoPolicy = NoPolicy
    Documents <- MCDocuments
    Requests <- HeaderRequests
    Streams = {s1}
    MaxConfigures = 1
SPECIFICATION Spec
INVARIANTS
    PathDecidedByItsPolicy
CHECK_DEADLOCK FALSE
