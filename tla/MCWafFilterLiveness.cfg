\* Every stream is answered; two streams, a document that may stop the VM between any two callbacks.
CONSTANTS
    Referer <- MCReferer
    UserAgent <- MCUserAgent
    Urlencoded <- MCUrlencoded
    CookieHeader <- MCCookie
    PathHeader <- MCPath
    ContentTypeHeader <- MCContentType
    ServerHeaders <- MCServerHeaders
    DetectSQLi <- MCDetectSQLi
    NoDocument = NoDocument
    NoPolicy = NoPolicy
    Documents <- TwoStreamDocuments
    Requests <- TwoStreamRequests
    Streams = {s1, s2}
    MaxConfigures = 2
SPECIFICATION FairSpec
PROPERTIES
    EveryStreamIsAnswered
\* The VM has trapped and no stream is left.
CHECK_DEADLOCK FALSE
