----------------------------- MODULE WafFilter -----------------------------
(***************************************************************************)
(* WAF_wasm.cc: the filter between Envoy and the upstream server.  Every   *)
(* HTTP stream has a context that copies the root context's configuration  *)
(* when it is created and then answers the host's callbacks: the request's *)
(* headers in one call, its body in as many as the network cuts it into,   *)
(* the response's headers, and the end of the stream.  The streams share   *)
(* one VM, whose root context may be reconfigured between any two calls.   *)
(*                                                                         *)
(* The host is not in this repository.  It is modelled from the callbacks  *)
(* and the return values WAF_wasm.cc uses: what Continue lets pass goes    *)
(* upstream at once, nothing passes after a local reply, and a stream can  *)
(* be reset at any moment.                                                 *)
(***************************************************************************)
EXTENDS RootContext, HttpParser, Sqli

CONSTANTS
    Streams,                \* stream slots of the host; a slot is used again
    Requests,               \* requests clients may send: [headers, body]
    CookieHeader,           \* "cookie"
    PathHeader,             \* ":path"
    ContentTypeHeader,      \* "content-type"
    ServerHeaders           \* names of the headers of an upstream response

VARIABLES
    phase,                  \* where the stream is in its callbacks
    request,                \* what the client sent
    config,                 \* ExampleContext::config_
    content_type_,          \* ExampleContext::content_type_
    unread,                 \* the part of the body not yet delivered
    upstream,               \* what the server has received of the request
    blocked,                \* the part onSQLi was called for, or "no"
    response                \* what the client has received

streamVars == <<phase, request, config, content_type_, unread, upstream,
                blocked, response>>
vars == <<rootVars, streamVars>>

ASSUME RequestsAssumption ==
    Requests \subseteq [headers : Seq(Str \X Str), body : Str]

Phases == {"free", "created", "open", "sent", "blocked", "failed"}
NoRequest == [headers |-> << >>, body |-> << >>]
NoResponse == [code |-> "none", headers |-> {}]

(* getRequestHeader: the value of a header, empty when there is none. *)
Header(req, name) ==
    LET at == {i \in DOMAIN req.headers : req.headers[i][1] = name}
    IN  IF at = {} THEN << >> ELSE req.headers[Min(at)][2]

(* The loop over getRequestHeaderPairs: emplace keeps the first of several *)
(* headers with one name.                                                  *)
HeaderParams(req) ==
    [name \in {req.headers[i][1] : i \in DOMAIN req.headers} |-> Header(req, name)]

-----------------------------------------------------------------------------
Init ==
    /\ RootInit
    /\ phase = [s \in Streams |-> "free"]
    /\ request = [s \in Streams |-> NoRequest]
    /\ config = [s \in Streams |-> DefaultConfig]
    /\ content_type_ = [s \in Streams |-> << >>]
    /\ unread = [s \in Streams |-> << >>]
    /\ upstream = [s \in Streams |-> [headers |-> FALSE, body |-> << >>]]
    /\ blocked = [s \in Streams |-> "no"]
    /\ response = [s \in Streams |-> NoResponse]

Running == vm # "trapped"

Reconfigure(document) == OnConfigure(document) /\ UNCHANGED streamVars

(* onCreate: a new context object, with a copy of the root's configuration. *)
OnCreate(s, req) ==
    /\ vm = "serving"
    /\ phase[s] = "free"
    /\ phase' = [phase EXCEPT ![s] = "created"]
    /\ request' = [request EXCEPT ![s] = req]
    /\ unread' = [unread EXCEPT ![s] = req.body]
    /\ config' = [config EXCEPT ![s] = root]
    /\ UNCHANGED <<rootVars, content_type_, upstream, blocked, response>>

(* onSQLi: a local reply.  It reaches the client only if no response has   *)
(* begun; the host forwards nothing of the request any more.               *)
onSQLi_NoReply(s, part) ==
    /\ blocked' = [blocked EXCEPT ![s] = part]
    /\ phase' = [phase EXCEPT ![s] = "blocked"]
    /\ UNCHANGED response
onSQLi_StreamGoesOn(s, part) ==
    /\ blocked' = [blocked EXCEPT ![s] = part]
    /\ phase' = [phase EXCEPT ![s] = "open"]
    /\ response' = [response EXCEPT ![s] = [code |-> "403", headers |-> {}]]
onSQLi(s, part) ==
    /\ blocked' = [blocked EXCEPT ![s] = part]
    /\ phase' = [phase EXCEPT ![s] = "blocked"]
    /\ response' = [response EXCEPT ![s] =
                       IF @ = NoResponse THEN [code |-> "403", headers |-> {}] ELSE @]

(* The checks of onRequestHeaders, in order.  Line 129 hands the cookies,  *)
(* not the parameters of the path, to the check under the path policy.     *)
HeaderVerdict_CookiesFirst(req, cfg) ==
    IF detectSQLiOnParams(parseCookie(Header(req, CookieHeader)), cfg["cookie"]) THEN "cookie"
    ELSE IF detectSQLiOnParams(HeaderParams(req), cfg["header"]) THEN "header"
    ELSE "no"
HeaderVerdict_CookiePolicy(req, cfg) ==
    LET cookies == parseCookie(Header(req, CookieHeader))
    IN  IF detectSQLiOnParams(HeaderParams(req), cfg["cookie"]) THEN "header"
        ELSE IF detectSQLiOnParams(cookies, cfg["cookie"]) THEN "cookie"
        ELSE IF detectSQLiOnParams(cookies, cfg["path"]) THEN "path"
        ELSE "no"
HeaderVerdict(req, cfg) ==
    LET cookies == parseCookie(Header(req, CookieHeader))
    IN  IF detectSQLiOnParams(HeaderParams(req), cfg["header"]) THEN "header"
        ELSE IF detectSQLiOnParams(cookies, cfg["cookie"]) THEN "cookie"
        ELSE IF detectSQLiOnParams(cookies, cfg["path"]) THEN "path"
        ELSE "no"

OnRequestHeaders(s) ==
    LET verdict == HeaderVerdict(request[s], config[s])
    IN  /\ Running
        /\ phase[s] = "created"
        /\ \/ /\ verdict # "no"
              /\ onSQLi(s, verdict)
              /\ UNCHANGED <<content_type_, upstream>>
           \/ /\ verdict = "no"
              /\ content_type_' = [content_type_ EXCEPT ![s] =
                                      Header(request[s], ContentTypeHeader)]
              /\ upstream' = [upstream EXCEPT ![s].headers = TRUE]
              /\ phase' = [phase EXCEPT ![s] =
                              IF unread[s] = << >> THEN "sent" ELSE "open"]
              /\ UNCHANGED <<blocked, response>>
        /\ UNCHANGED <<rootVars, request, config, unread>>

(* Is the buffer of this call refused?  Each buffer is parsed by itself. *)
BodyVerdict_RootConfig(s, buffer) ==
    /\ content_type_[s] = Urlencoded
    /\ detectSQLiOnParams(parseBody(buffer), root["body"])
BodyVerdict(s, buffer) ==
    /\ content_type_[s] = Urlencoded
    /\ detectSQLiOnParams(parseBody(buffer), config[s]["body"])

(* onRequestBody on the next n bytes. *)
OnRequestBody(s, n) ==
    LET buffer == SubSeq(unread[s], 1, n)
        rest   == SubSeq(unread[s], n + 1, Len(unread[s]))
    IN  /\ Running
        /\ phase[s] = "open"
        /\ unread' = [unread EXCEPT ![s] = rest]
        /\ \/ /\ BodyVerdict(s, buffer)
              /\ onSQLi(s, "body")
              /\ UNCHANGED upstream
           \/ /\ ~ BodyVerdict(s, buffer)
              /\ upstream' = [upstream EXCEPT ![s].body = Append(@, buffer)]
              /\ phase' = [phase EXCEPT ![s] = IF rest = << >> THEN "sent" ELSE "open"]
              /\ UNCHANGED <<blocked, response>>
        /\ UNCHANGED <<rootVars, request, config, content_type_>>

(* onResponseHeaders: the server answers, perhaps before it has the whole  *)
(* body.  The callback logs the headers and changes none.                  *)
OnResponseHeaders(s) ==
    /\ Running
    /\ phase[s] \in {"open", "sent"}
    /\ response[s] = NoResponse
    /\ response' = [response EXCEPT ![s] = [code |-> "200", headers |-> ServerHeaders]]
    /\ UNCHANGED <<rootVars, phase, request, config, content_type_, unread,
                   upstream, blocked>>

(* The VM has trapped: the host fails the streams that still need it. *)
HostFail(s) ==
    /\ ~ Running
    /\ \/ phase[s] \in {"created", "open"}
       \/ phase[s] = "sent" /\ response[s] = NoResponse
    /\ phase' = [phase EXCEPT ![s] = "failed"]
    /\ response' = [response EXCEPT ![s] =
                       IF @ = NoResponse THEN [code |-> "503", headers |-> {}] ELSE @]
    /\ UNCHANGED <<rootVars, request, config, content_type_, unread, upstream, blocked>>

(* onDone, onLog and onDelete, and the destruction of the context. *)
Destroy(s) ==
    /\ phase' = [phase EXCEPT ![s] = "free"]
    /\ request' = [request EXCEPT ![s] = NoRequest]
    /\ config' = [config EXCEPT ![s] = DefaultConfig]
    /\ content_type_' = [content_type_ EXCEPT ![s] = << >>]
    /\ unread' = [unread EXCEPT ![s] = << >>]
    /\ upstream' = [upstream EXCEPT ![s] = [headers |-> FALSE, body |-> << >>]]
    /\ blocked' = [blocked EXCEPT ![s] = "no"]
    /\ response' = [response EXCEPT ![s] = NoResponse]
    /\ UNCHANGED rootVars

OnDelete(s) ==
    /\ phase[s] \in {"sent", "blocked", "failed"}
    /\ response[s] # NoResponse
    /\ Destroy(s)

(* Either side resets the stream. *)
Reset(s) ==
    /\ phase[s] \in {"created", "open", "sent"}
    /\ Destroy(s)

Chunks(s) == 1 .. Len(unread[s])

StreamNext(s) ==
    \/ \E req \in Requests : OnCreate(s, req)
    \/ OnRequestHeaders(s)
    \/ \E n \in Chunks(s) : OnRequestBody(s, n)
    \/ OnResponseHeaders(s)
    \/ HostFail(s)
    \/ OnDelete(s)
    \/ Reset(s)

Next ==
    \/ \E document \in Documents \cup {NoDocument} : Reconfigure(document)
    \/ \E s \in Streams : StreamNext(s)

Spec == Init /\ [][Next]_vars

(* The host's event loop delivers what it has received, a server answers,  *)
(* and a finished stream is destroyed.  Nothing forces a client to open a  *)
(* stream, a configuration to change or a stream to be reset.              *)
Fairness ==
    \A s \in Streams :
        /\ WF_vars(OnRequestHeaders(s))
        /\ WF_vars(\E n \in Chunks(s) : OnRequestBody(s, n))
        /\ WF_vars(OnResponseHeaders(s))
        /\ WF_vars(HostFail(s))
        /\ WF_vars(OnDelete(s))

FairSpec == Spec /\ Fairness

-----------------------------------------------------------------------------
(* What the configuration promises, read off README lines 95-98: with an   *)
(* include the given names are inspected, with an exclude all the others.  *)
Inspected(policy, name) == (name \in policy.keys) = policy.include

Clean(params, policy) ==
    \A name \in DOMAIN params :
        Inspected(policy, name) => ~ DetectSQLi(name) /\ ~ DetectSQLi(params[name])

(* The policy of a part that leaves out no name. *)
Everything == [include |-> FALSE, keys |-> {}]

HeadersClean(req, policy) ==
    \A i \in DOMAIN req.headers :
        LET name == req.headers[i][1]
        IN  /\ Inspected(policy, name)
            /\ \A j \in DOMAIN req.headers : j < i => req.headers[j][1] # name
            => ~ DetectSQLi(name) /\ ~ DetectSQLi(req.headers[i][2])

CookiesOf(req) == parseCookie(Header(req, CookieHeader))
PathParamsOf(req) == parsePath(Header(req, PathHeader))
BodyInspected(req) == Header(req, ContentTypeHeader) = Urlencoded
Received(s) == FlattenSeq(upstream[s].body)

TypeOK ==
    /\ RootTypeOK
    /\ phase \in [Streams -> Phases]
    /\ request \in [Streams -> Requests \cup {NoRequest}]
    /\ config \in [Streams -> [Parts -> [include : BOOLEAN, keys : SUBSET Str]]]
    /\ content_type_ \in [Streams -> Str]
    /\ unread \in [Streams -> Str]
    /\ upstream \in [Streams -> [headers : BOOLEAN, body : Seq(Str)]]
    /\ blocked \in [Streams -> {"no", "header", "cookie", "path", "body"}]
    /\ response \in [Streams -> {NoResponse} \cup
                          [code : {"200", "403", "503"}, headers : {{}, ServerHeaders}]]

(* The server has the headers of a request only if the header and cookie   *)
(* policies, as they were when the stream was created, find nothing in     *)
(* them, whatever was configured or served in the meantime.  It is about   *)
(* onCreate's copy of the configuration and the order of the checks before *)
(* onRequestHeaders returns Continue.                                      *)
ForwardedHeadersClean ==
    \A s \in Streams : upstream[s].headers =>
        /\ HeadersClean(request[s], config[s]["header"])
        /\ Clean(CookiesOf(request[s]), config[s]["cookie"])

(* Every piece of a form body the server has was found clean by the body   *)
(* policy of the stream's creation.  It is about content_type_, recorded   *)
(* by one callback and read by the later ones of the same stream only.     *)
ForwardedChunksClean ==
    \A s \in Streams : BodyInspected(request[s]) =>
        \A i \in DOMAIN upstream[s].body :
            Clean(parseBody(upstream[s].body[i]), config[s]["body"])

(* A stream is blocked for a reason, and the parts checked before the one  *)
(* named are clean.  What is blocked for its headers, its cookies or its   *)
(* body holds an injection in that part where its policy inspects it; for  *)
(* the body it is in the very buffer after what the server has.  What is   *)
(* blocked for its path holds one in the path where its policy inspects    *)
(* it, or else in a cookie that the cookies' policy leaves out: the check  *)
(* of line 129 is under the path's name and inspects the cookies.          *)
BlockNamesThePart ==
    \A s \in Streams :
        LET headersClean == HeadersClean(request[s], config[s]["header"])
            cookiesClean == Clean(CookiesOf(request[s]), config[s]["cookie"])
            buffer == SubSeq(request[s].body, Len(Received(s)) + 1,
                             Len(request[s].body) - Len(unread[s]))
        IN  /\ blocked[s] = "header" => ~ headersClean
            /\ blocked[s] = "cookie" => headersClean /\ ~ cookiesClean
            /\ blocked[s] = "path" =>
                  /\ headersClean /\ cookiesClean
                  /\ \/ ~ Clean(PathParamsOf(request[s]), config[s]["path"])
                     \/ ~ Clean(CookiesOf(request[s]), Everything)
            /\ blocked[s] = "body" =>
                  /\ headersClean /\ cookiesClean /\ BodyInspected(request[s])
                  /\ ~ Clean(parseBody(buffer), config[s]["body"])

(* Nothing of a request blocked for its headers reaches the server, and    *)
(* its client is told 403; one blocked for its body is told 403 unless the *)
(* server's answer was already on its way.  It is about the return values  *)
(* that go with the local reply.                                           *)
BlockedIsRefused ==
    \A s \in Streams :
        /\ blocked[s] \in {"header", "cookie", "path"} =>
              /\ ~ upstream[s].headers /\ upstream[s].body = << >>
              /\ response[s].code = "403"
        /\ blocked[s] = "body" => response[s].code \in {"403", "200"}

(* From the local reply to the end of the stream no step gives the server  *)
(* another byte or the client another answer.  It is about callbacks that  *)
(* could still run for a stream that has been refused.                     *)
BlockedIsFinal ==
    [][ \A s \in Streams : (blocked[s] # "no" /\ phase'[s] # "free") =>
            /\ upstream'[s] = upstream[s]
            /\ response'[s] = response[s]
            /\ blocked'[s] = blocked[s] ]_vars

(* No stream ever runs under a torn policy: the flag and the keys of every *)
(* part it inspects were asked for by one document.  It is about streams   *)
(* created between two configurations, the second of which may stop the VM *)
(* between its two assignments.                                            *)
SnapshotIsCoherent ==
    \A s \in Streams : phase[s] # "free" =>
        \A p \in Parts :
            \/ config[s][p] = DefaultConfig[p]
            \/ \E i \in DOMAIN given :
                  Asks(given[i], p) /\ config[s][p] = Asked(given[i], p)

(* A client that is not cut off gets an answer, from the server, from the  *)
(* filter or from the host when the VM has trapped.  It is about every     *)
(* path through the callbacks leading to a reply.                          *)
EveryStreamIsAnswered ==
    \A s \in Streams :
        phase[s] = "created" ~> (response[s] # NoResponse \/ phase[s] = "free")

-----------------------------------------------------------------------------
(* README lines 96-101 and the integration tests (main.go:44-53, 76-81): a *)
(* request whose path holds an injection that the path's policy inspects   *)
(* does not reach the server, and one whose path holds none is not blocked *)
(* for its path, whatever a cookie holds that the configuration excludes.  *)
(* It is about the parameters parsePath returns, which onRequestHeaders    *)
(* hands to no check, and about the cookies it hands to two.               *)
PathDecidedByItsPolicy ==
    \A s \in Streams :
        LET pathClean == Clean(PathParamsOf(request[s]), config[s]["path"])
        IN  /\ upstream[s].headers => pathClean
            /\ blocked[s] = "path" => ~ pathClean

(* README line 3 and the integration test (integration-test.go:250): of a  *)
(* request with an injection in its body the server receives an empty      *)
(* body.  It is about a body that arrives in more than one buffer.         *)
BlockedBodyIsEmpty ==
    \A s \in Streams : blocked[s] = "body" => upstream[s].body = << >>

(* README lines 100-101: all query parameters in the body are inspected.   *)
(* It is about a parameter whose text spans two buffers.                   *)
WholeBodyInspected ==
    \A s \in Streams : (upstream[s].headers /\ BodyInspected(request[s])) =>
        Clean(parseBody(Received(s)), config[s]["body"])

=============================================================================
