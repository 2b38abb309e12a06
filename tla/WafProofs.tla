------------------------------ MODULE WafProofs ------------------------------
(***************************************************************************)
(* What WafFilter promises for any detector, any requests and documents,   *)
(* any number of streams, and bodies cut in any way.                       *)
(***************************************************************************)
EXTENDS WafFilter, RootProofs, SequenceTheorems

(* What is known of one stream.  That the code's checks found nothing in   *)
(* what was forwarded is stated as the code has it; that it is what the    *)
(* policies ask for is a fact of those checks, below.                      *)
Good(s) ==
    /\ phase[s] \in {"free", "created"} =>
          ~ upstream[s].headers /\ blocked[s] = "no" /\ response[s] = NoResponse
    /\ phase[s] = "open" =>
          /\ content_type_[s] = Header(request[s], ContentTypeHeader)
          /\ response[s].code \in {"none", "200"}
          /\ upstream[s].headers
    /\ blocked[s] # "no" => phase[s] = "blocked"
    /\ upstream[s].headers => HeaderVerdict(request[s], config[s]) = "no"
    /\ ~ upstream[s].headers => upstream[s].body = << >>
    /\ BodyInspected(request[s]) =>
          \A i \in DOMAIN upstream[s].body :
              ~ detectSQLiOnParams(parseBody(upstream[s].body[i]), config[s]["body"])
    /\ blocked[s] \in {"header", "cookie", "path"} =>
          ~ upstream[s].headers /\ response[s].code = "403"
    /\ blocked[s] = "body" => response[s].code \in {"403", "200"}

AllGood == \A s \in Streams : Good(s)

(* A step leaves a stream alone. *)
Same(s) ==
    /\ phase'[s] = phase[s] /\ request'[s] = request[s] /\ config'[s] = config[s]
    /\ content_type_'[s] = content_type_[s] /\ unread'[s] = unread[s]
    /\ upstream'[s] = upstream[s] /\ blocked'[s] = blocked[s]
    /\ response'[s] = response[s]

-----------------------------------------------------------------------------
(* The checks.  What detectSQLiOnParams does not object to is what the     *)
(* policy finds clean, for a policy whose flag is a Boolean.               *)
LEMMA DetectIsNotClean ==
    ASSUME NEW params, NEW policy, policy.include \in BOOLEAN
    PROVE  ~ detectSQLiOnParams(params, policy) <=> Clean(params, policy)
<1>1. CASE policy.include = TRUE
    BY <1>1 DEF detectSQLiOnParams, pickKeysForDetection, Clean, Inspected
<1>2. CASE policy.include = FALSE
    BY <1>2 DEF detectSQLiOnParams, pickKeysForDetection, Clean, Inspected
<1> QED BY <1>1, <1>2

(* The parameters the headers are collected into hold the first value of   *)
(* each name.                                                              *)
LEMMA FirstHeader ==
    ASSUME NEW req \in Requests, NEW i \in DOMAIN req.headers,
           \A j \in DOMAIN req.headers : j < i => req.headers[j][1] # req.headers[i][1]
    PROVE  /\ req.headers[i][1] \in DOMAIN HeaderParams(req)
           /\ HeaderParams(req)[req.headers[i][1]] = req.headers[i][2]
<1> DEFINE name == req.headers[i][1]
           at == {j \in DOMAIN req.headers : req.headers[j][1] = name}
<1>1. DOMAIN req.headers \in SUBSET Nat
    BY RequestsAssumption
<1>2. at \in SUBSET Nat /\ i \in at
    BY <1>1
<1>3. Min(at) \in at /\ Min(at) <= i
    BY <1>2, MinIsLeast
<1> HIDE DEF at
<1>4. Min(at) = i
    <2>1. Min(at) \in DOMAIN req.headers /\ req.headers[Min(at)][1] = name
        BY <1>3 DEF at
    <2>2. ~ (Min(at) < i)
        BY <2>1
    <2> QED BY <1>1, <1>3, <2>1, <2>2
<1>5. Header(req, name) = req.headers[i][2]
    BY <1>2, <1>4 DEF Header, at
<1> QED BY <1>5 DEF HeaderParams

(* So the check of the headers objects to what the policy objects to.      *)
LEMMA HeadersCheck ==
    ASSUME NEW req \in Requests, NEW policy, policy.include \in BOOLEAN,
           ~ detectSQLiOnParams(HeaderParams(req), policy)
    PROVE  HeadersClean(req, policy)
<1>1. Clean(HeaderParams(req), policy)
    BY DetectIsNotClean
<1> QED BY <1>1, FirstHeader DEF HeadersClean, Clean

(* A header's value is a string, the empty one when the header is missing. *)
LEMMA HeaderIsText ==
    ASSUME NEW req \in Requests, NEW name
    PROVE  Header(req, name) \in Str
<1> DEFINE at == {j \in DOMAIN req.headers : req.headers[j][1] = name}
<1>1. req.headers \in Seq(Str \X Str)
    BY RequestsAssumption
<1>2. CASE at = {}
    BY <1>2 DEF Header, Str
<1>3. CASE at # {}
    <2>1. at \in SUBSET Nat
        BY <1>1
    <2>2. Min(at) \in at
        BY <1>3, <2>1, MinIsLeast
    <2>3. Header(req, name) = req.headers[Min(at)][2]
        BY <1>3 DEF Header
    <2> HIDE DEF Str
    <2>4. Min(at) \in DOMAIN req.headers
        BY <2>2
    <2> HIDE DEF at
    <2>5. \A j \in DOMAIN req.headers : req.headers[j] \in Str \X Str
        BY <1>1
    <2>6. req.headers[Min(at)] \in Str \X Str
        BY <2>4, <2>5
    <2> QED BY <2>3, <2>6
<1> QED BY <1>2, <1>3

-----------------------------------------------------------------------------
(* Types.                                                                  *)
NoUpstream == [headers |-> FALSE, body |-> << >>]
Upstream == [headers : BOOLEAN, body : Seq(Str)]
Response == {NoResponse} \cup [code : {"200", "403", "503"}, headers : {{}, ServerHeaders}]
Blocks == {"no", "header", "cookie", "path", "body"}

StreamTypes ==
    /\ phase \in [Streams -> Phases]
    /\ request \in [Streams -> Requests \cup {NoRequest}]
    /\ config \in [Streams -> Configs(Str)]
    /\ content_type_ \in [Streams -> Str]
    /\ unread \in [Streams -> Str]
    /\ upstream \in [Streams -> Upstream]
    /\ blocked \in [Streams -> Blocks]
    /\ response \in [Streams -> Response]

(* The type invariant, in two parts.                                       *)
LEMMA TypeParts == TypeOK <=> RootTypeOK /\ StreamTypes
BY DEF TypeOK, StreamTypes, Configs, Policies, Upstream, Blocks, Response

(* The values the actions assign have the types of what they are given to. *)
LEMMA Values ==
    /\ << >> \in Str /\ NoUpstream \in Upstream /\ NoResponse \in Response
    /\ [code |-> "403", headers |-> {}] \in Response
    /\ [code |-> "503", headers |-> {}] \in Response
    /\ [code |-> "200", headers |-> ServerHeaders] \in Response
    /\ DefaultConfig \in Configs(Str)
<1>1. DefaultConfig \in Configs(Str)
    BY NamesAssumption DEF DefaultConfig, Configs, Policies, Only, AllBut
<1>2. << >> \in Str
    BY DEF Str
<1> HIDE DEF Str
<1>3. << >> \in Seq(Str)
    OBVIOUS
<1>4. NoUpstream \in Upstream
    BY <1>3 DEF NoUpstream, Upstream
<1> QED BY <1>1, <1>2, <1>4 DEF Response

(* A local reply keeps the types, whichever part it is for.                *)
LEMMA OnSQLiTypes ==
    ASSUME StreamTypes, NEW s \in Streams, NEW part \in Blocks, onSQLi(s, part)
    PROVE  /\ blocked' \in [Streams -> Blocks]
           /\ phase' \in [Streams -> Phases]
           /\ response' \in [Streams -> Response]
<1>1. blocked' \in [Streams -> Blocks] /\ phase' \in [Streams -> Phases]
    BY DEF onSQLi, StreamTypes, Phases
<1>2. (IF response[s] = NoResponse THEN [code |-> "403", headers |-> {}] ELSE response[s])
         \in Response
    BY Values DEF StreamTypes
<1>3. response' = [response EXCEPT ![s] =
          IF response[s] = NoResponse THEN [code |-> "403", headers |-> {}] ELSE response[s]]
    BY DEF onSQLi
<1> QED BY <1>1, <1>2, <1>3 DEF StreamTypes

(* What the end of a stream leaves is the slot as it was at the start.     *)
LEMMA DestroyTypes ==
    ASSUME StreamTypes, NEW s \in Streams, Destroy(s)
    PROVE  StreamTypes'
<1> USE DEF StreamTypes, Destroy
<1>1. phase' \in [Streams -> Phases]
    BY DEF Phases
<1>2. request' \in [Streams -> Requests \cup {NoRequest}]
    OBVIOUS
<1>3. config' \in [Streams -> Configs(Str)]
    BY Values
<1>4. content_type_' \in [Streams -> Str] /\ unread' \in [Streams -> Str]
    BY Values
<1>5. upstream' \in [Streams -> Upstream]
    BY Values DEF NoUpstream
<1>6. blocked' \in [Streams -> Blocks]
    BY DEF Blocks
<1>7. response' \in [Streams -> Response]
    BY Values
<1> QED BY <1>1, <1>2, <1>3, <1>4, <1>5, <1>6, <1>7

(* A piece of a text is a text. *)
LEMMA PieceIsText ==
    ASSUME NEW text \in Str, NEW m \in 1 .. Len(text) + 1, NEW n \in 0 .. Len(text)
    PROVE  SubSeq(text, m, n) \in Str
<1> DEFINE S == 0 .. 255
<1>1. text \in Seq(S) /\ Len(text) \in Nat
    BY DEF Str
<1> HIDE DEF S
<1>2. \A i \in 1 .. Len(text) : text[i] \in S
    BY <1>1
<1>3. m \in Int /\ n \in Int /\ \A i \in m .. n : text[i] \in S
    BY <1>1, <1>2
<1>4. SubSeq(text, m, n) \in Seq(S)
    BY <1>3, SubSeqProperties
<1> QED BY <1>4 DEF S, Str

(* Every stream action keeps the types.                                    *)
LEMMA StreamStepTypes ==
    ASSUME RootTypeOK, StreamTypes, NEW s \in Streams, StreamNext(s)
    PROVE  StreamTypes'
<1>1. ASSUME NEW req \in Requests, OnCreate(s, req) PROVE StreamTypes'
    <2>1. phase' \in [Streams -> Phases]
        BY <1>1 DEF OnCreate, StreamTypes, Phases
    <2>2. request' \in [Streams -> Requests \cup {NoRequest}]
        BY <1>1 DEF OnCreate, StreamTypes
    <2>3. req.body \in Str
        BY RequestsAssumption
    <2>4. unread' \in [Streams -> Str]
        BY <1>1, <2>3 DEF OnCreate, StreamTypes
    <2>5. root \in Configs(Str)
        BY DEF RootTypeOK, Configs, Policies
    <2>6. config' \in [Streams -> Configs(Str)]
        BY <1>1, <2>5 DEF OnCreate, StreamTypes
    <2> QED BY <1>1, <2>1, <2>2, <2>4, <2>6 DEF OnCreate, StreamTypes
<1>2. ASSUME OnRequestHeaders(s) PROVE StreamTypes'
    <2> DEFINE verdict == HeaderVerdict(request[s], config[s])
    <2>1. /\ request' = request /\ config' = config /\ unread' = unread
          /\ \/ verdict # "no" /\ onSQLi(s, verdict)
                /\ UNCHANGED <<content_type_, upstream>>
             \/ /\ content_type_' = [content_type_ EXCEPT ![s] =
                                        Header(request[s], ContentTypeHeader)]
                /\ upstream' = [upstream EXCEPT ![s].headers = TRUE]
                /\ phase' = [phase EXCEPT ![s] =
                                IF unread[s] = << >> THEN "sent" ELSE "open"]
                /\ UNCHANGED <<blocked, response>>
        BY <1>2 DEF OnRequestHeaders
    <2>2. verdict \in Blocks
        BY DEF HeaderVerdict, Blocks
    <2> HIDE DEF verdict
    <2>3. CASE verdict # "no" /\ onSQLi(s, verdict) /\ UNCHANGED <<content_type_, upstream>>
        BY <2>1, <2>2, <2>3, OnSQLiTypes DEF StreamTypes
    <2>4. CASE /\ content_type_' = [content_type_ EXCEPT ![s] =
                                       Header(request[s], ContentTypeHeader)]
               /\ upstream' = [upstream EXCEPT ![s].headers = TRUE]
               /\ phase' = [phase EXCEPT ![s] =
                               IF unread[s] = << >> THEN "sent" ELSE "open"]
               /\ UNCHANGED <<blocked, response>>
        <3>1. Header(request[s], ContentTypeHeader) \in Str
            <4>1. CASE request[s] \in Requests
                BY <4>1, HeaderIsText
            <4>2. CASE request[s] = NoRequest
                BY <4>2, Values DEF Header, NoRequest
            <4> QED BY <4>1, <4>2 DEF StreamTypes
        <3>2. content_type_' \in [Streams -> Str]
            BY <2>4, <3>1 DEF StreamTypes
        <3>3. upstream' \in [Streams -> Upstream]
            BY <2>4 DEF StreamTypes, Upstream
        <3>4. phase' \in [Streams -> Phases]
            BY <2>4 DEF StreamTypes, Phases
        <3> QED BY <2>1, <2>4, <3>2, <3>3, <3>4 DEF StreamTypes
    <2> QED BY <2>1, <2>3, <2>4
<1>3. ASSUME NEW n \in Chunks(s), OnRequestBody(s, n) PROVE StreamTypes'
    <2> DEFINE buffer == SubSeq(unread[s], 1, n)
               rest == SubSeq(unread[s], n + 1, Len(unread[s]))
    <2>1. buffer \in Str /\ rest \in Str
        <3>1. unread[s] \in Str
            BY DEF StreamTypes
        <3>2. n \in 1 .. Len(unread[s])
            BY DEF Chunks
        <3>3. Len(unread[s]) \in Nat
            BY <3>1 DEF Str
        <3>4. /\ 1 \in 1 .. Len(unread[s]) + 1 /\ n \in 0 .. Len(unread[s])
              /\ n + 1 \in 1 .. Len(unread[s]) + 1
              /\ Len(unread[s]) \in 0 .. Len(unread[s])
            BY <3>2, <3>3
        <3> QED BY <3>1, <3>4, PieceIsText
    <2>2. /\ unread' = [unread EXCEPT ![s] = rest]
          /\ request' = request /\ config' = config /\ content_type_' = content_type_
          /\ \/ onSQLi(s, "body") /\ UNCHANGED upstream
             \/ /\ upstream' = [upstream EXCEPT ![s].body = Append(upstream[s].body, buffer)]
                /\ phase' = [phase EXCEPT ![s] = IF rest = << >> THEN "sent" ELSE "open"]
                /\ UNCHANGED <<blocked, response>>
        BY <1>3 DEF OnRequestBody
    <2> HIDE DEF buffer, rest
    <2>3. unread' \in [Streams -> Str]
        BY <2>1, <2>2 DEF StreamTypes
    <2>4. CASE onSQLi(s, "body") /\ UNCHANGED upstream
        BY <2>2, <2>3, <2>4, OnSQLiTypes DEF StreamTypes, Blocks
    <2>5. CASE /\ upstream' = [upstream EXCEPT ![s].body = Append(upstream[s].body, buffer)]
               /\ phase' = [phase EXCEPT ![s] = IF rest = << >> THEN "sent" ELSE "open"]
               /\ UNCHANGED <<blocked, response>>
        <3>1. upstream' \in [Streams -> Upstream]
            <4> HIDE DEF Str
            <4>1. upstream[s] \in [headers : BOOLEAN, body : Seq(Str)]
                BY DEF StreamTypes, Upstream
            <4>2. Append(upstream[s].body, buffer) \in Seq(Str)
                BY <2>1, <4>1
            <4> QED BY <2>5, <4>2 DEF StreamTypes, Upstream
        <3>2. phase' \in [Streams -> Phases]
            BY <2>5 DEF StreamTypes, Phases
        <3> QED BY <2>2, <2>3, <2>5, <3>1, <3>2 DEF StreamTypes
    <2> QED BY <2>2, <2>4, <2>5
<1>4. ASSUME OnResponseHeaders(s) PROVE StreamTypes'
    BY <1>4, Values DEF OnResponseHeaders, StreamTypes
<1>5. ASSUME HostFail(s) PROVE StreamTypes'
    <2>1. (IF response[s] = NoResponse THEN [code |-> "503", headers |-> {}] ELSE response[s])
             \in Response
        BY Values DEF StreamTypes
    <2>2. response' = [response EXCEPT ![s] =
             IF response[s] = NoResponse THEN [code |-> "503", headers |-> {}] ELSE response[s]]
        BY <1>5 DEF HostFail
    <2>3. response' \in [Streams -> Response]
        BY <2>1, <2>2 DEF StreamTypes
    <2>4. phase' \in [Streams -> Phases]
        BY <1>5 DEF HostFail, StreamTypes, Phases
    <2> QED BY <1>5, <2>3, <2>4 DEF HostFail, StreamTypes
<1>6. ASSUME OnDelete(s) \/ Reset(s) PROVE StreamTypes'
    BY <1>6, DestroyTypes DEF OnDelete, Reset
<1> QED BY <1>1, <1>2, <1>3, <1>4, <1>5, <1>6 DEF StreamNext

-----------------------------------------------------------------------------
(* A step that is not a stream's own leaves what is known of it.           *)
LEMMA SameIsGood ==
    ASSUME NEW s \in Streams, Good(s), Same(s)
    PROVE  Good(s)'
BY DEF Good, Same, BodyInspected

(* A stream's step is not another's.                                       *)
LEMMA OthersAreSame ==
    ASSUME StreamTypes, NEW s \in Streams, StreamNext(s), NEW t \in Streams, t # s
    PROVE  Same(t)
<1> USE DEF StreamTypes, Same
<1>1. ASSUME NEW req \in Requests, OnCreate(s, req) PROVE Same(t)
    BY <1>1 DEF OnCreate
<1>2. ASSUME OnRequestHeaders(s) PROVE Same(t)
    <2>1. \/ \E part \in {"header", "cookie", "path"} :
                onSQLi(s, part) /\ UNCHANGED <<content_type_, upstream>>
          \/ /\ content_type_' = [content_type_ EXCEPT ![s] =
                                     Header(request[s], ContentTypeHeader)]
             /\ upstream' = [upstream EXCEPT ![s].headers = TRUE]
             /\ phase' = [phase EXCEPT ![s] =
                             IF unread[s] = << >> THEN "sent" ELSE "open"]
             /\ UNCHANGED <<blocked, response>>
        BY <1>2 DEF OnRequestHeaders, HeaderVerdict
    <2>2. UNCHANGED <<request, config, unread>>
        BY <1>2 DEF OnRequestHeaders
    <2> QED BY <2>1, <2>2 DEF onSQLi
<1>3. ASSUME NEW n \in Chunks(s), OnRequestBody(s, n) PROVE Same(t)
    BY <1>3 DEF OnRequestBody, onSQLi
<1>4. ASSUME OnResponseHeaders(s) PROVE Same(t)
    BY <1>4 DEF OnResponseHeaders
<1>5. ASSUME HostFail(s) PROVE Same(t)
    BY <1>5 DEF HostFail
<1>6. ASSUME OnDelete(s) \/ Reset(s) PROVE Same(t)
    BY <1>6 DEF OnDelete, Reset, Destroy
<1> QED BY <1>1, <1>2, <1>3, <1>4, <1>5, <1>6 DEF StreamNext

(* What onSQLi does to its stream.                                         *)
LEMMA OnSQLiEffect ==
    ASSUME StreamTypes, NEW s \in Streams, NEW part, onSQLi(s, part)
    PROVE  /\ phase'[s] = "blocked" /\ blocked'[s] = part
           /\ response[s] = NoResponse => response'[s].code = "403"
           /\ response[s] # NoResponse => response'[s] = response[s]
BY DEF onSQLi, StreamTypes

(* A new stream has forwarded nothing.                                     *)
LEMMA CreateIsGood ==
    ASSUME StreamTypes, NEW s \in Streams, Good(s), NEW req \in Requests, OnCreate(s, req)
    PROVE  Good(s)'
<1>1. /\ phase[s] = "free" /\ phase'[s] = "created"
      /\ upstream'[s] = upstream[s] /\ blocked'[s] = blocked[s] /\ response'[s] = response[s]
    BY DEF OnCreate, StreamTypes
<1>2. ~ upstream[s].headers /\ upstream[s].body = << >> /\ blocked[s] = "no"
      /\ response[s] = NoResponse
    BY <1>1 DEF Good
<1> QED BY <1>1, <1>2 DEF Good

(* Headers are forwarded when every check has passed, and not otherwise.   *)
LEMMA HeadersAreGood ==
    ASSUME StreamTypes, NEW s \in Streams, Good(s), OnRequestHeaders(s)
    PROVE  Good(s)'
<1> DEFINE verdict == HeaderVerdict(request[s], config[s])
<1>1. /\ phase[s] = "created" /\ request' = request /\ config' = config
      /\ \/ verdict # "no" /\ onSQLi(s, verdict) /\ UNCHANGED upstream
         \/ /\ verdict = "no"
            /\ content_type_' = [content_type_ EXCEPT ![s] =
                                    Header(request[s], ContentTypeHeader)]
            /\ upstream' = [upstream EXCEPT ![s].headers = TRUE]
            /\ phase' = [phase EXCEPT ![s] = IF unread[s] = << >> THEN "sent" ELSE "open"]
            /\ UNCHANGED <<blocked, response>>
    BY DEF OnRequestHeaders
<1>2. /\ ~ upstream[s].headers /\ upstream[s].body = << >> /\ blocked[s] = "no"
      /\ response[s] = NoResponse
    BY <1>1 DEF Good
<1>3. verdict \in {"no", "header", "cookie", "path"}
    BY DEF HeaderVerdict
<1>4. request'[s] = request[s] /\ config'[s] = config[s]
    BY <1>1
<1>5. HeaderVerdict(request[s], config[s])' = verdict
    BY <1>4 DEF HeaderVerdict
<1>6. CASE verdict # "no" /\ onSQLi(s, verdict) /\ UNCHANGED upstream
    <2> HIDE DEF verdict
    <2>1. phase'[s] = "blocked" /\ blocked'[s] = verdict /\ response'[s].code = "403"
          /\ upstream'[s] = upstream[s]
        BY <1>2, <1>6, OnSQLiEffect
    <2> QED BY <1>2, <1>3, <1>6, <2>1 DEF Good
<1>7. CASE verdict = "no" /\ content_type_' = [content_type_ EXCEPT ![s] =
                                    Header(request[s], ContentTypeHeader)]
            /\ upstream' = [upstream EXCEPT ![s].headers = TRUE]
            /\ phase' = [phase EXCEPT ![s] = IF unread[s] = << >> THEN "sent" ELSE "open"]
            /\ UNCHANGED <<blocked, response>>
    <2> HIDE DEF verdict
    <2>1. /\ content_type_'[s] = Header(request[s], ContentTypeHeader)
          /\ upstream'[s].headers /\ upstream'[s].body = << >>
          /\ phase'[s] \in {"sent", "open"}
          /\ blocked'[s] = "no" /\ response'[s] = NoResponse
        BY <1>2, <1>7 DEF StreamTypes, Upstream
    <2>2. response'[s].code = "none"
        BY <2>1 DEF NoResponse
    <2> QED BY <1>4, <1>5, <1>7, <2>1, <2>2 DEF Good
<1> QED BY <1>1, <1>6, <1>7

(* A piece of the body is forwarded when the check has passed.             *)
LEMMA BodyIsGood ==
    ASSUME StreamTypes, NEW s \in Streams, Good(s), NEW n \in Chunks(s), OnRequestBody(s, n)
    PROVE  Good(s)'
<1> DEFINE buffer == SubSeq(unread[s], 1, n)
           rest == SubSeq(unread[s], n + 1, Len(unread[s]))
<1>1. /\ phase[s] = "open" /\ request' = request /\ config' = config
      /\ content_type_' = content_type_
      /\ \/ onSQLi(s, "body") /\ UNCHANGED upstream
         \/ /\ ~ BodyVerdict(s, buffer)
            /\ upstream' = [upstream EXCEPT ![s].body = Append(upstream[s].body, buffer)]
            /\ phase' = [phase EXCEPT ![s] = IF rest = << >> THEN "sent" ELSE "open"]
            /\ UNCHANGED <<blocked, response>>
    BY DEF OnRequestBody
<1> HIDE DEF buffer, rest
<1>2. /\ content_type_[s] = Header(request[s], ContentTypeHeader)
      /\ response[s].code \in {"none", "200"} /\ blocked[s] = "no"
    BY <1>1 DEF Good
<1>3. CASE onSQLi(s, "body") /\ UNCHANGED upstream
    <2>1. phase'[s] = "blocked" /\ blocked'[s] = "body" /\ response'[s].code \in {"403", "200"}
        <3>1. response[s] = NoResponse \/ response[s].code = "200"
            BY <1>2 DEF StreamTypes, Response
        <3>2. NoResponse.code = "none"
            BY DEF NoResponse
        <3> QED BY <1>3, <3>1, <3>2, OnSQLiEffect
    <2>2. request'[s] = request[s] /\ config'[s] = config[s] /\ upstream'[s] = upstream[s]
        BY <1>1, <1>3
    <2> QED BY <2>1, <2>2 DEF Good, BodyInspected
<1>4. CASE /\ ~ BodyVerdict(s, buffer)
           /\ upstream' = [upstream EXCEPT ![s].body = Append(upstream[s].body, buffer)]
           /\ phase' = [phase EXCEPT ![s] = IF rest = << >> THEN "sent" ELSE "open"]
           /\ UNCHANGED <<blocked, response>>
    <2> DEFINE seen == upstream[s].body
               FoundClean(chunk) == ~ detectSQLiOnParams(parseBody(chunk), config[s]["body"])
    <2>1. /\ upstream'[s] = [upstream[s] EXCEPT !.body = Append(seen, buffer)]
          /\ phase'[s] \in {"sent", "open"}
          /\ request'[s] = request[s] /\ config'[s] = config[s] /\ content_type_'[s] = content_type_[s]
          /\ blocked'[s] = "no" /\ response'[s] = response[s]
        BY <1>1, <1>2, <1>4 DEF StreamTypes
    <2>2. upstream[s] \in [headers : BOOLEAN, body : Seq(Str)]
        BY DEF StreamTypes, Upstream
    <2>3. /\ upstream'[s].headers = upstream[s].headers /\ upstream'[s].body = Append(seen, buffer)
          /\ seen \in Seq(Str)
        BY <2>1, <2>2
    <2>4. BodyInspected(request[s]) =>
             (\A i \in DOMAIN seen : FoundClean(seen[i])) /\ FoundClean(buffer)
        BY <1>2, <1>4 DEF Good, BodyInspected, BodyVerdict
    <2>5. upstream[s].headers /\ HeaderVerdict(request[s], config[s]) = "no"
        BY <1>1 DEF Good
    <2> HIDE DEF seen, FoundClean
    <2>6. ASSUME BodyInspected(request[s]), NEW i \in DOMAIN Append(seen, buffer)
          PROVE  FoundClean(Append(seen, buffer)[i])
        <3>1. CASE i \in DOMAIN seen
            <4>1. Append(seen, buffer)[i] = seen[i]
                BY <2>3, <3>1
            <4> QED BY <2>4, <2>6, <3>1, <4>1
        <3>2. CASE i \notin DOMAIN seen
            <4>1. Append(seen, buffer)[i] = buffer
                BY <2>3, <3>2
            <4> QED BY <2>4, <2>6, <4>1
        <3> QED BY <3>1, <3>2
    <2>7. HeaderVerdict(request[s], config[s])' = "no"
        BY <2>1, <2>5 DEF HeaderVerdict
    <2>8. BodyInspected(request[s])' => BodyInspected(request[s])
        BY <2>1 DEF BodyInspected
    <2>9. BodyInspected(request[s])' =>
             \A i \in DOMAIN upstream'[s].body :
                 ~ detectSQLiOnParams(parseBody(upstream'[s].body[i]), config'[s]["body"])
        BY <2>1, <2>3, <2>6, <2>8 DEF FoundClean
    <2> QED BY <1>1, <1>2, <2>1, <2>3, <2>5, <2>7, <2>9 DEF Good
<1> QED BY <1>1, <1>3, <1>4

(* The server's answer, the host's and the end of a stream.                *)
LEMMA EndIsGood ==
    ASSUME StreamTypes, NEW s \in Streams, Good(s),
           OnResponseHeaders(s) \/ HostFail(s) \/ OnDelete(s) \/ Reset(s)
    PROVE  Good(s)'
<1>1. CASE OnResponseHeaders(s)
    <2>1. /\ phase[s] \in {"open", "sent"} /\ phase' = phase /\ request' = request
          /\ config' = config /\ content_type_' = content_type_ /\ upstream' = upstream
          /\ blocked' = blocked /\ response'[s].code = "200"
        BY <1>1 DEF OnResponseHeaders, StreamTypes
    <2>2. blocked[s] = "no"
        BY <2>1 DEF Good
    <2> QED BY <2>1, <2>2 DEF Good, BodyInspected
<1>2. CASE HostFail(s)
    <2>1. /\ phase[s] \in {"created", "open", "sent"} /\ phase'[s] = "failed"
          /\ request' = request /\ config' = config /\ upstream' = upstream
          /\ blocked' = blocked
        BY <1>2 DEF HostFail, StreamTypes
    <2>2. blocked[s] = "no"
        BY <2>1 DEF Good
    <2> QED BY <2>1, <2>2 DEF Good, BodyInspected
<1>3. CASE OnDelete(s) \/ Reset(s)
    <2>1. Destroy(s)
        BY <1>3 DEF OnDelete, Reset
    <2>2. /\ phase'[s] = "free" /\ upstream'[s] = NoUpstream
          /\ blocked'[s] = "no" /\ response'[s] = NoResponse
        BY <2>1 DEF Destroy, StreamTypes, NoUpstream
    <2> QED BY <2>2 DEF Good, NoUpstream
<1> QED BY <1>1, <1>2, <1>3

(* Every step keeps every stream good.                                     *)
LEMMA StreamStepGood ==
    ASSUME StreamTypes, AllGood, NEW s \in Streams, StreamNext(s)
    PROVE  AllGood'
<1>1. ASSUME NEW t \in Streams, t # s PROVE Good(t)'
    BY <1>1, OthersAreSame, SameIsGood DEF AllGood
<1>2. Good(s)'
    <2>1. Good(s)
        BY DEF AllGood
    <2> QED BY <2>1, CreateIsGood, HeadersAreGood, BodyIsGood, EndIsGood DEF StreamNext
<1> QED BY <1>1, <1>2 DEF AllGood

-----------------------------------------------------------------------------
(* Every stream runs under policies that documents asked for.              *)
LEMMA SnapshotStep ==
    ASSUME RootTypeOK, StreamTypes, PartsFromOneDocument, SnapshotIsCoherent, Next
    PROVE  SnapshotIsCoherent'
<1>1. SUFFICES ASSUME NEW t \in Streams, phase'[t] # "free", NEW p \in Parts
      PROVE  Founded(p, config'[t][p], given')
    BY DEF SnapshotIsCoherent, Founded
<1>2. phase[t] # "free" => Founded(p, config[t][p], given)
    BY DEF SnapshotIsCoherent, Founded
<1>3. CASE \E document \in Documents \cup {NoDocument} : Reconfigure(document)
    <2>1. PICK document \in Documents \cup {NoDocument} : Reconfigure(document)
        BY <1>3
    <2>2. phase' = phase /\ config' = config
        BY <2>1 DEF Reconfigure, streamVars
    <2>3. \A i \in DOMAIN given : i \in DOMAIN given' /\ given'[i] = given[i]
        BY <2>1, Configured DEF Reconfigure
    <2> QED BY <1>1, <1>2, <2>2, <2>3 DEF Founded
<1>4. CASE \E s \in Streams : StreamNext(s)
    <2>1. PICK s \in Streams : StreamNext(s)
        BY <1>4
    <2>2. UNCHANGED rootVars
        BY <2>1 DEF StreamNext, OnCreate, OnRequestHeaders, OnRequestBody,
                    OnResponseHeaders, HostFail, OnDelete, Reset, Destroy
    <2>3. given' = given
        BY <2>2 DEF rootVars
    <2>4. CASE t # s
        <3>1. Same(t)
            BY <2>1, <2>4, OthersAreSame
        <3> QED BY <1>1, <1>2, <2>3, <3>1 DEF Same
    <2>5. CASE t = s
        <3>1. CASE \E req \in Requests : OnCreate(s, req)
            <4>1. vm # "trapped" /\ config'[s] = root
                BY <3>1 DEF OnCreate, StreamTypes
            <4> QED BY <2>3, <2>5, <4>1 DEF PartsFromOneDocument, Founded
        <3>2. CASE ~ \E req \in Requests : OnCreate(s, req)
            <4>1. CASE OnDelete(s) \/ Reset(s)
                <5>1. phase'[s] = "free"
                    BY <4>1 DEF OnDelete, Reset, Destroy, StreamTypes
                <5> QED BY <1>1, <2>5, <5>1
            <4>2. CASE ~ (OnDelete(s) \/ Reset(s))
                <5>1. config' = config /\ phase[s] # "free"
                    BY <2>1, <3>2, <4>2 DEF StreamNext, OnRequestHeaders, OnRequestBody,
                                            OnResponseHeaders, HostFail
                <5> QED BY <1>2, <2>3, <2>5, <5>1
            <4> QED BY <4>1, <4>2
        <3> QED BY <3>1, <3>2
    <2> QED BY <2>4, <2>5
<1> QED BY <1>3, <1>4 DEF Next

(* The inductive invariant: the root context's, the types, what is known  *)
(* of each stream, and whose policies it runs under.                       *)
WafInv == RootTypeOK /\ StreamTypes /\ AllGood /\ PartsFromOneDocument /\ SnapshotIsCoherent

(* It holds when no stream has been created.                               *)
LEMMA WafInitInv == Init => WafInv
<1> SUFFICES ASSUME Init PROVE WafInv
    OBVIOUS
<1>1. RootTypeOK /\ PartsFromOneDocument
    BY RootInitInv DEF Init
<1>2. StreamTypes
    BY Values DEF Init, StreamTypes, Phases, Blocks, NoUpstream
<1>3. AllGood
    BY DEF Init, AllGood, Good, NoRequest
<1>4. SnapshotIsCoherent
    BY DEF Init, SnapshotIsCoherent
<1> QED BY <1>1, <1>2, <1>3, <1>4 DEF WafInv

(* A reconfiguration changes no stream, a stream no configuration.         *)
LEMMA WafStepInv == WafInv /\ [Next]_vars => WafInv'
<1> SUFFICES ASSUME WafInv, [Next]_vars PROVE WafInv'
    OBVIOUS
<1> USE DEF WafInv
<1>1. CASE UNCHANGED vars
    <2>1. UNCHANGED <<rootVars, streamVars>>
        BY <1>1 DEF vars
    <2>2. RootTypeOK' /\ PartsFromOneDocument'
        BY <2>1 DEF rootVars, RootTypeOK, PartsFromOneDocument
    <2>3. StreamTypes'
        BY <2>1 DEF streamVars, StreamTypes
    <2>4. \A s \in Streams : Same(s)
        BY <2>1 DEF streamVars, Same
    <2>5. AllGood'
        BY <2>4, SameIsGood DEF AllGood
    <2>6. SnapshotIsCoherent'
        BY <2>1 DEF rootVars, streamVars, SnapshotIsCoherent
    <2> QED BY <2>2, <2>3, <2>5, <2>6
<1>2. CASE \E document \in Documents \cup {NoDocument} : Reconfigure(document)
    <2>1. PICK document \in Documents \cup {NoDocument} : Reconfigure(document)
        BY <1>2
    <2>2. OnConfigure(document) /\ UNCHANGED streamVars
        BY <2>1 DEF Reconfigure
    <2>3. RootTypeOK' /\ PartsFromOneDocument'
        BY <2>2, Configured, ConfiguredFounded
    <2>4. StreamTypes'
        BY <2>2 DEF streamVars, StreamTypes
    <2>5. \A s \in Streams : Same(s)
        BY <2>2 DEF streamVars, Same
    <2>6. AllGood'
        BY <2>5, SameIsGood DEF AllGood
    <2>7. SnapshotIsCoherent'
        BY <1>2, SnapshotStep DEF Next
    <2> QED BY <2>3, <2>4, <2>6, <2>7
<1>3. CASE \E s \in Streams : StreamNext(s)
    <2>1. PICK s \in Streams : StreamNext(s)
        BY <1>3
    <2>2. UNCHANGED rootVars
        BY <2>1 DEF StreamNext, OnCreate, OnRequestHeaders, OnRequestBody,
                    OnResponseHeaders, HostFail, OnDelete, Reset, Destroy
    <2>3. RootTypeOK' /\ PartsFromOneDocument'
        BY <2>2 DEF rootVars, RootTypeOK, PartsFromOneDocument
    <2>4. StreamTypes'
        BY <2>1, StreamStepTypes
    <2>5. AllGood'
        BY <2>1, StreamStepGood
    <2>6. SnapshotIsCoherent'
        BY <1>3, SnapshotStep DEF Next
    <2> QED BY <2>3, <2>4, <2>5, <2>6
<1> QED BY <1>1, <1>2, <1>3 DEF Next

(* The invariant holds of every state the filter reaches.                  *)
THEOREM WafInvariance == Spec => []WafInv
BY WafInitInv, WafStepInv, PTL DEF Spec

-----------------------------------------------------------------------------
(* For any traffic and any configurations, every member has its type: the  *)
(* policies a stream copies are policies and what it forwards is text.     *)
THEOREM WafTyping == Spec => []TypeOK
<1>1. WafInv => TypeOK
    BY TypeParts DEF WafInv
<1> QED BY <1>1, WafInvariance, PTL

(* Whatever the detector, nothing in the headers or the cookies of a       *)
(* request the server receives is an injection under the policies of its   *)
(* stream's creation.                                                      *)
THEOREM HeadersForwardedClean == Spec => []ForwardedHeadersClean
<1>1. WafInv => ForwardedHeadersClean
    <2>1. SUFFICES ASSUME WafInv, NEW s \in Streams, upstream[s].headers
          PROVE  /\ HeadersClean(request[s], config[s]["header"])
                 /\ Clean(CookiesOf(request[s]), config[s]["cookie"])
        BY DEF ForwardedHeadersClean
    <2>2. HeaderVerdict(request[s], config[s]) = "no"
        BY <2>1 DEF WafInv, AllGood, Good
    <2>3. /\ ~ detectSQLiOnParams(HeaderParams(request[s]), config[s]["header"])
          /\ ~ detectSQLiOnParams(CookiesOf(request[s]), config[s]["cookie"])
        BY <2>2 DEF HeaderVerdict, CookiesOf
    <2>4. config[s]["header"].include \in BOOLEAN /\ config[s]["cookie"].include \in BOOLEAN
        BY <2>1 DEF WafInv, StreamTypes, Configs, Policies, Parts
    <2>5. HeadersClean(request[s], config[s]["header"])
        <3>1. CASE request[s] \in Requests
            BY <2>3, <2>4, <3>1, HeadersCheck
        <3>2. CASE request[s] = NoRequest
            BY <3>2 DEF HeadersClean, NoRequest
        <3> QED BY <2>1, <3>1, <3>2 DEF WafInv, StreamTypes
    <2> QED BY <2>3, <2>4, <2>5, DetectIsNotClean
<1> QED BY <1>1, WafInvariance, PTL

(* Whatever the detector and wherever the buffers are cut, every piece of  *)
(* a form the server receives is clean under the policy of its stream's    *)
(* creation.                                                               *)
THEOREM ChunksForwardedClean == Spec => []ForwardedChunksClean
<1>1. WafInv => ForwardedChunksClean
    <2>1. SUFFICES ASSUME WafInv, NEW s \in Streams, BodyInspected(request[s]),
                          NEW i \in DOMAIN upstream[s].body
          PROVE  Clean(parseBody(upstream[s].body[i]), config[s]["body"])
        BY DEF ForwardedChunksClean
    <2>2. ~ detectSQLiOnParams(parseBody(upstream[s].body[i]), config[s]["body"])
        BY <2>1 DEF WafInv, AllGood, Good
    <2>3. config[s]["body"].include \in BOOLEAN
        BY <2>1 DEF WafInv, StreamTypes, Configs, Policies, Parts
    <2> QED BY <2>2, <2>3, DetectIsNotClean
<1> QED BY <1>1, WafInvariance, PTL

(* A request blocked for its headers never reaches the server, and its     *)
(* client is refused.                                                      *)
THEOREM Refusal == Spec => []BlockedIsRefused
<1>1. WafInv => BlockedIsRefused
    BY DEF WafInv, AllGood, Good, BlockedIsRefused
<1> QED BY <1>1, WafInvariance, PTL

(* However configurations and streams are interleaved, no stream runs      *)
(* under the flag of one document and the keys of another.                 *)
THEOREM CoherentSnapshots == Spec => []SnapshotIsCoherent
<1>1. WafInv => SnapshotIsCoherent
    BY DEF WafInv
<1> QED BY <1>1, WafInvariance, PTL

(* From its refusal on, no step of any stream, the host or the root        *)
(* context gives a request's server or client anything more.               *)
THEOREM RefusalIsFinal == Spec => BlockedIsFinal
<1> DEFINE Final == \A s \in Streams : (blocked[s] # "no" /\ phase'[s] # "free") =>
              /\ upstream'[s] = upstream[s]
              /\ response'[s] = response[s]
              /\ blocked'[s] = blocked[s]
<1>1. ASSUME WafInv, [Next]_vars PROVE [Final]_vars
    <2>1. SUFFICES ASSUME Next, NEW t \in Streams, blocked[t] # "no", phase'[t] # "free"
          PROVE  upstream'[t] = upstream[t] /\ response'[t] = response[t] /\ blocked'[t] = blocked[t]
        BY <1>1
    <2>2. CASE \E document \in Documents \cup {NoDocument} : Reconfigure(document)
        BY <2>2 DEF Reconfigure, streamVars
    <2>3. CASE \E s \in Streams : StreamNext(s)
        <3>1. PICK s \in Streams : StreamNext(s)
            BY <2>3
        <3>2. CASE t # s
            BY <1>1, <3>1, <3>2, OthersAreSame DEF Same, WafInv
        <3>3. CASE t = s
            <4>1. phase[s] = "blocked"
                BY <1>1, <2>1, <3>3 DEF WafInv, AllGood, Good
            <4>2. OnDelete(s)
                BY <3>1, <4>1 DEF StreamNext, OnCreate, OnRequestHeaders, OnRequestBody,
                                  OnResponseHeaders, HostFail, Reset
            <4>3. phase'[s] = "free"
                BY <1>1, <4>2 DEF OnDelete, Destroy, WafInv, StreamTypes
            <4> QED BY <2>1, <3>3, <4>3
        <3> QED BY <3>2, <3>3
    <2> QED BY <2>1, <2>2, <2>3 DEF Next
<1> QED BY <1>1, WafInvariance, PTL DEF Spec, BlockedIsFinal

=============================================================================
