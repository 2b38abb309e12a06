----------------------------- MODULE GateProofs -----------------------------
(***************************************************************************)
(* WafFilter implements Gate, and blocks a stream for the part it names,   *)
(* for any detector, any traffic, any documents and any number of streams. *)
(*                                                                         *)
(* The argument: the checks of the code come to verdicts the policies      *)
(* allow, so each callback is a step of the gate; and what the server   *)
(* has of a body and what is unread make up the body, with at most the     *)
(* piece between them that the check objected to.                          *)
(***************************************************************************)
EXTENDS WafGate, WafProofs

-----------------------------------------------------------------------------
(* The checks of the code and the words of the policies agree.             *)

(* The parameters the headers are collected into are clean just when the   *)
(* first header of each name is.                                           *)
LEMMA HeadersCheckIsExact ==
    ASSUME NEW req \in Requests \cup {NoRequest}, NEW p, p.include \in BOOLEAN
    PROVE  ~ detectSQLiOnParams(HeaderParams(req), p) <=> HeadersClean(req, p)
<1>0. CASE req = NoRequest
    <2>1. HeadersClean(req, p) /\ Clean(HeaderParams(req), p)
        BY <1>0 DEF NoRequest, HeadersClean, Clean, HeaderParams
    <2> QED BY <2>1, DetectIsNotClean
<1>1. ASSUME req \in Requests, HeadersClean(req, p), NEW name \in DOMAIN HeaderParams(req),
             Inspected(p, name)
      PROVE  ~ DetectSQLi(name) /\ ~ DetectSQLi(HeaderParams(req)[name])
    <2> DEFINE at == {j \in DOMAIN req.headers : req.headers[j][1] = name}
    <2>1. DOMAIN req.headers \in SUBSET Nat
        BY RequestsAssumption
    <2>2. at \in SUBSET Nat /\ at # {}
        BY <1>1, <2>1 DEF HeaderParams
    <2>3. Min(at) \in at /\ \A j \in at : Min(at) <= j
        BY <2>2, MinIsLeast
    <2>4. Min(at) \in DOMAIN req.headers /\ req.headers[Min(at)][1] = name
        BY <2>3
    <2>5. \A j \in DOMAIN req.headers : j < Min(at) => req.headers[j][1] # name
        <3>1. SUFFICES ASSUME NEW j \in DOMAIN req.headers, j < Min(at), req.headers[j][1] = name
              PROVE  FALSE
            OBVIOUS
        <3>2. j \in at
            BY <3>1
        <3>3. Min(at) <= j /\ j \in Nat /\ Min(at) \in Nat
            BY <2>1, <2>3, <2>4, <3>2
        <3> HIDE DEF at
        <3> QED BY <3>1, <3>3
    <2>6. HeaderParams(req)[name] = req.headers[Min(at)][2]
        BY <1>1, <2>2 DEF HeaderParams, Header
    <2> HIDE DEF at
    <2> QED BY <1>1, <2>4, <2>5, <2>6 DEF HeadersClean
<1>2. CASE req \in Requests
    <2>1. HeadersClean(req, p) => Clean(HeaderParams(req), p)
        BY <1>1, <1>2 DEF Clean
    <2> QED BY <1>2, <2>1, DetectIsNotClean, HeadersCheck
<1> QED BY <1>0, <1>2

(* What a policy objects to is objectionable when nothing is left out.     *)
LEMMA EverythingIsMore ==
    ASSUME NEW params, NEW p, ~ Clean(params, p)
    PROVE  ~ Clean(params, Everything)
<1>1. PICK name \in DOMAIN params : DetectSQLi(name) \/ DetectSQLi(params[name])
    BY DEF Clean
<1>2. Inspected(Everything, name)
    <2>1. Everything.include = FALSE /\ Everything.keys = {}
        BY DEF Everything
    <2>2. (name \in {}) = FALSE
        OBVIOUS
    <2> QED BY <2>1, <2>2, Zenon DEF Inspected
<1> QED BY <1>1, <1>2 DEF Clean

(* onRequestHeaders lets pass only what the header and cookie policies     *)
(* allow, and refuses only what has an injection to be refused for.        *)
LEMMA HeadVerdict ==
    ASSUME NEW req \in Requests \cup {NoRequest}, NEW c \in Configs(Str)
    PROVE  /\ HeaderVerdict(req, c) = "no" => HeadMayPass(req, c)
           /\ HeaderVerdict(req, c) # "no" => HeadMayBeRefused(req, c)
<1> DEFINE cookies == CookiesOf(req)
<1>1. \A p \in Parts : c[p].include \in BOOLEAN
    BY DEF Configs, Policies
<1>2. ~ detectSQLiOnParams(HeaderParams(req), c["header"]) <=> HeadersClean(req, c["header"])
    BY <1>1, HeadersCheckIsExact DEF Parts
<1>3. ~ detectSQLiOnParams(cookies, c["cookie"]) <=> Clean(cookies, c["cookie"])
    BY <1>1, DetectIsNotClean DEF Parts
<1>4. ~ detectSQLiOnParams(cookies, c["path"]) <=> Clean(cookies, c["path"])
    BY <1>1, DetectIsNotClean DEF Parts
<1>5. \A p \in Parts : ~ Clean(cookies, c[p]) => ~ Clean(cookies, Everything)
    BY EverythingIsMore
<1>6. HeaderVerdict(req, c) = "no" => HeadMayPass(req, c)
    BY <1>2, <1>3 DEF HeaderVerdict, HeadMayPass, CookiesOf
<1>7. HeaderVerdict(req, c) # "no" => HeadMayBeRefused(req, c)
    BY <1>2, <1>3, <1>4, <1>5 DEF HeaderVerdict, HeadMayBeRefused, CookiesOf, Parts
<1> QED BY <1>6, <1>7

(* onRequestBody refuses a buffer just when the policy of its stream does. *)
LEMMA PieceVerdict ==
    ASSUME NEW s, NEW piece, config[s] \in Configs(Str),
           content_type_[s] = Header(request[s], ContentTypeHeader)
    PROVE  BodyVerdict(s, piece) <=> ~ PieceAllowed(request[s], config[s], piece)
<1>1. config[s]["body"].include \in BOOLEAN
    BY DEF Configs, Policies, Parts
<1>2. ~ detectSQLiOnParams(parseBody(piece), config[s]["body"])
        <=> Clean(parseBody(piece), config[s]["body"])
    BY <1>1, DetectIsNotClean
<1> QED BY <1>2 DEF BodyVerdict, PieceAllowed, BodyInspected

-----------------------------------------------------------------------------
(* The mapping.                                                            *)

(* What the proof needs besides the invariant of WafProofs: a request whose *)
(* body is complete has been let through.                                  *)
SentWasPassed == \A s \in Streams : phase[s] = "sent" => upstream[s].headers

(* It is kept by every step.                                               *)
LEMMA SentStep ==
    ASSUME WafInv, SentWasPassed, [Next]_vars
    PROVE  SentWasPassed'
<1>1. SUFFICES ASSUME NEW t \in Streams, phase'[t] = "sent"
      PROVE  upstream'[t].headers
    BY DEF SentWasPassed
<1>2. CASE UNCHANGED streamVars
    BY <1>1, <1>2 DEF streamVars, SentWasPassed
<1>3. CASE \E s \in Streams : StreamNext(s)
    <2>1. PICK s \in Streams : StreamNext(s)
        BY <1>3
    <2>2. CASE t # s
        <3>1. Same(t)
            BY <2>1, <2>2, OthersAreSame DEF WafInv
        <3> QED BY <1>1, <3>1 DEF Same, SentWasPassed
    <2>3. CASE t = s
        <3>1. phase[s] \in Phases /\ upstream[s] \in Upstream
            BY DEF WafInv, StreamTypes
        <3>2. phase \in [Streams -> Phases] /\ upstream \in [Streams -> Upstream]
            BY DEF WafInv, StreamTypes
        <3>3. CASE OnRequestHeaders(s)
            <4>1. upstream' = [upstream EXCEPT ![s].headers = TRUE]
                BY <1>1, <2>3, <3>2, <3>3 DEF OnRequestHeaders, onSQLi
            <4> QED BY <2>3, <3>1, <3>2, <4>1 DEF Upstream
        <3>4. CASE \E n \in Chunks(s) : OnRequestBody(s, n)
            <4>1. PICK n \in Chunks(s) : OnRequestBody(s, n)
                BY <3>4
            <4>2. upstream[s].headers
                BY <4>1 DEF WafInv, AllGood, Good, OnRequestBody
            <4>3. upstream' = [upstream EXCEPT ![s].body = Append(@, SubSeq(unread[s], 1, n))]
                BY <1>1, <2>3, <3>2, <4>1 DEF OnRequestBody, onSQLi
            <4> QED BY <2>3, <3>1, <3>2, <4>2, <4>3 DEF Upstream
        <3>5. CASE OnResponseHeaders(s)
            BY <1>1, <2>3, <3>5 DEF OnResponseHeaders, SentWasPassed, WafInv, AllGood, Good
        <3>6. ~ (\E req \in Requests : OnCreate(s, req)) /\ ~ HostFail(s)
                /\ ~ OnDelete(s) /\ ~ Reset(s)
            BY <1>1, <2>3, <3>2 DEF OnCreate, HostFail, OnDelete, Reset, Destroy
        <3> QED BY <2>1, <3>3, <3>4, <3>5, <3>6 DEF StreamNext
    <2> QED BY <2>2, <2>3
<1> QED BY <1>2, <1>3 DEF Next, vars, Reconfigure

(* The invariant of the refinement.                                        *)
GateInv == WafInv /\ SentWasPassed

(* It holds of every state the filter reaches.                             *)
LEMMA GateInvariance == Spec => []GateInv
<1>1. Init => SentWasPassed
    BY DEF Init, SentWasPassed
<1>2. WafInv /\ SentWasPassed /\ [Next]_vars => SentWasPassed'
    BY SentStep
<1> QED BY <1>1, <1>2, WafInvariance, PTL DEF Spec, GateInv

(* How the verdict and the policy of the gate follow the phase of a        *)
(* stream and the copy its context holds.                                  *)
LEMMA VerdictStep ==
    ASSUME StreamTypes, NEW s \in Streams, NEW p \in Phases,
           phase' = [phase EXCEPT ![s] = p]
    PROVE  verdict' = [verdict EXCEPT ![s] = VerdictIn(p)]
BY DEF verdict, StreamTypes

(* Its policy stays as it is while it neither begins nor ends.             *)
LEMMA PolicyStep ==
    ASSUME StreamTypes, NEW s \in Streams, NEW p \in Phases,
           phase' = [phase EXCEPT ![s] = p], config' = config,
           phase[s] = "free" <=> p = "free"
    PROVE  policy' = policy
BY DEF policy, StreamTypes

(* The verdict of each phase.                                              *)
LEMMA VerdictsIn ==
    /\ VerdictIn("free") = "idle" /\ VerdictIn("blocked") = "refused"
    /\ VerdictIn("failed") = "failed" /\ VerdictIn("created") = "passing"
    /\ VerdictIn("open") = "passing" /\ VerdictIn("sent") = "passing"
BY DEF VerdictIn

(* A stream's policy is a configuration once it has begun.                 *)
LEMMA PolicyOf ==
    ASSUME StreamTypes, NEW s \in Streams, phase[s] # "free"
    PROVE  policy[s] = config[s] /\ config[s] \in Configs(Str)
BY DEF policy, StreamTypes

(* A policy that is in force, or that a stream runs under, is one that     *)
(* documents asked for.                                                    *)
LEMMA RootIsAPolicy ==
    ASSUME NEW c \in Configs(Str), NEW documents \in Seq(Documents \cup {NoDocument}),
           \A p \in Parts :
               \/ c[p] = DefaultConfig[p]
               \/ \E i \in DOMAIN documents :
                     Asks(documents[i], p) /\ c[p] = Asked(documents[i], p)
    PROVE  c \in DocumentPolicies
<1>1. \A i \in DOMAIN documents : documents[i] \in Documents \cup {NoDocument}
    OBVIOUS
<1>2. ASSUME NEW p \in Parts, c[p] # DefaultConfig[p]
      PROVE  \E document \in Documents : Asks(document, p) /\ c[p] = Asked(document, p)
    <2>1. PICK i \in DOMAIN documents : Asks(documents[i], p) /\ c[p] = Asked(documents[i], p)
        BY <1>2
    <2>2. documents[i] \in Documents
        BY <1>1, <2>1 DEF Asks
    <2> QED BY <2>1, <2>2
<1> QED BY <1>2 DEF DocumentPolicies

-----------------------------------------------------------------------------
(* Every action of the filter is an action of the gate, or none.           *)

(* The gate sees of the root context only what is in force.                *)
LEMMA ReconfigureIsChange ==
    ASSUME GateInv, GateInv', NEW document, Reconfigure(document)
    PROVE  G!Change
<1>1. vm # "trapped" /\ UNCHANGED streamVars
    BY DEF Reconfigure, OnConfigure
<1>2. inForce = root /\ root \in Configs(Str)
    BY <1>1 DEF inForce, Running, GateInv, WafInv, RootTypeOK, Configs, Policies
<1>3. inForce # NoPolicy
    BY <1>2, NoPolicyAssumption
<1>4. inForce' \in DocumentPolicies \cup {NoPolicy}
    <2>1. CASE Running'
        <3>1. root' \in Configs(Str) /\ given' \in Seq(Documents \cup {NoDocument})
            BY DEF GateInv, WafInv, RootTypeOK, Configs, Policies
        <3>2. \A p \in Parts :
                  \/ root'[p] = DefaultConfig[p]
                  \/ \E i \in DOMAIN given' :
                        Asks(given'[i], p) /\ root'[p] = Asked(given'[i], p)
            BY <2>1 DEF GateInv, WafInv, PartsFromOneDocument, Running
        <3>3. root' \in DocumentPolicies
            BY <3>1, <3>2, RootIsAPolicy
        <3> QED BY <2>1, <3>3 DEF inForce
    <2>2. CASE ~ Running'
        BY <2>2 DEF inForce
    <2> QED BY <2>1, <2>2
<1>5. UNCHANGED <<verdict, request, policy, unread, upstream, response>>
    BY <1>1 DEF streamVars, verdict, policy
<1> QED BY <1>3, <1>4, <1>5 DEF G!Change

(* A new stream begins under what is in force.                             *)
LEMMA CreateIsBegin ==
    ASSUME GateInv, NEW s \in Streams, NEW req \in Requests, OnCreate(s, req)
    PROVE  G!Begin(s, req)
<1>1. StreamTypes /\ UNCHANGED rootVars /\ Running
    BY DEF GateInv, WafInv, OnCreate, Running
<1>2. inForce' = inForce /\ inForce = root
    BY <1>1 DEF rootVars, inForce, Running
<1>3. root \in Configs(Str)
    BY DEF GateInv, WafInv, RootTypeOK, Configs, Policies
<1>4. verdict' = [verdict EXCEPT ![s] = "passing"]
    BY <1>1, VerdictStep, VerdictsIn DEF OnCreate, Phases
<1>5. verdict[s] = "idle"
    BY VerdictsIn DEF OnCreate, verdict
<1>6. policy' = [policy EXCEPT ![s] = inForce]
    BY <1>1, <1>2 DEF OnCreate, policy, StreamTypes
<1> QED BY <1>2, <1>3, <1>4, <1>5, <1>6, NoPolicyAssumption DEF OnCreate, G!Begin, G!Set

(* The headers pass or are refused, whichever their verdict is.            *)
LEMMA HeadersArePassedOrRefused ==
    ASSUME GateInv, NEW s \in Streams, OnRequestHeaders(s)
    PROVE  G!PassHead(s) \/ G!RefuseHead(s)
<1>1. StreamTypes /\ UNCHANGED rootVars /\ phase[s] = "created"
    BY DEF GateInv, WafInv, OnRequestHeaders
<1>2. inForce' = inForce
    BY <1>1 DEF rootVars, inForce, Running
<1>3. verdict[s] = "passing"
    BY <1>1, VerdictsIn DEF verdict
<1>4. Good(s)
    BY DEF GateInv, WafInv, AllGood
<1>5. ~ upstream[s].headers /\ upstream[s].body = << >> /\ response[s] = NoResponse
    BY <1>1, <1>4 DEF Good
<1>6. policy[s] = config[s] /\ config[s] \in Configs(Str)
    BY <1>1, PolicyOf
<1>7. request[s] \in Requests \cup {NoRequest}
    BY <1>1 DEF StreamTypes
<1>8. /\ HeaderVerdict(request[s], config[s]) = "no" => HeadMayPass(request[s], policy[s])
      /\ HeaderVerdict(request[s], config[s]) # "no" => HeadMayBeRefused(request[s], policy[s])
    BY <1>6, <1>7, HeadVerdict
<1>9. CASE HeaderVerdict(request[s], config[s]) = "no"
    <2>1. /\ upstream' = [upstream EXCEPT ![s].headers = TRUE]
          /\ UNCHANGED <<request, config, unread, response>>
        BY <1>9 DEF OnRequestHeaders
    <2>2. PICK p \in {"open", "sent"} : phase' = [phase EXCEPT ![s] = p]
        BY <1>9 DEF OnRequestHeaders
    <2>3. verdict' = [verdict EXCEPT ![s] = "passing"]
        BY <1>1, <2>2, VerdictStep, VerdictsIn DEF Phases
    <2>4. verdict' = verdict
        BY <1>3, <2>3 DEF verdict
    <2>5. policy' = policy
        BY <1>1, <2>1, <2>2, PolicyStep DEF Phases
    <2> QED BY <1>2, <1>3, <1>5, <1>8, <1>9, <2>1, <2>4, <2>5 DEF G!PassHead, G!Set
<1>10. CASE HeaderVerdict(request[s], config[s]) # "no"
    <2>1. /\ phase' = [phase EXCEPT ![s] = "blocked"]
          /\ response' = [response EXCEPT ![s] =
                  IF @ = NoResponse THEN [code |-> "403", headers |-> {}] ELSE @]
          /\ UNCHANGED <<request, config, unread, upstream>>
        BY <1>10 DEF OnRequestHeaders, onSQLi
    <2>2. verdict' = [verdict EXCEPT ![s] = "refused"]
        BY <1>1, <2>1, VerdictStep, VerdictsIn DEF Phases
    <2>3. policy' = policy
        BY <1>1, <2>1, PolicyStep DEF Phases
    <2>4. response' = [response EXCEPT ![s] = [code |-> "403", headers |-> {}]]
        BY <1>1, <1>5, <2>1 DEF StreamTypes
    <2> QED BY <1>2, <1>3, <1>5, <1>8, <1>10, <2>1, <2>2, <2>3, <2>4
            DEF G!RefuseHead, G!Set, G!Told
<1> QED BY <1>9, <1>10

(* A buffer passes if the policy of the stream's creation allows it.       *)
LEMMA PieceIsPassedOrRefused ==
    ASSUME GateInv, NEW s \in Streams, NEW n \in Chunks(s), OnRequestBody(s, n)
    PROVE  G!PassPiece(s, n) \/ G!RefusePiece(s, n)
<1> DEFINE piece == SubSeq(unread[s], 1, n)
           left == SubSeq(unread[s], n + 1, Len(unread[s]))
<1>1. StreamTypes /\ UNCHANGED rootVars /\ phase[s] = "open"
    BY DEF GateInv, WafInv, OnRequestBody
<1>2. inForce' = inForce
    BY <1>1 DEF rootVars, inForce, Running
<1>3. verdict[s] = "passing"
    BY <1>1, VerdictsIn DEF verdict
<1>4. Good(s)
    BY DEF GateInv, WafInv, AllGood
<1>5. upstream[s].headers /\ content_type_[s] = Header(request[s], ContentTypeHeader)
    BY <1>1, <1>4 DEF Good
<1>6. policy[s] = config[s] /\ config[s] \in Configs(Str)
    BY <1>1, PolicyOf
<1>7. BodyVerdict(s, piece) <=> ~ PieceAllowed(request[s], policy[s], piece)
    BY <1>5, <1>6, PieceVerdict
<1>8. /\ unread' = [unread EXCEPT ![s] = left]
      /\ UNCHANGED <<request, config>>
    BY DEF OnRequestBody
<1>9. CASE ~ BodyVerdict(s, piece)
    <2>1. /\ upstream' = [upstream EXCEPT ![s].body = Append(@, piece)]
          /\ UNCHANGED response
        BY <1>9 DEF OnRequestBody
    <2>2. PICK p \in {"open", "sent"} : phase' = [phase EXCEPT ![s] = p]
        BY <1>9 DEF OnRequestBody
    <2>3. verdict' = [verdict EXCEPT ![s] = "passing"]
        BY <1>1, <2>2, VerdictStep, VerdictsIn DEF Phases
    <2>4. verdict' = verdict
        BY <1>3, <2>3 DEF verdict
    <2>5. policy' = policy
        BY <1>1, <1>8, <2>2, PolicyStep DEF Phases
    <2> QED BY <1>2, <1>3, <1>5, <1>7, <1>8, <1>9, <2>1, <2>4, <2>5
            DEF G!PassPiece, G!Set, G!Cut, G!Drop
<1>10. CASE BodyVerdict(s, piece)
    <2>1. /\ phase' = [phase EXCEPT ![s] = "blocked"]
          /\ response' = [response EXCEPT ![s] =
                  IF @ = NoResponse THEN [code |-> "403", headers |-> {}] ELSE @]
          /\ UNCHANGED upstream
        BY <1>10 DEF OnRequestBody, onSQLi
    <2>2. verdict' = [verdict EXCEPT ![s] = "refused"]
        BY <1>1, <2>1, VerdictStep, VerdictsIn DEF Phases
    <2>3. policy' = policy
        BY <1>1, <1>8, <2>1, PolicyStep DEF Phases
    <2> QED BY <1>2, <1>3, <1>5, <1>7, <1>8, <1>10, <2>1, <2>2, <2>3
            DEF G!RefusePiece, G!Set, G!Told, G!FirstAnswer, G!NoAnswer, NoResponse, G!Cut, G!Drop
<1> QED BY <1>9, <1>10

(* A response begins only for what was let through.                        *)
LEMMA ResponseIsAnswer ==
    ASSUME GateInv, NEW s \in Streams, OnResponseHeaders(s)
    PROVE  G!Answer(s)
<1>1. /\ UNCHANGED <<rootVars, phase, request, config, unread, upstream>>
      /\ phase[s] \in {"open", "sent"} /\ response[s] = NoResponse
      /\ response' = [response EXCEPT ![s] = [code |-> "200", headers |-> ServerHeaders]]
    BY DEF OnResponseHeaders
<1>2. inForce' = inForce /\ verdict' = verdict /\ policy' = policy
    BY <1>1 DEF rootVars, inForce, Running, verdict, policy
<1>3. verdict[s] = "passing"
    BY <1>1, VerdictsIn DEF verdict
<1>4. upstream[s].headers
    BY <1>1 DEF GateInv, WafInv, AllGood, Good, SentWasPassed
<1> QED BY <1>1, <1>2, <1>3, <1>4 DEF G!Answer, G!Set, G!NoAnswer, NoResponse

(* A stream fails only when nothing is in force any more.                  *)
LEMMA HostFailIsFail ==
    ASSUME GateInv, NEW s \in Streams, HostFail(s)
    PROVE  G!Fail(s)
<1>1. /\ StreamTypes /\ ~ Running
      /\ phase[s] \in {"created", "open", "sent"}
      /\ phase' = [phase EXCEPT ![s] = "failed"]
      /\ response' = [response EXCEPT ![s] =
             IF @ = NoResponse THEN [code |-> "503", headers |-> {}] ELSE @]
      /\ UNCHANGED <<rootVars, request, config, unread, upstream>>
    BY DEF HostFail, GateInv, WafInv
<1>2. inForce = NoPolicy /\ inForce' = inForce
    BY <1>1 DEF rootVars, inForce, Running
<1>3. verdict[s] = "passing"
    BY <1>1, VerdictsIn DEF verdict
<1>4. verdict' = [verdict EXCEPT ![s] = "failed"]
    BY <1>1, VerdictStep, VerdictsIn DEF Phases
<1>5. policy' = policy
    BY <1>1, PolicyStep DEF Phases
<1> QED BY <1>1, <1>2, <1>3, <1>4, <1>5
        DEF G!Fail, G!Set, G!Told, G!FirstAnswer, G!NoAnswer, NoResponse

(* Every way a stream ends leaves nothing of it behind.                    *)
LEMMA DestroyIsEnd ==
    ASSUME GateInv, NEW s \in Streams, OnDelete(s) \/ Reset(s)
    PROVE  G!End(s)
<1>1. Destroy(s) /\ phase[s] # "free" /\ StreamTypes
    BY DEF OnDelete, Reset, GateInv, WafInv
<1>2. inForce' = inForce
    BY <1>1 DEF Destroy, rootVars, inForce, Running
<1>3. verdict[s] # "idle"
    BY <1>1, VerdictsIn DEF verdict, StreamTypes, Phases
<1>4. verdict' = [verdict EXCEPT ![s] = "idle"]
    BY <1>1, VerdictStep, VerdictsIn DEF Destroy, Phases
<1>5. policy' = [policy EXCEPT ![s] = NoPolicy]
    BY <1>1 DEF Destroy, policy, StreamTypes
<1> QED BY <1>1, <1>2, <1>3, <1>4, <1>5
        DEF Destroy, G!End, G!Set, G!Nothing, G!NoAnswer, NoResponse

-----------------------------------------------------------------------------
(* The filter is a gate: for any detector, documents, traffic and number   *)
(* of streams, a request passes exactly as far as the policies in force    *)
(* when its stream was created allow, in order, and nothing passes after   *)
(* a refusal.                                                              *)
THEOREM FilterIsGate == Spec => ImplementsGate
<1>1. Init => G!Init
    <2>1. SUFFICES ASSUME Init PROVE G!Init
        OBVIOUS
    <2>2. root = DefaultConfig /\ Running
        BY <2>1 DEF Init, RootInit, Running
    <2>3. DefaultConfig \in DocumentPolicies
        BY Values DEF DocumentPolicies
    <2>4. inForce \in DocumentPolicies
        BY <2>2, <2>3 DEF inForce
    <2>5. verdict = [s \in Streams |-> "idle"] /\ policy = [s \in Streams |-> NoPolicy]
        BY <2>1, VerdictsIn DEF Init, verdict, policy
    <2> QED BY <2>1, <2>4, <2>5 DEF Init, G!Init, G!Nothing, G!NoAnswer, NoResponse
<1>2. GateInv /\ GateInv' /\ [Next]_vars => [G!Next]_G!gateVars
    <2>1. SUFFICES ASSUME GateInv, GateInv', [Next]_vars PROVE [G!Next]_G!gateVars
        OBVIOUS
    <2>2. CASE UNCHANGED vars
        BY <2>2 DEF vars, rootVars, streamVars, G!gateVars, inForce, Running, verdict, policy
    <2>3. CASE \E document \in Documents \cup {NoDocument} : Reconfigure(document)
        BY <2>1, <2>3, ReconfigureIsChange DEF G!Next
    <2>4. CASE \E s \in Streams : StreamNext(s)
        <3>1. PICK s \in Streams : StreamNext(s)
            BY <2>4
        <3>2. G!StreamStep(s)
            BY <2>1, <3>1, CreateIsBegin, HeadersArePassedOrRefused, PieceIsPassedOrRefused,
               ResponseIsAnswer, HostFailIsFail, DestroyIsEnd
            DEF StreamNext, Chunks, G!StreamStep
        <3> QED BY <3>2 DEF G!Next
    <2> QED BY <2>1, <2>2, <2>3, <2>4 DEF Next
<1> QED BY <1>1, <1>2, GateInvariance, PTL DEF Spec, G!Spec, ImplementsGate

-----------------------------------------------------------------------------
(* Why a stream is blocked.  What the server has of a body, and how it     *)
(* grows by a piece.                                                       *)

(* Texts joined are a text.                                                *)
LEMMA JoinedText ==
    \A t, u \in Str : t \o u \in Str
BY DEF Str

(* Joining may be done in either order, and nothing joined changes nothing. *)
LEMMA JoinedTwice ==
    /\ \A t, u, v \in Str : (t \o u) \o v = t \o (u \o v)
    /\ \A t \in Str : t \o << >> = t /\ << >> \o t = t
<1> DEFINE S == 0 .. 255
<1> HIDE DEF S
<1>1. ASSUME NEW t \in Seq(S), NEW u \in Seq(S), NEW v \in Seq(S)
      PROVE  (t \o u) \o v = t \o (u \o v)
    BY <1>1, ConcatAssociative
<1>2. ASSUME NEW t \in Seq(S) PROVE t \o << >> = t /\ << >> \o t = t
    BY <1>2, ConcatEmptySeq
<1> QED BY <1>1, <1>2 DEF S, Str

(* A text cut in two is the two parts joined.                              *)
LEMMA CutAndJoined ==
    ASSUME NEW text \in Str, NEW n \in 0 .. Len(text)
    PROVE  SubSeq(text, 1, n) \o SubSeq(text, n + 1, Len(text)) = text
<1> DEFINE S == 0 .. 255
           l == SubSeq(text, 1, n)
           r == SubSeq(text, n + 1, Len(text))
<1>1. text \in Seq(S) /\ Len(text) \in Nat
    BY DEF Str
<1> HIDE DEF S
<1>2. l \in Seq(S) /\ Len(l) = n /\ \A i \in 1 .. n : l[i] = text[i]
    BY <1>1
<1>3. r \in Seq(S) /\ Len(r) = Len(text) - n /\ \A i \in 1 .. Len(text) - n : r[i] = text[n + i]
    <2>1. \A i \in n + 1 .. Len(text) : text[i] \in S
        BY <1>1
    <2>2. r \in Seq(S) /\ Len(r) = Len(text) - n
        BY <1>1, <2>1
    <2>3. \A i \in 1 .. Len(text) - n : r[i] = text[n + i]
        BY <1>1
    <2> QED BY <2>2, <2>3
<1> HIDE DEF l, r
<1>4. /\ l \o r \in Seq(S) /\ Len(l \o r) = Len(text)
      /\ \A i \in 1 .. Len(text) : (l \o r)[i] = text[i]
    <2>1. /\ l \o r \in Seq(S) /\ Len(l \o r) = Len(l) + Len(r)
          /\ \A i \in 1 .. Len(l) + Len(r) : (l \o r)[i] = IF i <= Len(l) THEN l[i] ELSE r[i - Len(l)]
        BY <1>2, <1>3
    <2>2. Len(l) + Len(r) = Len(text)
        BY <1>1, <1>2, <1>3
    <2>3. ASSUME NEW i \in 1 .. Len(text) PROVE (l \o r)[i] = text[i]
        <3>1. CASE i <= n
            BY <1>1, <1>2, <2>1, <2>2, <3>1
        <3>2. CASE ~ (i <= n)
            <4>1. i - n \in 1 .. Len(text) - n /\ n + (i - n) = i
                BY <1>1, <3>2
            <4> QED BY <1>1, <1>2, <1>3, <2>1, <2>2, <3>2, <4>1
        <3> QED BY <3>1, <3>2
    <2> QED BY <2>1, <2>2, <2>3
<1>5. l \o r = text
    <2> DEFINE j == l \o r
    <2>1. j \in Seq(S) /\ Len(j) = Len(text) /\ \A i \in 1 .. Len(text) : j[i] = text[i]
        BY <1>4
    <2> HIDE DEF j
    <2>2. j = text
        BY <1>1, <2>1
    <2> QED BY <2>2 DEF j
<1> QED BY <1>5 DEF l, r

(* And the middle of three parts stands after the first and before the     *)
(* last.                                                                   *)
LEMMA MiddleIsFound ==
    ASSUME NEW t \in Str, NEW u \in Str, NEW v \in Str
    PROVE  LET text == (t \o u) \o v
           IN  SubSeq(text, Len(t) + 1, Len(text) - Len(v)) = u
<1> DEFINE S == 0 .. 255
           tu == t \o u
           text == tu \o v
<1>1. /\ t \in Seq(S) /\ u \in Seq(S) /\ v \in Seq(S)
      /\ Len(t) \in Nat /\ Len(u) \in Nat /\ Len(v) \in Nat
    BY DEF Str
<1> HIDE DEF S
<1>2. tu \in Seq(S) /\ Len(tu) = Len(t) + Len(u)
    BY <1>1, ConcatProperties
<1>3. Len(text) = Len(tu) + Len(v)
    <2> HIDE DEF tu
    <2> QED BY <1>1, <1>2, ConcatProperties
<1>4. Len(text) - Len(v) = Len(t) + Len(u)
    <2> HIDE DEF text, tu
    <2> QED BY <1>1, <1>2, <1>3
<1>5. CASE Len(u) = 0
    <2>1. u = << >>
        BY <1>1, <1>5, EmptySeq
    <2>2. Len(t) + 1 \in Int /\ Len(t) + Len(u) \in Int /\ Len(t) + Len(u) < Len(t) + 1
        BY <1>1, <1>5
    <2>3. SubSeq(text, Len(t) + 1, Len(t) + Len(u)) = << >>
        BY <2>2, SubSeqEmpty, Zenon
    <2> QED BY <1>4, <2>1, <2>3
<1>6. CASE Len(u) # 0
    <2> DEFINE m == Len(t) + 1
               n == Len(t) + Len(u)
    <2>1. /\ m \in 1 .. Len(tu) /\ n \in 1 .. Len(tu)
          /\ m \in Len(t) + 1 .. Len(t) + Len(u) /\ n \in Len(t) + 1 .. Len(t) + Len(u)
          /\ m - Len(t) = 1 /\ n - Len(t) = Len(u)
        <3> HIDE DEF tu
        <3> QED BY <1>1, <1>2, <1>6
    <2> HIDE DEF m, n
    <2>2. SubSeq(text, m, n) = SubSeq(tu, m, n)
        <3> HIDE DEF tu
        <3> QED BY <1>1, <1>2, <2>1, SubSeqOfConcat1
    <2>3. SubSeq(tu, m, n) = SubSeq(u, 1, Len(u))
        BY <1>1, <2>1, SubSeqOfConcat2
    <2>4. SubSeq(u, 1, Len(u)) = u
        BY <1>1, SubSeqFull
    <2> HIDE DEF tu, text
    <2> QED BY <1>4, <2>2, <2>3, <2>4 DEF m, n
<1> QED BY <1>5, <1>6

(* FlattenSeq joins texts one by one; what its function is made of.        *)
Joined(seqs, i, g) == IF i = 1 THEN seqs[i] ELSE g[i - 1] \o seqs[i]
Flattened(seqs) ==
    CHOOSE flatten : flatten =
        [i \in 1 .. Len(seqs) |-> IF i = 1 THEN seqs[i] ELSE flatten[i - 1] \o seqs[i]]

(* FlattenSeq is the last value of that function, or nothing.              *)
LEMMA FlattenIs ==
    \A seqs : FlattenSeq(seqs) = IF Len(seqs) = 0 THEN seqs ELSE Flattened(seqs)[Len(seqs)]
BY Zenon DEF FlattenSeq, Flattened

(* However many the texts, the function exists.                            *)
LEMMA FlattenedDef ==
    ASSUME NEW seqs \in Seq(Str)
    PROVE  /\ \A i \in 1 .. Len(seqs) : Flattened(seqs)[i] = Joined(seqs, i, Flattened(seqs))
           /\ \A i \in 1 .. Len(seqs) : Flattened(seqs)[i] \in Str
<1> DEFINE N == Len(seqs) + 1
           D == 1 .. Len(seqs)
           measure == [i \in D |-> i]
           step == [i \in D |-> [g \in [D -> Str] |-> Joined(seqs, i, g)]]
           f == Flattened(seqs)
<1>1. Len(seqs) \in Nat /\ N \in Nat /\ \A i \in D : seqs[i] \in Str
    <2> HIDE DEF Str
    <2> QED OBVIOUS
<1>2. ASSUME NEW i \in D, NEW g, i = 1 \/ g[i - 1] \in Str PROVE Joined(seqs, i, g) \in Str
    <2> HIDE DEF Str
    <2> QED BY <1>1, <1>2, JoinedText DEF Joined
<1>3. PICK g \in [D -> Str] : \A i \in D : g[i] = Joined(seqs, i, g)
    <2>1. Str # {}
        BY Values
    <2>2. Measures(measure, D, N)
        BY <1>1 DEF Measures
    <2>3. \A i \in D, g \in [D -> Str] : step[i][g] = Joined(seqs, i, g)
        OBVIOUS
    <2>4. step \in [D -> [[D -> Str] -> Str]]
        <3>1. ASSUME NEW i \in D, NEW g \in [D -> Str] PROVE Joined(seqs, i, g) \in Str
            <4>1. i = 1 \/ i - 1 \in D
                BY <1>1
            <4> HIDE DEF D, Str
            <4> QED BY <1>2, <4>1
        <3> HIDE DEF D, Str
        <3> QED BY <3>1
    <2>5. ASSUME NEW i \in D, NEW g \in [D -> Str], NEW h \in [D -> Str],
                 \A j \in D : measure[j] < measure[i] => g[j] = h[j]
          PROVE  step[i][g] = step[i][h]
        <3>1. i = 1 \/ (i - 1 \in D /\ i - 1 < i)
            BY <1>1
        <3>2. i = 1 \/ g[i - 1] = h[i - 1]
            BY <2>5, <3>1
        <3> QED BY <2>3, <3>2 DEF Joined
    <2> HIDE DEF measure, step, D, N, Str
    <2>6. LooksDown(step, measure, D, Str)
        BY <2>4, <2>5 DEF LooksDown
    <2>7. \E g \in [D -> Str] : IsFixed(g, step, D)
        BY <1>1, <2>1, <2>2, <2>6, Recursion
    <2> QED BY <2>3, <2>7 DEF IsFixed
<1>4. g = [i \in D |-> IF i = 1 THEN seqs[i] ELSE g[i - 1] \o seqs[i]]
    <2> HIDE DEF D, Str
    <2> QED BY <1>3 DEF Joined
<1>5. f = [i \in D |-> IF i = 1 THEN seqs[i] ELSE f[i - 1] \o seqs[i]]
    BY <1>4, Zenon DEF Flattened
<1>6. \A i \in D : f[i] = Joined(seqs, i, f)
    <2> HIDE DEF D, f
    <2> QED BY <1>5 DEF Joined
<1>7. \A i \in D : f[i] \in Str
    <2> DEFINE S == {n \in Nat : n \in D => f[n] \in Str}
    <2>1. ASSUME NEW n \in Nat, \A m \in Nat : m < n => m \in S PROVE n \in S
        <3> SUFFICES ASSUME n \in D PROVE f[n] \in Str
            OBVIOUS
        <3>1. n = 1 \/ (n - 1 \in Nat /\ n - 1 < n /\ n - 1 \in D)
            BY <1>1
        <3>2. n = 1 \/ f[n - 1] \in Str
            BY <2>1, <3>1
        <3>3. Joined(seqs, n, f) \in Str
            <4> HIDE DEF f, D, Str
            <4> QED BY <1>2, <3>2
        <3> HIDE DEF f, D, Str
        <3> QED BY <1>6, <3>3
    <2> HIDE DEF S
    <2>2. \A n \in Nat : n \in S
        BY <2>1, Induction
    <2> QED BY <1>1, <2>2 DEF S
<1> QED BY <1>6, <1>7

(* The texts joined are a text, and one more is joined to them at the end. *)
LEMMA FlattenAppends ==
    ASSUME NEW seqs \in Seq(Str), NEW last \in Str
    PROVE  /\ FlattenSeq(seqs) \in Str
           /\ FlattenSeq(Append(seqs, last)) = FlattenSeq(seqs) \o last
<1> DEFINE more == Append(seqs, last)
           n == Len(seqs)
           f == Flattened(seqs)
           g == Flattened(more)
           S == {i \in Nat : i \in 1 .. n => g[i] = f[i]}
<1> HIDE DEF Str
<1>1. /\ n \in Nat /\ more \in Seq(Str) /\ Len(more) = n + 1 /\ more[n + 1] = last
      /\ \A i \in 1 .. n : more[i] = seqs[i]
    OBVIOUS
<1> HIDE DEF more
<1>2. /\ \A i \in 1 .. n : f[i] = Joined(seqs, i, f) /\ f[i] \in Str
      /\ \A i \in 1 .. n + 1 : g[i] = Joined(more, i, g)
    BY <1>1, FlattenedDef
<1> HIDE DEF f, g, n
<1>3. ASSUME NEW i \in Nat, \A m \in Nat : m < i => m \in S PROVE i \in S
    <2> SUFFICES ASSUME i \in 1 .. n PROVE g[i] = f[i]
        OBVIOUS
    <2>1. i \in 1 .. n + 1 /\ more[i] = seqs[i]
        BY <1>1
    <2>2. i = 1 \/ (i - 1 \in Nat /\ i - 1 < i /\ i - 1 \in 1 .. n)
        BY <1>1
    <2>3. i = 1 \/ g[i - 1] = f[i - 1]
        BY <1>3, <2>2
    <2>4. Joined(more, i, g) = Joined(seqs, i, f)
        BY <2>1, <2>3, Zenon DEF Joined
    <2> QED BY <1>2, <2>1, <2>4
<1> HIDE DEF S
<1>4. \A i \in Nat : i \in S
    BY <1>3, Induction
<1>5. \A i \in 1 .. n : g[i] = f[i]
    BY <1>1, <1>4 DEF S
<1>6. FlattenSeq(more) = g[n + 1]
    BY <1>1, FlattenIs DEF g
<1>7. n + 1 \in 1 .. n + 1 /\ (n + 1) - 1 = n
    BY <1>1
<1>8. g[n + 1] = IF n + 1 = 1 THEN last ELSE g[n] \o last
    BY <1>1, <1>2, <1>7, Zenon DEF Joined
<1>9. CASE n = 0
    <2>1. seqs = << >> /\ FlattenSeq(seqs) = seqs
        BY <1>1, <1>9, FlattenIs DEF n
    <2>2. g[n + 1] = last
        BY <1>8, <1>9
    <2> QED BY <1>6, <2>1, <2>2, Values, JoinedTwice DEF more
<1>10. CASE n # 0
    <2>1. n \in 1 .. n /\ n + 1 # 1
        BY <1>1, <1>10
    <2>2. FlattenSeq(seqs) = f[n] /\ f[n] \in Str
        BY <1>2, <1>10, <2>1, FlattenIs DEF f, n
    <2>3. g[n + 1] = f[n] \o last
        BY <1>5, <1>8, <2>1
    <2> QED BY <1>6, <2>2, <2>3 DEF more
<1> QED BY <1>9, <1>10

-----------------------------------------------------------------------------
(* What has become of each part of a request: until it is blocked for its  *)
(* body, the server has of it what is not unread; then there is the piece  *)
(* between the two, and it is what the check objected to.                  *)
Objected(s, piece) == detectSQLiOnParams(parseBody(piece), config[s]["body"])
Accounted(s) ==
    /\ phase[s] # "free" /\ blocked[s] # "body" =>
          request[s].body = Received(s) \o unread[s]
    /\ blocked[s] = "body" =>
          /\ upstream[s].headers /\ BodyInspected(request[s])
          /\ \E piece \in Str : /\ request[s].body = (Received(s) \o piece) \o unread[s]
                                /\ Objected(s, piece)
    /\ blocked[s] \in {"header", "cookie", "path"} =>
          HeaderVerdict(request[s], config[s]) = blocked[s]
AllAccounted == \A s \in Streams : Accounted(s)

(* A step that is not a stream's own leaves its account.                   *)
LEMMA SameIsAccounted ==
    ASSUME NEW s \in Streams, Accounted(s), Same(s)
    PROVE  Accounted(s)'
BY DEF Accounted, Same, BodyInspected, Received, Objected

(* A new stream's body is unread.                                          *)
LEMMA CreateIsAccounted ==
    ASSUME StreamTypes, NEW s \in Streams, Good(s), NEW req \in Requests, OnCreate(s, req)
    PROVE  Accounted(s)'
<1>1. /\ phase[s] = "free" /\ request'[s] = req /\ unread'[s] = req.body
      /\ upstream'[s] = upstream[s] /\ blocked'[s] = blocked[s]
    BY DEF OnCreate, StreamTypes
<1>2. upstream'[s].body = << >> /\ blocked'[s] = "no"
    BY <1>1 DEF Good
<1>3. Received(s)' = << >>
    <2>1. FlattenSeq(<< >>) = << >>
        BY FlattenIs
    <2> QED BY <1>2, <2>1 DEF Received
<1>4. req.body \in Str
    BY RequestsAssumption
<1>5. request'[s].body = Received(s)' \o unread'[s]
    BY <1>1, <1>3, <1>4, JoinedTwice
<1> QED BY <1>2, <1>5 DEF Accounted

(* The headers are blocked for the check that objected to them.            *)
LEMMA HeadersAreAccounted ==
    ASSUME StreamTypes, NEW s \in Streams, Good(s), Accounted(s), OnRequestHeaders(s)
    PROVE  Accounted(s)'
<1> DEFINE found == HeaderVerdict(request[s], config[s])
<1>1. /\ phase[s] = "created" /\ request'[s] = request[s] /\ config'[s] = config[s]
      /\ unread'[s] = unread[s]
    BY DEF OnRequestHeaders
<1>2. blocked[s] = "no"
    BY <1>1 DEF Good
<1>3. found \in {"no", "header", "cookie", "path"} /\ found' = found
    BY <1>1 DEF HeaderVerdict
<1>4. \/ found # "no" /\ onSQLi(s, found) /\ UNCHANGED upstream
      \/ /\ found = "no" /\ UNCHANGED blocked
         /\ upstream' = [upstream EXCEPT ![s].headers = TRUE]
    BY DEF OnRequestHeaders
<1>5. upstream'[s].body = upstream[s].body
    BY <1>4 DEF StreamTypes, Upstream
<1>6. blocked'[s] = found
    <2> HIDE DEF found
    <2> QED BY <1>2, <1>4, OnSQLiEffect
<1>7. request'[s].body = Received(s)' \o unread'[s]
    BY <1>1, <1>2, <1>5 DEF Accounted, Received
<1> HIDE DEF found
<1>8. /\ blocked'[s] # "body"
      /\ blocked'[s] \in {"header", "cookie", "path"} => found' = blocked'[s]
    BY <1>3, <1>6
<1> QED BY <1>7, <1>8 DEF Accounted, found

(* Of the body, the piece of this call follows what the server has.        *)
LEMMA BodyIsAccounted ==
    ASSUME StreamTypes, NEW s \in Streams, Good(s), Accounted(s),
           NEW n \in Chunks(s), OnRequestBody(s, n)
    PROVE  Accounted(s)'
<1> DEFINE buffer == SubSeq(unread[s], 1, n)
           rest == SubSeq(unread[s], n + 1, Len(unread[s]))
           has == Received(s)
           sent == upstream[s].body
<1>1. /\ phase[s] = "open" /\ request'[s] = request[s] /\ config'[s] = config[s]
      /\ unread' = [unread EXCEPT ![s] = rest]
      /\ \/ BodyVerdict(s, buffer) /\ onSQLi(s, "body") /\ UNCHANGED upstream
         \/ /\ UNCHANGED blocked
            /\ upstream' = [upstream EXCEPT ![s].body = Append(sent, buffer)]
    BY DEF OnRequestBody
<1>2. /\ content_type_[s] = Header(request[s], ContentTypeHeader)
      /\ upstream[s].headers /\ blocked[s] = "no"
    BY <1>1 DEF Good
<1>3. buffer \in Str /\ rest \in Str /\ buffer \o rest = unread[s]
    <2>1. unread[s] \in Str
        BY DEF StreamTypes
    <2>2. n \in 1 .. Len(unread[s]) /\ Len(unread[s]) \in Nat
        BY <2>1 DEF Chunks, Str
    <2>3. /\ 1 \in 1 .. Len(unread[s]) + 1 /\ n \in 0 .. Len(unread[s])
          /\ n + 1 \in 1 .. Len(unread[s]) + 1 /\ Len(unread[s]) \in 0 .. Len(unread[s])
        BY <2>2
    <2> QED BY <2>1, <2>3, PieceIsText, CutAndJoined
<1>4. unread'[s] = rest
    BY <1>1 DEF StreamTypes
<1> HIDE DEF buffer, rest
<1>5. sent \in Seq(Str) /\ upstream[s] \in Upstream
    BY DEF StreamTypes, Upstream
<1>6. has \in Str /\ FlattenSeq(Append(sent, buffer)) = has \o buffer
    <2> HIDE DEF sent
    <2> QED BY <1>3, <1>5, FlattenAppends DEF Received, sent
<1>7. request[s].body = (has \o buffer) \o rest
    <2>1. request[s].body = has \o unread[s]
        BY <1>1, <1>2 DEF Accounted
    <2> HIDE DEF has
    <2>2. (has \o buffer) \o rest = has \o (buffer \o rest)
        BY <1>3, <1>6, JoinedTwice, Zenon
    <2> QED BY <1>3, <2>1, <2>2, Zenon
<1>8. CASE BodyVerdict(s, buffer) /\ onSQLi(s, "body") /\ UNCHANGED upstream
    <2>1. blocked'[s] = "body" /\ upstream'[s] = upstream[s]
        BY <1>8, OnSQLiEffect
    <2>2. BodyInspected(request[s])'
        BY <1>1, <1>2, <1>8 DEF BodyInspected, BodyVerdict
    <2>3. Received(s)' = has
        BY <2>1 DEF Received
    <2>4. upstream'[s].headers
        BY <1>2, <2>1
    <2>5. /\ request'[s].body = (Received(s)' \o buffer) \o unread'[s]
          /\ detectSQLiOnParams(parseBody(buffer), config'[s]["body"])
        BY <1>1, <1>4, <1>7, <1>8, <2>3 DEF BodyVerdict
    <2>6. \E piece \in Str : /\ request'[s].body = (Received(s)' \o piece) \o unread'[s]
                             /\ detectSQLiOnParams(parseBody(piece), config'[s]["body"])
        BY <1>3, <2>5
    <2> QED BY <2>1, <2>2, <2>4, <2>6 DEF Accounted, Objected
<1>9. CASE /\ UNCHANGED blocked
           /\ upstream' = [upstream EXCEPT ![s].body = Append(sent, buffer)]
    <2>1. blocked'[s] = "no" /\ upstream'[s].body = Append(sent, buffer)
        BY <1>2, <1>5, <1>9 DEF StreamTypes, Upstream
    <2>2. Received(s)' = has \o buffer
        BY <1>6, <2>1 DEF Received
    <2>3. request'[s].body = Received(s)' \o unread'[s]
        BY <1>1, <1>4, <1>7, <2>2
    <2> QED BY <2>1, <2>3 DEF Accounted
<1> QED BY <1>1, <1>8, <1>9

(* What follows a request changes nothing of the account.                  *)
LEMMA EndIsAccounted ==
    ASSUME StreamTypes, NEW s \in Streams, Good(s), Accounted(s),
           OnResponseHeaders(s) \/ HostFail(s) \/ OnDelete(s) \/ Reset(s)
    PROVE  Accounted(s)'
<1>1. CASE OnResponseHeaders(s) \/ HostFail(s)
    <2>1. /\ phase[s] # "free" /\ request' = request /\ config' = config
          /\ unread' = unread /\ upstream' = upstream /\ blocked' = blocked
        BY <1>1 DEF OnResponseHeaders, HostFail
    <2> QED BY <2>1 DEF Accounted, BodyInspected, Received, Objected
<1>2. CASE OnDelete(s) \/ Reset(s)
    <2>1. phase'[s] = "free" /\ blocked'[s] = "no"
        BY <1>2 DEF OnDelete, Reset, Destroy, StreamTypes
    <2> QED BY <2>1 DEF Accounted
<1> QED BY <1>1, <1>2

(* Every step keeps every account.                                         *)
LEMMA AccountStep ==
    ASSUME WafInv, AllAccounted, [Next]_vars
    PROVE  AllAccounted'
<1>1. SUFFICES ASSUME NEW t \in Streams PROVE Accounted(t)'
    BY DEF AllAccounted
<1>2. Accounted(t) /\ Good(t) /\ StreamTypes
    BY DEF AllAccounted, WafInv, AllGood
<1>3. CASE UNCHANGED streamVars
    <2>1. Same(t)
        BY <1>3 DEF streamVars, Same
    <2> QED BY <1>2, <2>1, SameIsAccounted
<1>4. CASE \E s \in Streams : StreamNext(s)
    <2>1. PICK s \in Streams : StreamNext(s)
        BY <1>4
    <2>2. CASE t # s
        <3>1. Same(t)
            BY <1>2, <2>1, <2>2, OthersAreSame
        <3> QED BY <1>2, <3>1, SameIsAccounted
    <2>3. CASE t = s
        BY <1>2, <2>1, <2>3, CreateIsAccounted, HeadersAreAccounted, BodyIsAccounted,
           EndIsAccounted DEF StreamNext
    <2> QED BY <2>2, <2>3
<1> QED BY <1>3, <1>4 DEF Next, vars, Reconfigure

(* Whatever the detector, and however a body is cut, a stream is blocked   *)
(* only for an injection, and the parts checked before the one named are   *)
(* clean under the policies of its creation.  Headers, cookies and bodies  *)
(* are named for what their own policy finds in them, a body for the piece *)
(* that follows what the server has; the path is named for what its policy *)
(* finds in the path or for an injection in a cookie (line 129).           *)
THEOREM BlockedForTheNamedPart == Spec => []BlockNamesThePart
<1>1. Init => AllAccounted
    BY DEF Init, AllAccounted, Accounted
<1>2. Spec => []AllAccounted
    BY <1>1, AccountStep, WafInvariance, PTL DEF Spec
<1>3. ASSUME WafInv, AllAccounted, NEW s \in Streams
      PROVE  LET buffer == SubSeq(request[s].body, Len(Received(s)) + 1,
                                  Len(request[s].body) - Len(unread[s]))
                 headersClean == HeadersClean(request[s], config[s]["header"])
                 cookiesClean == Clean(CookiesOf(request[s]), config[s]["cookie"])
             IN  /\ blocked[s] = "header" => ~ headersClean
                 /\ blocked[s] = "cookie" => headersClean /\ ~ cookiesClean
                 /\ blocked[s] = "path" =>
                       /\ headersClean /\ cookiesClean
                       /\ \/ ~ Clean(PathParamsOf(request[s]), config[s]["path"])
                          \/ ~ Clean(CookiesOf(request[s]), Everything)
                 /\ blocked[s] = "body" =>
                       /\ headersClean /\ cookiesClean /\ BodyInspected(request[s])
                       /\ ~ Clean(parseBody(buffer), config[s]["body"])
    <2> DEFINE req == request[s]
               c == config[s]
               headersClean == HeadersClean(req, c["header"])
               cookiesClean == Clean(CookiesOf(req), c["cookie"])
               injected == ~ Clean(CookiesOf(req), Everything)
               buffer == SubSeq(req.body, Len(Received(s)) + 1, Len(req.body) - Len(unread[s]))
    <2>1. /\ Accounted(s) /\ Good(s) /\ req \in Requests \cup {NoRequest} /\ unread[s] \in Str
          /\ upstream[s].body \in Seq(Str)
          /\ \A p \in Parts : c[p].include \in BOOLEAN
        BY <1>3 DEF AllAccounted, WafInv, AllGood, StreamTypes, Configs, Policies, Upstream
    <2>2. /\ ~ detectSQLiOnParams(HeaderParams(req), c["header"]) <=> headersClean
          /\ ~ detectSQLiOnParams(CookiesOf(req), c["cookie"]) <=> cookiesClean
        BY <2>1, HeadersCheckIsExact, DetectIsNotClean DEF Parts
    <2>3. /\ blocked[s] \in {"header", "cookie", "path"} => HeaderVerdict(req, c) = blocked[s]
          /\ blocked[s] = "body" => HeaderVerdict(req, c) = "no"
        BY <2>1 DEF Accounted, Good
    <2>4. /\ HeaderVerdict(req, c) = "header" => ~ headersClean
          /\ HeaderVerdict(req, c) = "cookie" => headersClean /\ ~ cookiesClean
          /\ HeaderVerdict(req, c) \in {"path", "no"} => headersClean /\ cookiesClean
        BY <2>2 DEF HeaderVerdict, CookiesOf
    <2>5. HeaderVerdict(req, c) = "path" => injected
        <3>1. ASSUME detectSQLiOnParams(CookiesOf(req), c["path"])
              PROVE  injected
            BY <2>1, <3>1, DetectIsNotClean, EverythingIsMore DEF Parts
        <3> HIDE DEF injected
        <3> QED BY <3>1 DEF HeaderVerdict, CookiesOf
    <2>6. ASSUME blocked[s] = "body"
          PROVE  BodyInspected(req) /\ ~ Clean(parseBody(buffer), c["body"])
        <3>1. /\ BodyInspected(req)
              /\ \E piece \in Str : /\ req.body = (Received(s) \o piece) \o unread[s]
                                    /\ Objected(s, piece)
            BY <2>1, <2>6 DEF Accounted
        <3>2. PICK piece \in Str : /\ req.body = (Received(s) \o piece) \o unread[s]
                                   /\ Objected(s, piece)
            BY <3>1
        <3>3. Received(s) \in Str
            BY <2>1, Values, FlattenAppends DEF Received
        <3>4. buffer = piece
            <4> DEFINE text == (Received(s) \o piece) \o unread[s]
            <4>1. SubSeq(text, Len(Received(s)) + 1, Len(text) - Len(unread[s])) = piece
                BY <2>1, <3>2, <3>3, MiddleIsFound
            <4>2. req.body = text
                BY <3>2
            <4> HIDE DEF text
            <4> QED BY <4>1, <4>2
        <3>5. ~ Clean(parseBody(piece), c["body"])
            BY <2>1, <3>2, DetectIsNotClean DEF Objected, Parts
        <3> QED BY <3>1, <3>4, <3>5
    <2> HIDE DEF headersClean, cookiesClean, injected, buffer
    <2>7. /\ blocked[s] = "header" => ~ headersClean
          /\ blocked[s] = "cookie" => headersClean /\ ~ cookiesClean
          /\ blocked[s] = "path" => headersClean /\ cookiesClean /\ injected
          /\ blocked[s] = "body" =>
                /\ headersClean /\ cookiesClean /\ BodyInspected(req)
                /\ ~ Clean(parseBody(buffer), c["body"])
        BY <2>3, <2>4, <2>5, <2>6
    <2> QED BY <2>7 DEF headersClean, cookiesClean, injected, buffer
<1>4. WafInv /\ AllAccounted => BlockNamesThePart
    BY <1>3 DEF BlockNamesThePart
<1> QED BY <1>2, <1>4, WafInvariance, PTL

=============================================================================
