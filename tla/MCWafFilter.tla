---------------------------- MODULE MCWafFilter ----------------------------
(***************************************************************************)
(* WafFilter on small traffic.  The detector takes a text with two x's in  *)
(* a row for an injection: enough for a verdict that depends on the whole  *)
(* text, so that a buffer boundary may fall inside it.                     *)
(***************************************************************************)
EXTENDS WafGate

X == 120
MCDetectSQLi(s) == \E i \in 1 .. Len(s) - 1 : s[i] = X /\ s[i + 1] = X

MCReferer == <<114>>
MCUserAgent == <<117>>
MCCookie == <<99>>
MCPath == <<58>>
MCContentType == <<116>>
MCUrlencoded == <<119>>

a == 97
b == 98

(* Header pairs: a referer and a header nobody inspects by default, a      *)
(* cookie a, a path parameter a, and the content type.                     *)
BadReferer == <<MCReferer, <<X, X>>>>
GoodReferer == <<MCReferer, <<a>>>>
BadHeader == <<<<a>>, <<X, X>>>>
BadCookie == <<MCCookie, <<b, Semicolon, Space, a, Equals, X, X>>>>
BadPath == <<MCPath, <<Question, a, Equals, X, X>>>>
Form == <<MCContentType, MCUrlencoded>>

Request(headers, body) == [headers |-> headers, body |-> body]

BadBody == <<a, Equals, X, X>>
LateBadBody == <<b, Ampersand, a, Equals, X, X>>

HeaderRequests ==
    { Request(<<BadPath>>, << >>),
      Request(<<GoodReferer, BadReferer>>, << >>),
      Request(<<BadReferer, BadCookie>>, << >>),
      Request(<<BadCookie>>, << >>),
      Request(<<BadHeader, BadCookie>>, << >>) }
BodyRequests ==
    { Request(<<Form>>, BadBody), Request(<<BadHeader>>, BadBody) }
TwoStreamRequests ==
    { Request(<<BadReferer>>, << >>),
      Request(<<<<MCCookie, <<X, X>>>>>>, << >>),
      Request(<<Form>>, <<Ampersand, X, X>>) }
MCRequests == HeaderRequests \cup BodyRequests
LateRequests == {Request(<<Form>>, LateBadBody), Request(<<Form>>, <<X, X, Ampersand, b>>)}

Text(s) == [kind |-> "string", value |-> s]
List(S) == [kind |-> "array", elements |-> S]
Object(m) == [kind |-> "object", members |-> m]

A == Text(<<a>>)
R == Text(MCReferer)

(* Accepted, refused at its last section, and one that stops the VM.       *)
ExcludeA ==
    Object(("cookie" :> Object("exclude" :> List({A})))
             @@ ("header" :> Object("include" :> List({A, R}))))
BodyOnlyB ==
    Object(("body" :> Object(("content-type" :> Text(MCUrlencoded))
                                @@ ("include" :> List({Text(<<b>>), Text(<<233>>)}))))
             @@ ("path" :> Object("include" :> List({A}))))
Refused ==
    Object(("path" :> Object("exclude" :> List({A})))
             @@ ("header" :> Object(("include" :> List({})) @@ ("exclude" :> List({})))))
Trapping == Object("cookie" :> Object("include" :> A))

MCDocuments == {ExcludeA, BodyOnlyB, Refused, Trapping}
TwoStreamDocuments == {ExcludeA, Trapping}

MCServerHeaders == {"date"}

Symmetry == Permutations(Streams)

=============================================================================
