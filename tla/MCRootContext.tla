--------------------------- MODULE MCRootContext ---------------------------
(***************************************************************************)
(* Documents for RootContext: every way one section can be written, alone  *)
(* and combined with the sections that parseConfig validates after it.     *)
(***************************************************************************)
EXTENDS RootContext

MCReferer == <<114>>
MCUserAgent == <<117>>
MCUrlencoded == <<119>>

Text(s) == [kind |-> "string", value |-> s]
List(S) == [kind |-> "array", elements |-> S]
Object(m) == [kind |-> "object", members |-> m]
Number == [kind |-> "other"]
Discarded == [kind |-> "discarded"]

A == Text(<<97>>)
B == Text(<<233>>)                   \* a byte beyond ASCII

(* Section contents: nothing, either list, both, a null, and values that   *)
(* are no list of strings.                                                 *)
Contents ==
    { << >>,
      ("include" :> List({A})),
      ("exclude" :> List({A, B})),
      ("include" :> List({A})) @@ ("exclude" :> List({B})),
      ("include" :> JNull) @@ ("exclude" :> List({})),
      ("include" :> A),
      ("exclude" :> List({A, Number})) }

Plain == {Object(c) : c \in Contents}
Bodies ==
    { Object(("content-type" :> Text(MCUrlencoded)) @@ c) : c \in Contents }
    \cup { Object("content-type" :> t) : t \in {JNull, Number, Text(<<106>>)} }
    \cup { Object(("Content-Type" :> Text(MCUrlencoded)) @@ ("exclude" :> List({A}))) }

(* A document with one section, with a body and a later section, or with   *)
(* one of several contents between a body and a cookie that are accepted.  *)
MCDocuments ==
    { Object("body" :> b) : b \in Bodies \cup {JNull, Number} }
    \cup { Object(p :> f) : p \in {"path", "cookie", "header"},
                            f \in Plain \cup {JNull, A} }
    \cup { Object(("body" :> b) @@ ("header" :> f)) : b \in Bodies, f \in Plain }
    \cup { Object(("body" :> Object(("content-type" :> Text(MCUrlencoded))
                                        @@ ("include" :> List({B}))))
                    @@ ("path" :> f) @@ ("cookie" :> Object("include" :> List({B}))))
             : f \in Plain }
    \cup { Object(("body" :> b) @@ ("path" :> Object("exclude" :> List({A, B}))))
             : b \in Bodies }
    \cup { Discarded, JNull, Number }

=============================================================================
