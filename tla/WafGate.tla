------------------------------ MODULE WafGate ------------------------------
(***************************************************************************)
(* The filter seen as a Gate.  The policy in force is the root context's   *)
(* configuration for as long as the VM runs; a stream's policy is the copy *)
(* its context holds; and what may pass and what may be refused is said by *)
(* the policies, not by the code's checks: WafFilter must come to a        *)
(* decision they allow through its parser, its detector, its recorded      *)
(* content type and its callbacks.                                         *)
(***************************************************************************)
EXTENDS WafFilter

CONSTANT NoPolicy           \* no configuration is in force

ASSUME NoPolicyAssumption == NoPolicy \notin Configs(Str)

(* Every part of a policy is the default or what one document asks for. *)
DocumentPolicies ==
    { c \in Configs(Str) :
        \A p \in Parts :
            \/ c[p] = DefaultConfig[p]
            \/ \E document \in Documents : Asks(document, p) /\ c[p] = Asked(document, p) }

(* What passes has nothing in its headers and cookies that their policies  *)
(* object to; what is refused has something that a policy objects to, or   *)
(* at least an injection among its cookies.  Two things are left open, as  *)
(* README lines 96-101 decide them and the code does not keep to them      *)
(* (PathDecidedByItsPolicy): whether the path is inspected, and whether a  *)
(* cookie that its policy leaves out may be what a head is refused for.  A *)
(* filter that keeps to them is a gate as well.                            *)
HeadMayPass(req, c) ==
    /\ HeadersClean(req, c["header"])
    /\ Clean(CookiesOf(req), c["cookie"])
HeadMayBeRefused(req, c) ==
    \/ ~ HeadersClean(req, c["header"])
    \/ ~ Clean(PathParamsOf(req), c["path"])
    \/ ~ Clean(CookiesOf(req), Everything)
PieceAllowed(req, c, piece) ==
    BodyInspected(req) => Clean(parseBody(piece), c["body"])

(* The refinement mapping. *)
VerdictIn(p) ==
    CASE p = "free"    -> "idle"
      [] p = "blocked" -> "refused"
      [] p = "failed"  -> "failed"
      [] p \in {"created", "open", "sent"} -> "passing"

inForce == IF Running THEN root ELSE NoPolicy
verdict == [s \in Streams |-> VerdictIn(phase[s])]
policy == [s \in Streams |-> IF phase[s] = "free" THEN NoPolicy ELSE config[s]]

G == INSTANCE Gate WITH
    Messages <- Requests,
    PolicySet <- DocumentPolicies,
    NoMessage <- NoRequest,
    message <- request,
    rest <- unread,
    passed <- upstream,
    answer <- response

(* The filter is a gate: through every interleaving of callbacks,          *)
(* reconfigurations, resets and traps, a request passes no further than    *)
(* the policies of its creation let it and is refused only for an          *)
(* injection, each byte of its body passes once and in order, and a piece  *)
(* is refused exactly when the policy objects to it.  It is about          *)
(* onCreate, onRequestHeaders and onRequestBody together: no one of them   *)
(* sees the whole of it.                                                   *)
ImplementsGate == G!Spec

=============================================================================
