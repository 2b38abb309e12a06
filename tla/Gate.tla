-------------------------------- MODULE Gate --------------------------------
(***************************************************************************)
(* What the filter is for, without callbacks, contexts or a configuration  *)
(* object: a gate in front of a server.  A message is judged by the policy *)
(* that was in force when it began.  Its head passes only if that policy   *)
(* lets it, and is refused only if the policy has something to refuse it   *)
(* for; where both hold the gate may do either.  Then its body passes in   *)
(* pieces, cut anywhere, none lost, doubled or out of order, each exactly  *)
(* when the policy allows it.  The first piece that is not allowed ends    *)
(* the message for good.                                                   *)
(***************************************************************************)
EXTENDS Naturals, Sequences

CONSTANTS
    Streams,
    Messages,               \* [headers, body]
    PolicySet,               \* the policies that may come into force
    NoMessage,
    NoPolicy,               \* nothing is served
    ServerHeaders,          \* the headers of the server's answer
    HeadMayPass(_, _),      \* does a policy let the head of a message pass?
    HeadMayBeRefused(_, _), \* does it have something to refuse it for?
    PieceAllowed(_, _, _)   \* does it allow this piece of the body?

VARIABLES
    inForce,                \* the policy a message that begins now gets
    verdict,                \* "idle", "passing", "refused", "failed"
    message, policy,        \* what is judged, and by what
    rest,                   \* the part of the body not judged yet
    passed,                 \* what the server has of it
    answer                  \* what the client has been told

gateVars == <<inForce, verdict, message, policy, rest, passed, answer>>

Nothing == [headers |-> FALSE, body |-> << >>]
NoAnswer == [code |-> "none", headers |-> {}]
Told(code) == [code |-> code, headers |-> {}]
FirstAnswer(s, told) == IF answer[s] = NoAnswer THEN told ELSE answer[s]

(* A step of one stream leaves the others alone. *)
Set(f, s, value) == f' = [f EXCEPT ![s] = value]

Init ==
    /\ inForce \in PolicySet
    /\ verdict = [s \in Streams |-> "idle"]
    /\ message = [s \in Streams |-> NoMessage]
    /\ policy = [s \in Streams |-> NoPolicy]
    /\ rest = [s \in Streams |-> << >>]
    /\ passed = [s \in Streams |-> Nothing]
    /\ answer = [s \in Streams |-> NoAnswer]

Change ==
    /\ inForce # NoPolicy
    /\ inForce' \in PolicySet \cup {NoPolicy}
    /\ UNCHANGED <<verdict, message, policy, rest, passed, answer>>

Begin(s, m) ==
    /\ verdict[s] = "idle" /\ inForce # NoPolicy
    /\ Set(verdict, s, "passing")
    /\ Set(message, s, m)
    /\ Set(policy, s, inForce)
    /\ Set(rest, s, m.body)
    /\ UNCHANGED <<inForce, passed, answer>>

PassHead(s) ==
    /\ verdict[s] = "passing" /\ ~ passed[s].headers
    /\ HeadMayPass(message[s], policy[s])
    /\ passed' = [passed EXCEPT ![s].headers = TRUE]
    /\ UNCHANGED <<inForce, verdict, message, policy, rest, answer>>

Cut(s, n) == SubSeq(rest[s], 1, n)
Drop(s, n) == SubSeq(rest[s], n + 1, Len(rest[s]))

PassPiece(s, n) ==
    /\ verdict[s] = "passing" /\ passed[s].headers
    /\ PieceAllowed(message[s], policy[s], Cut(s, n))
    /\ passed' = [passed EXCEPT ![s].body = Append(@, Cut(s, n))]
    /\ Set(rest, s, Drop(s, n))
    /\ UNCHANGED <<inForce, verdict, message, policy, answer>>

RefuseHead(s) ==
    /\ verdict[s] = "passing" /\ ~ passed[s].headers
    /\ HeadMayBeRefused(message[s], policy[s])
    /\ Set(verdict, s, "refused")
    /\ Set(answer, s, Told("403"))
    /\ UNCHANGED <<inForce, message, policy, rest, passed>>

RefusePiece(s, n) ==
    /\ verdict[s] = "passing" /\ passed[s].headers
    /\ ~ PieceAllowed(message[s], policy[s], Cut(s, n))
    /\ Set(verdict, s, "refused")
    /\ Set(answer, s, FirstAnswer(s, Told("403")))
    /\ Set(rest, s, Drop(s, n))
    /\ UNCHANGED <<inForce, message, policy, passed>>

(* The server may answer before it has the whole body. *)
Answer(s) ==
    /\ verdict[s] = "passing" /\ passed[s].headers /\ answer[s] = NoAnswer
    /\ Set(answer, s, [code |-> "200", headers |-> ServerHeaders])
    /\ UNCHANGED <<inForce, verdict, message, policy, rest, passed>>

Fail(s) ==
    /\ verdict[s] = "passing" /\ inForce = NoPolicy
    /\ Set(verdict, s, "failed")
    /\ Set(answer, s, FirstAnswer(s, Told("503")))
    /\ UNCHANGED <<inForce, message, policy, rest, passed>>

End(s) ==
    /\ verdict[s] # "idle"
    /\ Set(verdict, s, "idle")
    /\ Set(message, s, NoMessage)
    /\ Set(policy, s, NoPolicy)
    /\ Set(rest, s, << >>)
    /\ Set(passed, s, Nothing)
    /\ Set(answer, s, NoAnswer)
    /\ UNCHANGED inForce

StreamStep(s) ==
    \/ \E m \in Messages : Begin(s, m)
    \/ PassHead(s) \/ RefuseHead(s)
    \/ \E n \in 1 .. Len(rest[s]) : PassPiece(s, n) \/ RefusePiece(s, n)
    \/ Answer(s) \/ Fail(s) \/ End(s)

Next == Change \/ \E s \in Streams : StreamStep(s)

Spec == Init /\ [][Next]_gateVars

=============================================================================
