-------------------------------- MODULE Sqli --------------------------------
(***************************************************************************)
(* utility/sqli.cc: which of the parsed names are inspected, and whether   *)
(* one of them makes the request an injection.  The verdict on a single    *)
(* string (libinjection, reached through detectSQLi) is a parameter, so    *)
(* what is shown here holds for every such detector.                       *)
(*                                                                         *)
(* A policy is the pair the code passes as two arguments, [include, keys]. *)
(***************************************************************************)
EXTENDS Params

CONSTANT DetectSQLi(_)      \* libinjection's verdict on one string

(* The keys may name parameters the request does not have when included.   *)
pickKeysForDetection(params, policy) ==
    IF policy.include THEN policy.keys ELSE DOMAIN params \ policy.keys

(* A key that is not in params is skipped; a name counts as well as its    *)
(* value.  The unordered set makes the order of inspection irrelevant.     *)
detectSQLiOnParams_ReturnsAtMissing(params, policy) ==
    /\ pickKeysForDetection(params, policy) \subseteq DOMAIN params
    /\ \E key \in pickKeysForDetection(params, policy) :
          DetectSQLi(params[key]) \/ DetectSQLi(key)
detectSQLiOnParams(params, policy) ==
    \E key \in pickKeysForDetection(params, policy) :
        /\ key \in DOMAIN params
        /\ DetectSQLi(params[key]) \/ DetectSQLi(key)

=============================================================================
