---------------------------- MODULE ConfigParser ----------------------------
(***************************************************************************)
(* utility/config_parser.cc: from a JSON document to the four policies of  *)
(* a Config.                                                               *)
(*                                                                         *)
(* A JSON value is a record whose kind says which of nlohmann::json's      *)
(* accessors accept it; what cannot be told apart by the parser (numbers,  *)
(* booleans) is one kind, "other".  Text that is not JSON is "discarded".  *)
(*                                                                         *)
(* The module is built without exceptions, so an accessor applied to the   *)
(* wrong kind ends the VM: its outcome is "throw", and what was assigned   *)
(* before it stays assigned.                                               *)
(***************************************************************************)
EXTENDS Params, FiniteSetsExt

CONSTANTS
    Urlencoded,             \* "application/x-www-form-urlencoded"
    Referer,                \* "referer"
    UserAgent               \* "user-agent"

(* Json::operator[] on a constant name: a missing member reads as null, and *)
(* reading from a null makes it an object first.  Any other kind throws.    *)
JNull == [kind |-> "null"]
Indexable(json) == json.kind \in {"object", "null"}
Member(json, name) ==
    IF json.kind = "object" /\ name \in DOMAIN json.members
    THEN json.members[name]
    ELSE JNull

IsNull(json) == json.kind = "null"

(* get<Keys>() needs an array of strings. *)
IsKeys(json) == json.kind = "array" /\ \A e \in json.elements : e.kind = "string"
KeysOf_SignedChars(json) ==
    {[i \in DOMAIN e.value |-> IF e.value[i] > 127 THEN e.value[i] - 256 ELSE e.value[i]] :
        e \in json.elements}
KeysOf(json) == {e.value : e \in json.elements}

-----------------------------------------------------------------------------
(* struct Config.  Its content_type member is never assigned or compared   *)
(* anywhere in the program, and is left out.                               *)
Parts == {"body", "path", "cookie", "header"}
Policies(K) == [include : BOOLEAN, keys : SUBSET K]
Configs(K)  == [Parts -> Policies(K)]

AllBut(K) == [include |-> FALSE, keys |-> K]
Only(K)   == [include |-> TRUE, keys |-> K]

DefaultConfig ==
    [p \in Parts |-> IF p = "header" THEN Only({Referer, UserAgent})
                                     ELSE AllBut({})]

(* The two assignments *include = flag; *keys = ... *)
Assign_FlagForgotten(policy, flag, keys) == [policy EXCEPT !.keys = keys]
Assign_KeysAdded(policy, flag, keys) ==
    [include |-> flag, keys |-> policy.keys \cup keys]
Assign(policy, flag, keys) == [policy EXCEPT !.include = flag, !.keys = keys]

Outcome(status, policy) == [status |-> status, policy |-> policy]

(* validate_config_field.  *include is written before the keys are read, so *)
(* a value that is no array of strings leaves the old keys under the new    *)
(* flag at the moment of the throw.                                         *)
validate_config_field(field, policy) ==
    LET include == Member(field, "include")
        exclude == Member(field, "exclude")
        chosen  == IF IsNull(include) THEN exclude ELSE include
        flag    == ~ IsNull(include)
    IN  CASE IsNull(field) -> Outcome("ok", policy)
          [] ~ Indexable(field) -> Outcome("throw", policy)
          [] ~ IsNull(include) /\ ~ IsNull(exclude) -> Outcome("fail", policy)
          [] field.kind = "object" /\ IsNull(chosen) -> Outcome("ok", policy)
          [] IsNull(include) # IsNull(exclude) ->
               IF IsKeys(chosen)
               THEN Outcome("ok", Assign(policy, flag, KeysOf(chosen)))
               ELSE Outcome("throw", [policy EXCEPT !.include = flag])

(* The body section must also name the one content type that is supported, *)
(* and is refused before its policy is looked at.                          *)
validate_body(field, policy) ==
    LET type == Member(field, "content-type")
    IN  CASE IsNull(field) -> Outcome("ok", policy)
          [] ~ Indexable(field) -> Outcome("throw", policy)
          [] field.kind = "object" /\ IsNull(type) -> Outcome("fail", policy)
          [] type.kind \notin {"null", "string"} -> Outcome("throw", policy)
          [] type.kind = "string" ->
               IF type.value = Urlencoded
               THEN validate_config_field(field, policy)
               ELSE Outcome("fail", policy)

(* The order in which parseConfig validates the sections. *)
Order_PathFirst == <<"path", "body", "cookie", "header">>
Order == <<"body", "path", "cookie", "header">>

(* parseConfig works on the caller's Config in place and returns at the    *)
(* first section that is refused: the sections before it stay assigned.    *)
(* The result is the returned status and the Config as it is left.         *)
parseConfig(document, config) ==
    LET outcome == [p \in Parts |->
            IF p = "body" THEN validate_body(Member(document, p), config[p])
                          ELSE validate_config_field(Member(document, p), config[p])]
        refused == {i \in DOMAIN Order : outcome[Order[i]].status # "ok"}
        reached == {i \in DOMAIN Order : \A j \in refused : i <= j}
    IN  CASE document.kind = "discarded" -> [status |-> "fail", config |-> config]
          [] document.kind # "discarded" /\ ~ Indexable(document) ->
               [status |-> "throw", config |-> config]
          [] Indexable(document) ->
               [ status |-> IF refused = {} THEN "ok" ELSE outcome[Order[Min(refused)]].status,
                 config |-> [p \in Parts |-> IF p \in {Order[i] : i \in reached}
                                             THEN outcome[p].policy ELSE config[p]] ]

=============================================================================
