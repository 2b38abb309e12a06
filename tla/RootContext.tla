---------------------------- MODULE RootContext ----------------------------
(***************************************************************************)
(* ExampleRootContext (WAF_wasm.cc): the one object per worker that holds  *)
(* the configuration new streams copy.  The host calls onConfigure once    *)
(* with the plugin's text and again whenever that text is replaced;        *)
(* parseConfig is handed a pointer to the live config_ and edits it in     *)
(* place.                                                                  *)
(*                                                                         *)
(* onStart only logs.  What the host does with the returned Boolean is not *)
(* in this repository: an accepted plugin serves, and after a refusal the  *)
(* host may keep the plugin as it was or take it out of service.           *)
(***************************************************************************)
EXTENDS ConfigParser

CONSTANTS
    Documents,              \* the JSON documents the host may deliver
    NoDocument,             \* an empty configuration (config_size = 0)
    MaxConfigures           \* bound: calls of onConfigure in one behaviour

VARIABLES
    root,                   \* ExampleRootContext::config_
    vm,                     \* "idle", "serving" or "trapped"
    given,                  \* history: the documents delivered, in order
    answered                \* history: what onConfigure returned to each

rootVars == <<root, vm, given, answered>>

(* The strings of a document, and the program's own, are strings. *)
ASSUME NamesAssumption == {Referer, UserAgent} \subseteq Str
ASSUME DocumentsAssumption ==
    \A document \in Documents, p \in Parts, name \in {"include", "exclude"} :
        LET list == Member(Member(document, p), name)
        IN  IsKeys(list) => \A e \in list.elements : e.value \in Str

RootInit ==
    /\ root = DefaultConfig
    /\ vm = "idle"
    /\ given = << >>
    /\ answered = << >>

(* An empty configuration is accepted and leaves config_ alone. *)
Parsed(document) ==
    IF document = NoDocument THEN [status |-> "ok", config |-> root]
                             ELSE parseConfig(document, root)

OnConfigure(document) ==
    LET result == Parsed(document)
    IN  /\ vm # "trapped"
        /\ Len(given) < MaxConfigures
        /\ given' = Append(given, document)
        /\ answered' = Append(answered, result.status)
        /\ root' = result.config
        /\ \/ result.status = "ok" /\ vm' = "serving"
           \/ result.status = "fail" /\ vm' \in {vm, "idle"}
           \/ result.status = "throw" /\ vm' = "trapped"

RootNext == \E document \in Documents \cup {NoDocument} : OnConfigure(document)

RootSpec == RootInit /\ [][RootNext]_rootVars

-----------------------------------------------------------------------------
(* What a document says of one part, read off the README: a part that has  *)
(* an include or an exclude asks for that policy.  Written without the     *)
(* parser, to compare it with.                                             *)
WellFormed(field) ==
    /\ field.kind = "object"
    /\ \E name \in {"include", "exclude"} :
          /\ name \in DOMAIN field.members
          /\ IsKeys(field.members[name])
Asks(document, p) ==
    /\ document # NoDocument
    /\ document.kind = "object"
    /\ p \in DOMAIN document.members
    /\ WellFormed(document.members[p])
AskedOf(field) ==
    IF "include" \in DOMAIN field.members /\ ~ IsNull(field.members["include"])
    THEN Only(KeysOf(field.members["include"]))
    ELSE AllBut(KeysOf(field.members["exclude"]))
Asked(document, p) == AskedOf(document.members[p])

RootTypeOK ==
    /\ root \in [Parts -> [include : BOOLEAN, keys : SUBSET Str]]
    /\ vm \in {"idle", "serving", "trapped"}
    /\ given \in Seq(Documents \cup {NoDocument})
    /\ answered \in Seq({"ok", "fail", "throw"})
    /\ Len(given) = Len(answered)

(* While the VM is alive, the flag and the keys of every part were written *)
(* together: they are the default, or what one single document asked for.  *)
(* It is about validate_config_field assigning the flag and the keys in    *)
(* two statements, with a conversion that can stop the VM in between.      *)
PartsFromOneDocument ==
    vm # "trapped" =>
        \A p \in Parts :
            \/ root[p] = DefaultConfig[p]
            \/ \E i \in DOMAIN given :
                  Asks(given[i], p) /\ root[p] = Asked(given[i], p)

(* A refused document acts as a prefix: there is a section such that every *)
(* part before it is as the document asks and every part from it on is     *)
(* untouched.  One whose body section lacks the supported content type is  *)
(* cut before the body.  It is about parseConfig returning from the middle *)
(* of an update in place.                                                  *)
BodyRefused(document) ==
    /\ document.kind = "object"
    /\ "body" \in DOMAIN document.members
    /\ document.members["body"].kind = "object"
    /\ LET body == document.members["body"].members
       IN  "content-type" \in DOMAIN body =>
              ~ ( /\ body["content-type"].kind = "string"
                  /\ body["content-type"].value = Urlencoded )
Sections == <<"body", "path", "cookie", "header">>
RefusalIsAPrefix ==
    [][ (Len(given') > Len(given) /\ answered'[Len(given')] = "fail") =>
        \E cut \in 1 .. Len(Sections) :
            LET document == given'[Len(given')]
            IN  /\ BodyRefused(document) => cut = 1
                /\ \A i \in DOMAIN Sections :
                      LET p == Sections[i]
                      IN  root'[p] = IF i < cut /\ Asks(document, p)
                                     THEN Asked(document, p) ELSE root[p]
      ]_rootVars

(* An accepted document puts every part it names in force and leaves the   *)
(* other parts as they were, whatever was delivered before it.             *)
AcceptedPartsApply ==
    [][ (Len(given') > Len(given) /\ answered'[Len(given')] = "ok") =>
        \A p \in Parts :
            LET document == given'[Len(given')]
            IN  root'[p] = IF Asks(document, p) THEN Asked(document, p) ELSE root[p]
      ]_rootVars

(* The README (lines 98-99) of a part that nothing is passed for: the      *)
(* default applies.  It is about what is in force once a document has been *)
(* accepted.  parseConfig skips such a part, so one that an earlier        *)
(* document named keeps that document's policy.                            *)
UnnamedPartsDefault ==
    \A p \in Parts :
        (given # << >> /\ answered[Len(answered)] = "ok") =>
            \/ Asks(given[Len(given)], p)
            \/ root[p] = DefaultConfig[p]

=============================================================================
