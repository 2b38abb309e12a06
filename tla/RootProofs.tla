----------------------------- MODULE RootProofs -----------------------------
(***************************************************************************)
(* What RootContext promises of any set of documents and any number of     *)
(* calls of onConfigure.                                                   *)
(***************************************************************************)
EXTENDS RootContext, LeastTheorems

Statuses == {"ok", "fail", "throw"}

(* The lists of a section hold strings. *)
Stringy(field) ==
    \A name \in {"include", "exclude"} :
        IsKeys(Member(field, name)) => KeysOf(Member(field, name)) \subseteq Str

(* What validating a section does to its policy.                           *)
Promised(outcome, field, policy) ==
    /\ outcome.status \in Statuses
    /\ outcome.policy \in Policies(Str)
    /\ outcome.status = "fail" => outcome.policy = policy
    /\ outcome.status = "ok" =>
          outcome.policy = IF WellFormed(field) THEN AskedOf(field) ELSE policy

-----------------------------------------------------------------------------
(* The two assignments leave nothing of the old policy.                    *)
LEMMA AssignPair ==
    ASSUME NEW policy \in Policies(Str), NEW flag, NEW keys
    PROVE  Assign(policy, flag, keys) = [include |-> flag, keys |-> keys]
<1>1. PICK b \in BOOLEAN, K \in SUBSET Str : policy = [include |-> b, keys |-> K]
    BY DEF Policies
<1>2. Assign(policy, flag, keys) = [[policy EXCEPT !.include = flag] EXCEPT !.keys = keys]
    BY DEF Assign
<1>3. [policy EXCEPT !.include = flag] = [include |-> flag, keys |-> K]
    BY <1>1
<1>4. [[include |-> flag, keys |-> K] EXCEPT !.keys = keys] = [include |-> flag, keys |-> keys]
    OBVIOUS
<1> QED BY <1>2, <1>3, <1>4

(* A section is refused before its policy is touched, and one that is      *)
(* accepted has the policy it asks for.                                    *)
LEMMA FieldOutcome ==
    ASSUME NEW field, NEW policy \in Policies(Str), Stringy(field)
    PROVE  Promised(validate_config_field(field, policy), field, policy)
<1> DEFINE include == Member(field, "include")
           exclude == Member(field, "exclude")
           outcome == validate_config_field(field, policy)
<1>1. CASE IsNull(field)
    <2>1. outcome = Outcome("ok", policy) /\ ~ WellFormed(field)
        BY <1>1 DEF validate_config_field, WellFormed, Indexable, IsNull, Member, JNull
    <2> QED BY <2>1 DEF Promised, Outcome, Statuses
<1>2. CASE ~ IsNull(field) /\ ~ Indexable(field)
    <2>1. outcome = Outcome("throw", policy)
        BY <1>2 DEF validate_config_field, Indexable, IsNull, Member, JNull
    <2> QED BY <2>1 DEF Promised, Outcome, Statuses
<1>3. CASE field.kind = "object" /\ ~ IsNull(include) /\ ~ IsNull(exclude)
    <2>1. outcome = Outcome("fail", policy)
        BY <1>3 DEF validate_config_field, IsNull, Indexable
    <2> QED BY <2>1 DEF Promised, Outcome, Statuses
<1>4. CASE field.kind = "object" /\ IsNull(include) /\ IsNull(exclude)
    <2>1. outcome = Outcome("ok", policy)
        BY <1>4 DEF validate_config_field, IsNull, Indexable
    <2>2. ~ WellFormed(field)
        BY <1>4 DEF WellFormed, IsNull, IsKeys, Member
    <2> QED BY <2>1, <2>2 DEF Promised, Outcome, Statuses
<1>5. CASE field.kind = "object" /\ ~ IsNull(include) /\ IsNull(exclude)
    <2>1. outcome = IF IsKeys(include)
                    THEN Outcome("ok", Assign(policy, TRUE, KeysOf(include)))
                    ELSE Outcome("throw", [policy EXCEPT !.include = TRUE])
        BY <1>5 DEF validate_config_field, IsNull, Indexable
    <2>2. "include" \in DOMAIN field.members /\ include = field.members["include"]
        BY <1>5 DEF Member, IsNull, JNull
    <2>3. CASE IsKeys(include)
        <3>1. WellFormed(field)
            BY <1>5, <2>2, <2>3 DEF WellFormed
        <3>2. AskedOf(field) = Only(KeysOf(include))
            BY <1>5, <2>2 DEF AskedOf
        <3>3. Assign(policy, TRUE, KeysOf(include)) = Only(KeysOf(include))
            BY AssignPair DEF Only
        <3>4. KeysOf(include) \subseteq Str
            BY <2>3 DEF Stringy
        <3>5. Only(KeysOf(include)) \in Policies(Str)
            BY <3>4 DEF Only, Policies
        <3>6. outcome = Outcome("ok", Only(KeysOf(include)))
            BY <2>1, <2>3, <3>3
        <3> QED BY <3>1, <3>2, <3>5, <3>6 DEF Promised, Outcome, Statuses
    <2>4. CASE ~ IsKeys(include)
        <3>1. [policy EXCEPT !.include = TRUE] \in Policies(Str)
            BY DEF Policies
        <3> QED BY <2>1, <2>4, <3>1 DEF Promised, Outcome, Statuses
    <2> QED BY <2>3, <2>4
<1>6. CASE field.kind = "object" /\ IsNull(include) /\ ~ IsNull(exclude)
    <2>1. outcome = IF IsKeys(exclude)
                    THEN Outcome("ok", Assign(policy, FALSE, KeysOf(exclude)))
                    ELSE Outcome("throw", [policy EXCEPT !.include = FALSE])
        BY <1>6 DEF validate_config_field, IsNull, Indexable
    <2>2. "exclude" \in DOMAIN field.members /\ exclude = field.members["exclude"]
        BY <1>6 DEF Member, IsNull, JNull
    <2>3. CASE IsKeys(exclude)
        <3>1. WellFormed(field)
            BY <1>6, <2>2, <2>3 DEF WellFormed
        <3>2. AskedOf(field) = AllBut(KeysOf(exclude))
            BY <1>6, <2>2 DEF AskedOf, Member
        <3>3. Assign(policy, FALSE, KeysOf(exclude)) = AllBut(KeysOf(exclude))
            BY AssignPair DEF AllBut
        <3>4. KeysOf(exclude) \subseteq Str
            BY <2>3 DEF Stringy
        <3>5. AllBut(KeysOf(exclude)) \in Policies(Str)
            BY <3>4 DEF AllBut, Policies
        <3>6. outcome = Outcome("ok", AllBut(KeysOf(exclude)))
            BY <2>1, <2>3, <3>3
        <3> QED BY <3>1, <3>2, <3>5, <3>6 DEF Promised, Outcome, Statuses
    <2>4. CASE ~ IsKeys(exclude)
        <3>1. [policy EXCEPT !.include = FALSE] \in Policies(Str)
            BY DEF Policies
        <3> QED BY <2>1, <2>4, <3>1 DEF Promised, Outcome, Statuses
    <2> QED BY <2>3, <2>4
<1> QED BY <1>1, <1>2, <1>3, <1>4, <1>5, <1>6 DEF IsNull, Indexable

(* The same for the body's section; and one without the supported content  *)
(* type is not accepted.                                                   *)
LEMMA BodyOutcome ==
    ASSUME NEW field, NEW policy \in Policies(Str), Stringy(field)
    PROVE  /\ Promised(validate_body(field, policy), field, policy)
           /\ validate_body(field, policy).status = "ok" =>
                 \/ field.kind # "object"
                 \/ /\ "content-type" \in DOMAIN field.members
                    /\ field.members["content-type"].kind = "string"
                    /\ field.members["content-type"].value = Urlencoded
<1> DEFINE type == Member(field, "content-type")
           outcome == validate_body(field, policy)
<1>1. CASE IsNull(field)
    <2>1. outcome = Outcome("ok", policy) /\ ~ WellFormed(field)
        BY <1>1 DEF validate_body, WellFormed, Indexable, IsNull, Member, JNull
    <2> QED BY <1>1, <2>1 DEF Promised, Outcome, Statuses, IsNull
<1>2. CASE ~ IsNull(field) /\ ~ Indexable(field)
    <2>1. outcome = Outcome("throw", policy)
        BY <1>2 DEF validate_body, Indexable, IsNull, Member, JNull
    <2> QED BY <2>1 DEF Promised, Outcome, Statuses
<1>3. CASE field.kind = "object" /\ IsNull(type)
    <2>1. outcome = Outcome("fail", policy)
        BY <1>3 DEF validate_body, IsNull, Indexable
    <2> QED BY <2>1 DEF Promised, Outcome, Statuses
<1>4. CASE field.kind = "object" /\ type.kind \notin {"null", "string"}
    <2>1. outcome = Outcome("throw", policy)
        BY <1>4 DEF validate_body, IsNull, Indexable
    <2> QED BY <2>1 DEF Promised, Outcome, Statuses
<1>5. CASE field.kind = "object" /\ type.kind = "string"
    <2>1. outcome = IF type.value = Urlencoded
                    THEN validate_config_field(field, policy)
                    ELSE Outcome("fail", policy)
        BY <1>5 DEF validate_body, IsNull, Indexable
    <2>2. "content-type" \in DOMAIN field.members /\ type = field.members["content-type"]
        BY <1>5 DEF Member, JNull
    <2>3. CASE type.value = Urlencoded
        BY <1>5, <2>1, <2>2, <2>3, FieldOutcome
    <2>4. CASE type.value # Urlencoded
        BY <2>1, <2>4 DEF Promised, Outcome, Statuses
    <2> QED BY <2>3, <2>4
<1> QED BY <1>1, <1>2, <1>3, <1>4, <1>5 DEF IsNull, Indexable

-----------------------------------------------------------------------------
(* What validating the section of part p does to the Config.               *)
SectionOutcome(document, config, p) ==
    IF p = "body" THEN validate_body(Member(document, p), config[p])
                  ELSE validate_config_field(Member(document, p), config[p])

(* The sections of any document keep that promise.                         *)
LEMMA SectionPromised ==
    ASSUME NEW document \in Documents, NEW config \in Configs(Str), NEW p \in Parts
    PROVE  Promised(SectionOutcome(document, config, p), Member(document, p), config[p])
<1>1. config[p] \in Policies(Str)
    BY DEF Configs
<1>2. Stringy(Member(document, p))
    BY DocumentsAssumption DEF Stringy, KeysOf
<1> QED BY <1>1, <1>2, FieldOutcome, BodyOutcome DEF SectionOutcome

(* A section that is there and well-formed is what a document asks for.    *)
LEMMA AsksIsWellFormed ==
    ASSUME NEW document, document # NoDocument, NEW p
    PROVE  /\ WellFormed(Member(document, p)) <=> Asks(document, p)
           /\ Asks(document, p) => AskedOf(Member(document, p)) = Asked(document, p)
BY DEF WellFormed, Asks, Asked, Member, JNull

(* Every part is one of the sections, at one place in the order.           *)
LEMMA OrderOfParts ==
    /\ DOMAIN Order = 1 .. 4
    /\ Order = Sections
    /\ \A i \in 1 .. 4 : Order[i] \in Parts
    /\ \A i, j \in 1 .. 4 : Order[i] = Order[j] => i = j
    /\ \A p \in Parts : \E i \in 1 .. 4 : p = Order[i]
    /\ Order[1] = "body"
<1>1. Order[1] = "body" /\ Order[2] = "path" /\ Order[3] = "cookie" /\ Order[4] = "header"
    BY DEF Order
<1>2. DOMAIN Order = 1 .. 4 /\ Order = Sections
    BY DEF Order, Sections
<1>3. 1 .. 4 = {1, 2, 3, 4}
    OBVIOUS
<1> QED BY <1>1, <1>2, <1>3 DEF Parts

(* The document was followed up to the section at cut, and not from there. *)
FollowedTo(cut, document, before, after) ==
    \A i \in DOMAIN Sections :
        after[Sections[i]] = IF i < cut /\ Asks(document, Sections[i])
                             THEN Asked(document, Sections[i]) ELSE before[Sections[i]]

(* What parseConfig does to the Config, by the status it returns.          *)
LEMMA ParseOutcome ==
    ASSUME NEW document \in Documents, document # NoDocument, NEW config \in Configs(Str)
    PROVE  LET result == parseConfig(document, config)
           IN  /\ result.status \in Statuses
               /\ result.config \in Configs(Str)
               /\ result.status = "ok" =>
                     \A p \in Parts : result.config[p] = IF Asks(document, p)
                                                         THEN Asked(document, p) ELSE config[p]
               /\ result.status = "fail" =>
                     \E cut \in 1 .. Len(Sections) :
                        /\ BodyRefused(document) => cut = 1
                        /\ FollowedTo(cut, document, config, result.config)
<1> DEFINE result == parseConfig(document, config)
           outcome == [p \in Parts |-> SectionOutcome(document, config, p)]
           refused == {i \in DOMAIN Order : outcome[Order[i]].status # "ok"}
           reached == {i \in DOMAIN Order : \A j \in refused : i <= j}
<1>1. \A p \in Parts : /\ outcome[p] = SectionOutcome(document, config, p)
                       /\ Promised(outcome[p], Member(document, p), config[p])
    BY SectionPromised
<1>2. CASE document.kind = "discarded"
    <2>1. result = [status |-> "fail", config |-> config]
        BY <1>2 DEF parseConfig, Indexable
    <2>2. FollowedTo(1, document, config, config)
        BY OrderOfParts DEF FollowedTo
    <2>3. 1 \in 1 .. Len(Sections)
        BY DEF Sections
    <2> QED BY <2>1, <2>2, <2>3, SMTT(60) DEF Statuses
<1>3. CASE document.kind # "discarded" /\ ~ Indexable(document)
    <2>1. result = [status |-> "throw", config |-> config]
        BY <1>3 DEF parseConfig
    <2> QED BY <2>1, SMTT(60) DEF Statuses
<1>4. CASE Indexable(document)
    <2>1. result = [ status |-> IF refused = {} THEN "ok" ELSE outcome[Order[Min(refused)]].status,
                     config |-> [p \in Parts |-> IF p \in {Order[i] : i \in reached}
                                                 THEN outcome[p].policy ELSE config[p]] ]
        BY <1>4 DEF parseConfig, Indexable, SectionOutcome
    <2> HIDE DEF result, outcome
    <2>2. result.config \in Configs(Str)
        <3>1. \A p \in Parts : outcome[p].policy \in Policies(Str) /\ config[p] \in Policies(Str)
            BY <1>1 DEF Promised, Configs
        <3> QED BY <2>1, <3>1 DEF Configs
    <2>3. CASE refused = {}
        <3>1. \A p \in Parts : p \in {Order[i] : i \in reached}
            BY <2>3, OrderOfParts
        <3>2. \A p \in Parts : outcome[p].status = "ok"
            BY <2>3, OrderOfParts
        <3>3. \A p \in Parts : result.config[p] = outcome[p].policy
            BY <2>1, <3>1
        <3>4. \A p \in Parts : result.config[p] = IF Asks(document, p)
                                                  THEN Asked(document, p) ELSE config[p]
            BY <1>1, <3>2, <3>3, AsksIsWellFormed DEF Promised
        <3>5. result.status = "ok"
            BY <2>1, <2>3
        <3> QED BY <2>2, <3>4, <3>5 DEF Statuses, result
    <2>4. CASE refused # {}
        <3> DEFINE first == Min(refused)
        <3>1. first \in refused /\ \A j \in refused : first <= j
            <4>1. refused \in SUBSET Nat
                BY OrderOfParts
            <4> QED BY <2>4, <4>1, MinIsLeast
        <3>2. result.status = outcome[Order[first]].status
            BY <2>1, <2>4
        <3> HIDE DEF first
        <3>3. first \in 1 .. 4 /\ outcome[Order[first]].status # "ok" /\ Order[first] \in Parts
            BY <3>1, OrderOfParts
        <3>4. \A i \in 1 .. 4 : i \in reached <=> i <= first
            BY <3>1, OrderOfParts
        <3>5. \A i \in 1 .. 4 : i < first => outcome[Order[i]].status = "ok"
            BY <3>1, <3>3, OrderOfParts
        <3>6. \A i \in 1 .. 4 : result.config[Order[i]] = IF i <= first
                                     THEN outcome[Order[i]].policy ELSE config[Order[i]]
            <4> TAKE i \in 1 .. 4
            <4>1. Order[i] \in {Order[j] : j \in reached} <=> i <= first
                BY <3>4, OrderOfParts
            <4> QED BY <2>1, <4>1, OrderOfParts
        <3>7. result.status \in {"fail", "throw"}
            BY <1>1, <3>2, <3>3 DEF Promised, Statuses
        <3>8. ASSUME result.status = "fail"
              PROVE  FollowedTo(first, document, config, result.config)
            <4>1. SUFFICES ASSUME NEW i \in 1 .. 4
                  PROVE  result.config[Order[i]] =
                            IF i < first /\ Asks(document, Order[i])
                            THEN Asked(document, Order[i]) ELSE config[Order[i]]
                BY OrderOfParts DEF FollowedTo
            <4>2. CASE i < first
                <5>1. result.config[Order[i]] = outcome[Order[i]].policy
                    BY <3>3, <3>6, <4>2
                <5>2. outcome[Order[i]].status = "ok" /\ Order[i] \in Parts
                    BY <3>5, <4>2, OrderOfParts
                <5> QED BY <1>1, <4>2, <5>1, <5>2, AsksIsWellFormed DEF Promised
            <4>3. CASE i = first
                <5>1. result.config[Order[i]] = outcome[Order[i]].policy
                    BY <3>3, <3>6, <4>3
                <5>2. outcome[Order[i]].status = "fail" /\ Order[i] \in Parts
                    BY <3>2, <3>3, <3>8, <4>3
                <5>3. outcome[Order[i]].policy = config[Order[i]]
                    BY <1>1, <5>2 DEF Promised
                <5> QED BY <3>3, <4>3, <5>1, <5>3
            <4>4. CASE i > first
                BY <3>3, <3>6, <4>4
            <4> QED BY <3>3, <4>2, <4>3, <4>4
        <3>9. ASSUME BodyRefused(document) PROVE first = 1
            <4>1. /\ document.kind = "object" /\ "body" \in DOMAIN document.members
                  /\ Member(document, "body") = document.members["body"]
                BY <3>9 DEF BodyRefused, Member
            <4>2. Member(document, "body").kind = "object"
                  /\ ~ ( /\ "content-type" \in DOMAIN Member(document, "body").members
                         /\ Member(document, "body").members["content-type"].kind = "string"
                         /\ Member(document, "body").members["content-type"].value = Urlencoded )
                BY <3>9, <4>1 DEF BodyRefused
            <4>3. outcome["body"].status # "ok"
                <5>1. outcome["body"] = validate_body(Member(document, "body"), config["body"])
                    BY <1>1 DEF SectionOutcome, Parts
                <5>2. Stringy(Member(document, "body")) /\ config["body"] \in Policies(Str)
                    BY DocumentsAssumption DEF Stringy, KeysOf, Parts, Configs
                <5> QED BY <4>2, <5>1, <5>2, BodyOutcome
            <4>4. 1 \in refused
                BY <4>3, OrderOfParts
            <4> QED BY <3>1, <3>3, <4>4
        <3>10. first \in 1 .. Len(Sections)
            BY <3>3 DEF Sections
        <3> QED BY <2>2, <3>7, <3>8, <3>9, <3>10 DEF Statuses, result
    <2> QED BY <2>3, <2>4, SMTT(60) DEF result
<1> QED BY <1>2, <1>3, <1>4

-----------------------------------------------------------------------------
(* The four facts, of what onConfigure is given: perhaps an empty text.    *)
Outcomes(document, result) ==
    /\ result.status \in Statuses
    /\ result.config \in Configs(Str)
    /\ result.status = "ok" =>
          \A p \in Parts : result.config[p] = IF Asks(document, p)
                                              THEN Asked(document, p) ELSE root[p]
    /\ result.status = "fail" =>
          \E cut \in 1 .. Len(Sections) :
             /\ BodyRefused(document) => cut = 1
             /\ FollowedTo(cut, document, root, result.config)

(* An empty text asks for nothing and changes nothing.                     *)
LEMMA ParsedOutcomes ==
    ASSUME root \in Configs(Str), NEW document \in Documents \cup {NoDocument}
    PROVE  Outcomes(document, Parsed(document))
<1>1. CASE document = NoDocument
    <2>1. Parsed(document) = [status |-> "ok", config |-> root]
        BY <1>1 DEF Parsed
    <2>2. \A p \in Parts : ~ Asks(document, p)
        BY <1>1 DEF Asks
    <2> QED BY <2>1, <2>2 DEF Outcomes, Statuses
<1>2. CASE document # NoDocument
    <2>1. document \in Documents /\ Parsed(document) = parseConfig(document, root)
        BY <1>2 DEF Parsed
    <2> QED BY <1>2, <2>1, ParseOutcome DEF Outcomes
<1> QED BY <1>1, <1>2

(* One call of onConfigure, with the history as functions of position.     *)
LEMMA Configured ==
    ASSUME RootTypeOK, NEW document \in Documents \cup {NoDocument}, OnConfigure(document)
    PROVE  /\ Outcomes(document, Parsed(document))
           /\ root' = Parsed(document).config
           /\ Len(given') = Len(given) + 1
           /\ given'[Len(given')] = document
           /\ \A i \in DOMAIN given : i \in DOMAIN given' /\ given'[i] = given[i]
           /\ Len(given') \in DOMAIN given'
           /\ answered'[Len(given')] = Parsed(document).status
           /\ vm' = "trapped" <=> Parsed(document).status = "throw"
           /\ RootTypeOK'
<1>1. Outcomes(document, Parsed(document))
    BY ParsedOutcomes DEF RootTypeOK, Configs, Policies
<1>2. /\ vm # "trapped" /\ root' = Parsed(document).config
      /\ given' = Append(given, document)
      /\ answered' = Append(answered, Parsed(document).status)
      /\ \/ Parsed(document).status = "ok" /\ vm' = "serving"
         \/ Parsed(document).status = "fail" /\ vm' \in {vm, "idle"}
         \/ Parsed(document).status = "throw" /\ vm' = "trapped"
    BY DEF OnConfigure
<1>3. Parsed(document).status \in Statuses /\ Parsed(document).config \in Configs(Str)
    BY <1>1 DEF Outcomes
<1>4. /\ given \in Seq(Documents \cup {NoDocument}) /\ answered \in Seq(Statuses)
      /\ Len(given) = Len(answered) /\ vm \in {"idle", "serving", "trapped"}
    BY DEF RootTypeOK, Statuses
<1>5. /\ Len(given') = Len(given) + 1
      /\ given'[Len(given')] = document
      /\ \A i \in DOMAIN given : i \in DOMAIN given' /\ given'[i] = given[i]
      /\ Len(given') \in DOMAIN given'
      /\ given' \in Seq(Documents \cup {NoDocument})
    BY <1>2, <1>4
<1>6. /\ answered'[Len(given')] = Parsed(document).status
      /\ answered' \in Seq(Statuses) /\ Len(given') = Len(answered')
    BY <1>2, <1>3, <1>4, <1>5
<1>7. vm' \in {"idle", "serving", "trapped"}
    BY <1>2, <1>4
<1>8. vm' = "trapped" <=> Parsed(document).status = "throw"
    BY <1>2
<1>9. RootTypeOK'
    BY <1>2, <1>3, <1>5, <1>6, <1>7 DEF RootTypeOK, Configs, Policies, Statuses
<1> QED BY <1>1, <1>2, <1>5, <1>6, <1>8, <1>9

(* A part that was asked for by a document, or never, still is when        *)
(* another document has been delivered.                                    *)
Founded(p, policy, documents) ==
    \/ policy = DefaultConfig[p]
    \/ \E i \in DOMAIN documents : Asks(documents[i], p) /\ policy = Asked(documents[i], p)

(* No call of onConfigure that returns leaves a torn policy in force.      *)
LEMMA ConfiguredFounded ==
    ASSUME RootTypeOK, PartsFromOneDocument,
           NEW document \in Documents \cup {NoDocument}, OnConfigure(document)
    PROVE  PartsFromOneDocument'
<1>1. SUFFICES ASSUME vm' # "trapped", NEW p \in Parts
      PROVE  Founded(p, root'[p], given')
    BY DEF PartsFromOneDocument, Founded
<1>2. /\ Outcomes(document, Parsed(document)) /\ root' = Parsed(document).config
      /\ given'[Len(given')] = document /\ Len(given') \in DOMAIN given'
      /\ \A i \in DOMAIN given : i \in DOMAIN given' /\ given'[i] = given[i]
      /\ Parsed(document).status # "throw"
    BY <1>1, Configured
<1>3. Founded(p, root[p], given)
    BY DEF PartsFromOneDocument, Founded, OnConfigure
<1>4. Founded(p, root[p], given')
    BY <1>2, <1>3 DEF Founded
<1>5. root'[p] = root[p] \/ (Asks(document, p) /\ root'[p] = Asked(document, p))
    <2>1. CASE Parsed(document).status = "ok"
        BY <1>2, <2>1 DEF Outcomes
    <2>2. CASE Parsed(document).status = "fail"
        <3>1. PICK cut \in 1 .. Len(Sections) : FollowedTo(cut, document, root, root')
            BY <1>2, <2>2 DEF Outcomes
        <3>2. PICK i \in 1 .. 4 : p = Sections[i] /\ i \in DOMAIN Sections
            BY OrderOfParts
        <3> QED BY <3>1, <3>2 DEF FollowedTo
    <2> QED BY <1>2, <2>1, <2>2 DEF Outcomes, Statuses
<1> QED BY <1>2, <1>4, <1>5 DEF Founded

(* The invariant holds of the root context before it is configured.        *)
LEMMA RootInitInv == RootInit => RootTypeOK /\ PartsFromOneDocument
<1> SUFFICES ASSUME RootInit PROVE RootTypeOK /\ PartsFromOneDocument
    OBVIOUS
<1>1. DefaultConfig \in Configs(Str)
    BY NamesAssumption DEF DefaultConfig, Configs, Policies, Only, AllBut
<1> QED BY <1>1 DEF RootInit, RootTypeOK, PartsFromOneDocument, Configs, Policies

(* It is kept by every call of onConfigure.                                *)
LEMMA RootStepInv ==
    ASSUME RootTypeOK, PartsFromOneDocument, [RootNext]_rootVars
    PROVE  RootTypeOK' /\ PartsFromOneDocument'
<1>1. CASE RootNext
    BY <1>1, Configured, ConfiguredFounded DEF RootNext
<1>2. CASE UNCHANGED rootVars
    BY <1>2 DEF rootVars, RootTypeOK, PartsFromOneDocument
<1> QED BY <1>1, <1>2

(* Whatever documents are delivered, in whatever order and however often,  *)
(* the four policies are well-formed.                                      *)
THEOREM RootTyping == RootSpec => []RootTypeOK
<1>1. RootTypeOK /\ PartsFromOneDocument /\ [RootNext]_rootVars
         => (RootTypeOK /\ PartsFromOneDocument)'
    BY RootStepInv
<1> QED BY <1>1, RootInitInv, PTL DEF RootSpec

(* Whatever documents are delivered, the flag and the keys of each policy  *)
(* in force were asked for by one of them, or are the default.             *)
THEOREM NoTornPolicy == RootSpec => []PartsFromOneDocument
<1>1. RootTypeOK /\ PartsFromOneDocument /\ [RootNext]_rootVars
         => (RootTypeOK /\ PartsFromOneDocument)'
    BY RootStepInv
<1> QED BY <1>1, RootInitInv, PTL DEF RootSpec

(* Whatever was delivered before, an accepted document puts every part it  *)
(* names in force and leaves the others.                                   *)
THEOREM AcceptedApplies == RootSpec => AcceptedPartsApply
<1> DEFINE Apply == (Len(given') > Len(given) /\ answered'[Len(given')] = "ok") =>
              \A p \in Parts :
                  LET document == given'[Len(given')]
                  IN  root'[p] = IF Asks(document, p) THEN Asked(document, p) ELSE root[p]
<1>1. ASSUME RootTypeOK, [RootNext]_rootVars PROVE [Apply]_rootVars
    <2>1. CASE RootNext
        <3>1. PICK document \in Documents \cup {NoDocument} : OnConfigure(document)
            BY <2>1 DEF RootNext
        <3>2. /\ Outcomes(document, Parsed(document)) /\ root' = Parsed(document).config
              /\ given'[Len(given')] = document
              /\ answered'[Len(given')] = Parsed(document).status
            BY <1>1, <3>1, Configured
        <3> QED BY <3>2 DEF Outcomes
    <2> QED BY <1>1, <2>1
<1> QED BY <1>1, RootTyping, PTL DEF RootSpec, AcceptedPartsApply

(* Whatever was delivered before, a refused document acts as a prefix.     *)
THEOREM RefusedIsPrefix == RootSpec => RefusalIsAPrefix
<1> DEFINE Prefix == (Len(given') > Len(given) /\ answered'[Len(given')] = "fail") =>
              \E cut \in 1 .. Len(Sections) :
                  LET document == given'[Len(given')]
                  IN  /\ BodyRefused(document) => cut = 1
                      /\ \A i \in DOMAIN Sections :
                            LET p == Sections[i]
                            IN  root'[p] = IF i < cut /\ Asks(document, p)
                                           THEN Asked(document, p) ELSE root[p]
<1>1. ASSUME RootTypeOK, [RootNext]_rootVars PROVE [Prefix]_rootVars
    <2>1. CASE RootNext
        <3>1. PICK document \in Documents \cup {NoDocument} : OnConfigure(document)
            BY <2>1 DEF RootNext
        <3>2. /\ Outcomes(document, Parsed(document)) /\ root' = Parsed(document).config
              /\ given'[Len(given')] = document
              /\ answered'[Len(given')] = Parsed(document).status
            BY <1>1, <3>1, Configured
        <3> QED BY <3>2 DEF Outcomes, FollowedTo
    <2> QED BY <1>1, <2>1
<1> QED BY <1>1, RootTyping, PTL DEF RootSpec, RefusalIsAPrefix

=============================================================================
