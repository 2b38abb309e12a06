---------------------------- MODULE IsSqliProofs ----------------------------
(***************************************************************************)
(* What holds of the detection for every set of inputs, every table of     *)
(* words, phrases and fingerprints and every size of a token.              *)
(*                                                                         *)
(* The argument: while the input is being parsed, the folding's invariant  *)
(* holds, because what the tokenizer returns is a token (TokenizerIsGood)  *)
(* and the folding keeps its invariant whatever token it is given; each    *)
(* parse begins with the state the folding begins with; and in between the *)
(* array is left as the fingerprint was made of it.  On that rest three    *)
(* more: OrderInv, that the array is in the order of the input; ScanInv,   *)
(* that the counters tell what stands between the beginning of the input   *)
(* and the scan, as they are cleared where the scan is; and TriedInv, that *)
(* the contexts are parsed in their order and each is parsed or not for    *)
(* what the counters told of the parse before it.  That the verdict comes  *)
(* rests on the folding's measure.                                         *)
(***************************************************************************)
EXTENDS TokenizerProofs, FoldProofs

(* The invariant: that of the folding while it runs, and the types.        *)
ParseInv == phase = "parse" => Inv
DetectInv == ParseInv /\ DetectTypeOK

-----------------------------------------------------------------------------
(* A token is a slot, and so is a cleared one.                             *)
LEMMA TokensAreSlots ==
    Token \cup {NoToken} \in SUBSET Slot
<1>1. Token \in SUBSET Slot
    BY DEF Token, Slot
<1>2. NoText \in Text
    BY DEF NoText, Text, Quotes
<1>3. NoToken \in Slot
    BY <1>2 DEF NoToken, Slot
<1> QED BY <1>1, <1>3

(* The state a parse begins with is one the folding begins with.           *)
LEMMA ClearedInv ==
    ASSUME Cleared
    PROVE  Inv'
<1>1. Init'
    BY DEF Cleared, Init
<1>2. Init' => Inv'
    BY InitInv, PTL
<1> QED BY <1>1, <1>2

(* The detection begins with the folding's first state.                    *)
LEMMA DetectInitInv == DetectInit => DetectInv
<1> SUFFICES ASSUME DetectInit PROVE DetectInv
    OBVIOUS
<1>1. Inv
    BY InitInv DEF DetectInit
<1>2. tokenvec \in [Slots -> Slot]
    BY <1>1, TokensAreSlots DEF Inv, TypeOK
<1>3. s \in Inputs /\ Len(s) \in Nat /\ scan = 0 /\ 0 \in 0 .. Len(s)
    BY InputsAssumption DEF DetectInit
<1>4. flags \in Contexts /\ fingerprint \in Seq(TokenTypes) /\ parses = {}
    BY DEF DetectInit, Context, Contexts
<1>5. phase \in {"benign", "parse"}
    BY DEF DetectInit
<1>6. stats_comment_ddx \in Nat /\ stats_comment_hash \in Nat
    BY DEF DetectInit
<1>7. TypeOK
    BY <1>1 DEF Inv
<1> QED BY <1>1, <1>2, <1>3, <1>4, <1>5, <1>6, <1>7 DEF DetectInv, ParseInv, DetectTypeOK, Slot

(* A call of the tokenizer: what it returns is a token of the input, at    *)
(* which the folding keeps its invariant.                                  *)
LEMMA TokenIsReadInv ==
    ASSUME DetectInv, TokenIsRead
    PROVE  DetectInv'
<1> DEFINE call == libinjection_sqli_tokenize(s, scan, flags)
<1>1. /\ s \in Inputs /\ flags \in Contexts /\ scan \in 0 .. Len(s)
      /\ HasToken(s, scan, flags) /\ Inv
    BY DEF DetectInv, DetectTypeOK, ParseInv, TokenIsRead
<1>2. Good(s, scan, call)
    BY <1>1, TokenizerIsGood
<1>3. (Skip(call.token) \/ Fetch(call.token)) /\ scan' = call.pos
    BY DEF TokenIsRead
<1> HIDE DEF call
<1>4. call.token \in Token /\ call.pos \in Nat /\ call.pos <= Len(s)
    BY <1>2 DEF Good
<1>5. Inv'
    BY <1>1, <1>3, <1>4, SkipInv, FetchInv
<1>6. scan' \in 0 .. Len(s)
    BY <1>1, <1>3, <1>4, InputsAssumption
<1>7. tokenvec' \in [Slots -> Slot] /\ TypeOK'
    BY <1>5, TokensAreSlots DEF Inv, TypeOK
<1>8. stats_comment_ddx' \in Nat /\ stats_comment_hash' \in Nat
    BY DEF TokenIsRead, DetectInv, DetectTypeOK
<1>9. UNCHANGED <<s, flags, fingerprint, phase, parses>>
    BY DEF TokenIsRead
<1> QED BY <1>5, <1>6, <1>7, <1>8, <1>9 DEF DetectInv, ParseInv, DetectTypeOK, Slot

(* The other steps of the folding, and the end of the input.               *)
LEMMA FoldingInv ==
    ASSUME DetectInv, InputIsUsedUp \/ TokensAreFolded
    PROVE  DetectInv'
<1>1. Inv /\ phase = "parse" /\ s \in Inputs /\ scan \in 0 .. Len(s)
    BY DEF DetectInv, DetectTypeOK, ParseInv, InputIsUsedUp, TokensAreFolded
<1>2. SkipToEnd \/ FetchEnd \/ Top \/ TooFew \/ Rule \/ Finish
    BY DEF InputIsUsedUp, TokensAreFolded
<1>3. Inv'
    BY <1>1, <1>2, StepInv DEF Next
<1>4. tokenvec' \in [Slots -> Slot] /\ TypeOK'
    BY <1>3, TokensAreSlots DEF Inv, TypeOK
<1>5. scan' \in 0 .. Len(s)
    BY <1>1, InputsAssumption DEF InputIsUsedUp, TokensAreFolded, sfVars
<1>6. UNCHANGED <<s, flags, stats, fingerprint, phase, parses>>
    BY DEF InputIsUsedUp, TokensAreFolded, sfVars
<1> QED BY <1>3, <1>4, <1>5, <1>6 DEF DetectInv, ParseInv, DetectTypeOK, Slot, stats

(* A parse that begins.                                                    *)
LEMMA ResetInv ==
    ASSUME DetectInv, NEW context \in Contexts, Reset(context)
    PROVE  DetectInv'
<1>1. Inv'
    BY ClearedInv DEF Reset
<1>2. tokenvec' \in [Slots -> Slot] /\ TypeOK'
    BY <1>1, TokensAreSlots DEF Inv, TypeOK
<1>3. s' = s /\ s \in Inputs /\ scan' = 0 /\ 0 \in 0 .. Len(s)
    BY InputsAssumption DEF Reset, DetectInv, DetectTypeOK
<1>4. /\ flags' \in Contexts /\ stats_comment_ddx' \in Nat /\ stats_comment_hash' \in Nat
      /\ fingerprint' \in Seq(TokenTypes) /\ phase' = "parse"
    BY DEF Reset
<1>5. parses' = parses
    BY DEF Reset
<1> QED BY <1>1, <1>2, <1>3, <1>4, <1>5 DEF DetectInv, ParseInv, DetectTypeOK, Slot

(* The contexts that follow one another are contexts.                      *)
LEMMA ReparseInv ==
    ASSUME DetectInv, ReparseAsMySQL \/ ParseInSingleQuotes \/ ParseInDoubleQuotes
    PROVE  DetectInv'
<1>1. flags \in Contexts
    BY DEF DetectInv, DetectTypeOK
<1>2. /\ [flags EXCEPT !.dialect = "mysql"] \in Contexts
      /\ Context("single", "ansi") \in Contexts /\ Context("double", "mysql") \in Contexts
    BY <1>1 DEF Contexts, Context
<1> QED BY <1>2, ResetInv DEF ReparseAsMySQL, ParseInSingleQuotes, ParseInDoubleQuotes

(* The fingerprint: of the tokens counted, each of which is one.           *)
LEMMA FingerprintInv ==
    ASSUME DetectInv, FingerprintIsMade
    PROVE  DetectInv'
<1> DEFINE vec   == IF result > 2 /\ EmptyTick(tokenvec[result - 1])
                    THEN Retyped(result - 1, "c") ELSE tokenvec
           types == [i \in 1 .. result |-> vec[i - 1].type]
           evil  == \E i \in 1 .. result : types[i] = "X"
           bad   == [vec EXCEPT ![0].type = "X", ![0].val = "X", ![1].type = "none"]
<1>1. Inv /\ phase' = "lookup" /\ "c" \in TokenTypes /\ "X" \in TokenTypes
    BY DEF DetectInv, ParseInv, FingerprintIsMade, TokenTypes
<1>2. /\ tokenvec \in [Slots -> Slot] /\ result \in -1 .. 6
      /\ \A i \in Slots : i < result => tokenvec[i].type # "none"
    BY <1>1, TokensAreSlots DEF Inv, TypeOK, NoHoleInFingerprint, MAX_TOKENS
<1>3. /\ fingerprint' = IF evil THEN <<"X">> ELSE types
      /\ tokenvec' = IF evil THEN bad ELSE vec
      /\ parses' = parses \cup {[context |-> flags, read |-> read]}
      /\ UNCHANGED <<s, flags, scan, stats_comment_ddx, stats_comment_hash>>
    BY DEF FingerprintIsMade, stats
<1>4. /\ vec \in [Slots -> Slot]
      /\ \A i \in Slots : i < result => vec[i].type # "none"
    <2>1. CASE result > 2 /\ EmptyTick(tokenvec[result - 1])
        <3>1. vec = [tokenvec EXCEPT ![result - 1].type = "c"] /\ result - 1 \in Slots
            BY <1>2, <2>1 DEF Retyped, Slots
        <3> HIDE DEF vec
        <3>2. vec \in [Slots -> Slot]
            BY <1>1, <1>2, <3>1 DEF Slot
        <3>3. \A i \in Slots : vec[i].type = IF i = result - 1 THEN "c" ELSE tokenvec[i].type
            BY <1>2, <3>1 DEF Slot
        <3> QED BY <1>2, <3>2, <3>3
    <2>2. CASE ~ (result > 2 /\ EmptyTick(tokenvec[result - 1]))
        BY <1>2, <2>2
    <2> QED BY <2>1, <2>2
<1> HIDE DEF vec
<1>5. types \in Seq(TokenTypes)
    <2>1. \A i \in 1 .. result : vec[i - 1].type \in TokenTypes
        <3> TAKE i \in 1 .. result
        <3>1. i - 1 \in Slots /\ i - 1 < result
            BY <1>2 DEF Slots
        <3> QED BY <1>4, <3>1, TokenFacts DEF Slot
    <2>2. types \in [1 .. result -> TokenTypes]
        BY <2>1
    <2>3. \E n \in Nat : 1 .. result = 1 .. n
        <3>1. CASE result = -1
            <4>1. 1 .. result = 1 .. 0
                BY <3>1
            <4> QED BY <4>1
        <3>2. CASE result # -1
            BY <1>2, <3>2
        <3> QED BY <3>1, <3>2
    <2> HIDE DEF types
    <2>4. PICK n \in Nat : 1 .. result = 1 .. n
        BY <2>3
    <2>5. types \in [1 .. n -> TokenTypes]
        BY <2>2, <2>4
    <2> QED BY <2>5
<1>6. bad \in [Slots -> Slot]
    <2>1. 0 \in Slots /\ 1 \in Slots
        BY DEF Slots
    <2>2. NoToken.type = "none"
        BY TokenFacts
    <2> HIDE DEF Slots
    <2> QED BY <1>1, <1>4, <2>1, <2>2 DEF Slot
<1>7. fingerprint' \in Seq(TokenTypes) /\ tokenvec' \in [Slots -> Slot]
    <2>1. <<"X">> \in Seq(TokenTypes)
        BY <1>1
    <2> HIDE DEF types, evil, bad
    <2> QED BY <1>3, <1>4, <1>5, <1>6, <2>1
<1> HIDE DEF types, evil, bad
<1>8. parses' \subseteq [context : Contexts, read : Nat]
    BY <1>1, <1>3 DEF DetectInv, DetectTypeOK, Inv, TypeOK
<1>9. /\ s' \in Inputs /\ flags' \in Contexts /\ scan' \in 0 .. Len(s')
      /\ stats_comment_ddx' \in Nat /\ stats_comment_hash' \in Nat
    BY <1>3 DEF DetectInv, DetectTypeOK
<1> QED BY <1>1, <1>7, <1>8, <1>9 DEF DetectInv, ParseInv, DetectTypeOK, Slot

(* The verdict changes nothing else.                                       *)
LEMMA VerdictInv ==
    ASSUME DetectInv, Positive \/ Benign
    PROVE  DetectInv'
<1>1. /\ phase' \in {"sqli", "benign"}
      /\ UNCHANGED <<vars, s, sfVars, parses>>
    BY DEF Positive, Benign
<1> QED BY <1>1 DEF DetectInv, ParseInv, DetectTypeOK, vars, sfVars, stats

(* Every step of the detection keeps the invariant.                        *)
LEMMA DetectStepInv == DetectInv /\ [DetectNext]_detectVars => DetectInv'
<1> SUFFICES ASSUME DetectInv, [DetectNext]_detectVars PROVE DetectInv'
    OBVIOUS
<1>1. CASE DetectNext
    BY <1>1, TokenIsReadInv, FoldingInv, FingerprintInv, ReparseInv, VerdictInv DEF DetectNext
<1>2. CASE UNCHANGED detectVars
    <2>1. Inv => Inv'
        BY <1>2, StepInv DEF detectVars
    <2>2. TypeOK => TypeOK'
        BY <1>2 DEF detectVars, vars, TypeOK
    <2>3. UNCHANGED <<tokenvec, s, flags, scan, stats_comment_ddx, stats_comment_hash,
                      fingerprint, phase, parses>>
        BY <1>2 DEF detectVars, vars, sfVars, stats
    <2> QED BY <2>1, <2>2, <2>3 DEF DetectInv, ParseInv, DetectTypeOK
<1> QED BY <1>1, <1>2

-----------------------------------------------------------------------------
(* The order of the tokens.  A rule leaves each slot with its own text or  *)
(* that of the next one, so that what was in order stays in order; what is *)
(* read stands after everything on the stack; and a comment remembered     *)
(* stands after the tokens it will be put behind.                          *)
MovesTexts(vec) ==
    \A i \in Slots : i < pos =>
        \E m \in {i, i + 1} : m < pos /\ vec[i].text.pos = tokenvec[m].text.pos
Behind(vec, n, limit) == \A i \in Slots : i < n => vec[i].text.pos <= limit

StackOrder ==
    /\ pc # "done" =>
          /\ InOrder(tokenvec, pos) /\ Behind(tokenvec, pos, scan)
          /\ last_comment.type = "c" =>
                /\ Behind(tokenvec, pos, last_comment.text.pos)
                /\ last_comment.text.pos <= scan
    /\ pc = "done" =>
          /\ result \in Nat /\ InOrder(tokenvec, result)
          /\ result > MAX_TOKENS => tokenvec[result - 1].type = "X"
    /\ pc = "skip" => last_comment.type # "c"
OrderInv == (phase = "parse" => StackOrder) /\ FingerprintIsInOrder

(* Where the texts of the tokens stand are numbers.                        *)
LEMMA TextsArePlaced ==
    ASSUME Inv
    PROVE  /\ \A i \in Slots : tokenvec[i].text \in Text /\ tokenvec[i].text.pos \in Nat
           /\ last_comment.text.pos \in Nat
<1>1. NoText \in Text
    BY DEF NoText, Text, Quotes
<1>2. \A u \in Token \cup {NoToken} : u.text \in Text
    <2>1. \A u \in Token : u.text \in Text
        BY DEF Token
    <2>2. NoToken.text \in Text
        BY <1>1 DEF NoToken
    <2> QED BY <2>1, <2>2
<1>3. \A text \in Text : text.pos \in Nat
    BY DEF Text
<1> QED BY <1>2, <1>3 DEF Inv, TypeOK

(* The ways a rule edits the array move no text further than one slot.     *)
LEMMA EditsMoveTexts ==
    ASSUME Inv, NEW k \in Slots, k < pos
    PROVE  /\ MovesTexts(tokenvec)
           /\ \A u : MovesTexts(Retyped(k, u))
           /\ k + 1 < pos => MovesTexts(Copied(k, k + 1))
           /\ \A b : MovesTexts([tokenvec EXCEPT ![k] = Merged(tokenvec[k], b)])
<1>1. tokenvec \in [Slots -> Token \cup {NoToken}] /\ pos \in Nat
    BY DEF Inv, TypeOK
<1>2. \A i \in Slots : i \in Nat
    BY DEF Slots
<1>3. MovesTexts(tokenvec)
    BY DEF MovesTexts
<1>4. ASSUME NEW vec, \A i \in Slots : vec[i].text.pos = tokenvec[i].text.pos
      PROVE  MovesTexts(vec)
    BY <1>4 DEF MovesTexts
<1>5. ASSUME NEW u PROVE MovesTexts(Retyped(k, u))
    <2>1. \A i \in Slots : Retyped(k, u)[i].text = tokenvec[i].text
        <3>1. \A t \in Token \cup {NoToken} : [t EXCEPT !.type = u].text = t.text
            BY DEF Token, NoToken
        <3>2. Retyped(k, u) = [tokenvec EXCEPT ![k] = [tokenvec[k] EXCEPT !.type = u]]
            BY <1>1 DEF Retyped
        <3> QED BY <1>1, <3>1, <3>2
    <2> QED BY <1>4, <2>1
<1>6. ASSUME k + 1 < pos PROVE MovesTexts(Copied(k, k + 1))
    BY <1>1, <1>2, <1>6 DEF MovesTexts, Copied
<1>7. ASSUME NEW b PROVE MovesTexts([tokenvec EXCEPT ![k] = Merged(tokenvec[k], b)])
    <2>1. Merged(tokenvec[k], b).text.pos = tokenvec[k].text.pos
        <3>1. tokenvec[k].text \in Text
            BY TextsArePlaced
        <3>2. Merged(tokenvec[k], b).text
                = [tokenvec[k].text EXCEPT !.len = tokenvec[k].text.len + b.text.len + 1]
            BY DEF Merged
        <3> QED BY <3>1, <3>2 DEF Text
    <2> DEFINE word == Merged(tokenvec[k], b)
    <2> HIDE DEF word
    <2>2. word.text.pos = tokenvec[k].text.pos
        BY <2>1 DEF word
    <2>3. MovesTexts([tokenvec EXCEPT ![k] = word])
        BY <1>1, <1>4, <2>2
    <2> QED BY <2>3 DEF word
<1> QED BY <1>3, <1>5, <1>6, <1>7

(* Every rule is such an edit, and takes off the top.                      *)
LEMMA RulesMoveTexts ==
    ASSUME Inv, Rule
    PROVE  /\ MovesTexts(tokenvec')
           /\ pos' \in Nat /\ pos' <= pos /\ last_comment' = last_comment
           /\ EvilBrace \/ pc' \in {"top", "three"}
<1> DEFINE Edited == /\ MovesTexts(tokenvec')
                     /\ pos' \in Nat /\ pos' <= pos /\ last_comment' = last_comment
                     /\ pc' \in {"top", "three"}
<1>1. pos \in Nat /\ pos' \in Nat
    <2>1. Inv'
        BY PairInv, TripleInv, EvilBraceInv DEF Rule
    <2> QED BY <2>1 DEF Inv, TypeOK
<1>2. \A vec, newLeft, next :
          (MovesTexts(vec) /\ next \in {"top", "three"}) =>
              /\ Rewrite(vec, 0, newLeft, next) => Edited
              /\ Rewrite(vec, 1, newLeft, next) => Edited
              /\ Rewrite(vec, 2, newLeft, next) => Edited
              /\ Rewrite(vec, 3, newLeft, next) => Edited
    BY <1>1 DEF Rewrite
<1>3. ASSUME PairReady
      PROVE  /\ MovesTexts(tokenvec) /\ MovesTexts(Copied(left, left + 1))
             /\ \A u : MovesTexts(Retyped(left, u)) /\ MovesTexts(Retyped(left + 1, u))
             /\ \A b : MovesTexts([tokenvec EXCEPT ![left] = Merged(tokenvec[left], b)])
    BY <1>3, PairWindow, EditsMoveTexts
<1>4. ASSUME TripleReady
      PROVE  /\ MovesTexts(tokenvec) /\ MovesTexts(Copied(left + 1, left + 2))
             /\ \A u : MovesTexts(Retyped(left, u))
    <2>1. /\ left \in Slots /\ left + 1 \in Slots /\ left < pos /\ left + 1 < pos
          /\ left + 1 + 1 = left + 2 /\ left + 2 < pos
        BY <1>4, TripleWindow
    <2> QED BY <2>1, EditsMoveTexts
<1>5. CASE DropRepeated \/ DropAndRestart \/ DropUnaryInParens \/ StripBrace \/ NoPairRule
    BY <1>2, <1>3, <1>5 DEF DropRepeated, DropAndRestart, DropUnaryInParens, StripBrace,
                            NoPairRule
<1>6. CASE MergeWords
    <2>1. PairReady
        BY <1>6 DEF MergeWords
    <2>2. Rewrite([tokenvec EXCEPT ![left] = Merged(tokenvec[left], tokenvec[left + 1])],
                  1, BackOne, "top")
        BY <1>6 DEF MergeWords
    <2> QED BY <1>2, <1>3, <2>1, <2>2
<1>7. CASE IfStatement \/ WordIsFunction \/ InIsOperator \/ LikeIsFunction
    BY <1>2, <1>3, <1>7 DEF IfStatement, WordIsFunction, InIsOperator, LikeIsFunction
<1>8. CASE DropSqlType \/ Collation \/ Backslash
    BY <1>2, <1>3, <1>8 DEF DropSqlType, Collation, Backslash
<1>9. CASE EvilBrace
    <2>1. PairReady /\ tokenvec' = Retyped(left + 1, "X") /\ UNCHANGED <<pos, last_comment>>
        BY <1>9 DEF EvilBrace
    <2> QED BY <1>1, <1>3, <1>9, <2>1
<1>10. CASE DropTwo \/ NoTripleRule
    BY <1>2, <1>4, <1>10 DEF DropTwo, NoTripleRule
<1>11. CASE DropMiddle \/ DropListItem \/ UserIsWord
    BY <1>2, <1>4, <1>11 DEF DropMiddle, DropListItem, UserIsWord
<1> QED BY <1>5, <1>6, <1>7, <1>8, <1>9, <1>10, <1>11 DEF Rule

(* What such an edit leaves is in order as far as it was, and stands       *)
(* before whatever it stood before.                                        *)
LEMMA MovedIsInOrder ==
    ASSUME Inv, NEW vec, MovesTexts(vec), NEW n \in Nat, n <= pos
    PROVE  /\ InOrder(tokenvec, pos) => InOrder(vec, n)
           /\ \A limit : Behind(tokenvec, pos, limit) => Behind(vec, n, limit)
<1>1. pos \in Nat /\ pos <= 6 /\ \A i \in Slots : tokenvec[i].text.pos \in Nat
    BY TextsArePlaced DEF Inv, TypeOK, WindowInBounds, MAX_TOKENS
<1>2. ASSUME NEW i \in Slots, i < n
      PROVE  \E m \in {i, i + 1} : /\ m \in Slots /\ m < pos
                                   /\ vec[i].text.pos = tokenvec[m].text.pos
    <2>1. PICK m \in {i, i + 1} : m < pos /\ vec[i].text.pos = tokenvec[m].text.pos
        BY <1>1, <1>2 DEF MovesTexts, Slots
    <2>2. m \in Slots
        BY <1>1, <2>1 DEF Slots
    <2> QED BY <2>1, <2>2
<1>3. ASSUME InOrder(tokenvec, pos), NEW i \in Slots, NEW j \in Slots, i < j, j < n
      PROVE  vec[i].text.pos <= vec[j].text.pos
    <2>1. i < n /\ i \in Nat /\ j \in Nat
        BY <1>3 DEF Slots
    <2>2. PICK a \in {i, i + 1} : /\ a \in Slots /\ a < pos
                                  /\ vec[i].text.pos = tokenvec[a].text.pos
        BY <1>2, <2>1
    <2>3. PICK b \in {j, j + 1} : /\ b \in Slots /\ b < pos
                                  /\ vec[j].text.pos = tokenvec[b].text.pos
        BY <1>2, <1>3
    <2>4. a < b \/ a = b
        BY <1>3, <2>1, <2>2, <2>3
    <2>5. tokenvec[a].text.pos <= tokenvec[b].text.pos
        <3>1. CASE a < b
            BY <1>3, <2>2, <2>3, <3>1 DEF InOrder
        <3>2. CASE a = b
            BY <1>1, <2>2, <3>2
        <3> QED BY <2>4, <3>1, <3>2
    <2> QED BY <2>2, <2>3, <2>5
<1>4. ASSUME NEW limit, Behind(tokenvec, pos, limit), NEW i \in Slots, i < n
      PROVE  vec[i].text.pos <= limit
    BY <1>2, <1>4 DEF Behind
<1> QED BY <1>3, <1>4 DEF InOrder, Behind

(* A rule keeps the order.  The one that returns leaves an unparsable      *)
(* token where the result ends.                                            *)
LEMMA RuleOrder ==
    ASSUME Inv, StackOrder, Rule, UNCHANGED scan
    PROVE  StackOrder'
<1>1. pc # "done"
    BY DEF Rule, PairReady, TripleReady, DropRepeated, DropAndRestart, DropUnaryInParens,
           MergeWords, IfStatement, WordIsFunction, InIsOperator, LikeIsFunction,
           DropSqlType, Collation, Backslash, StripBrace, EvilBrace, NoPairRule,
           DropTwo, DropMiddle, DropListItem, UserIsWord, NoTripleRule
<1>2. /\ MovesTexts(tokenvec') /\ pos' \in Nat /\ pos' <= pos
      /\ last_comment' = last_comment /\ (EvilBrace \/ pc' \in {"top", "three"})
    BY RulesMoveTexts
<1>3. CASE pc' \in {"top", "three"}
    <2>1. InOrder(tokenvec', pos') /\ Behind(tokenvec', pos', scan)
        BY <1>1, <1>2, MovedIsInOrder DEF StackOrder
    <2>2. last_comment.type = "c" => /\ Behind(tokenvec', pos', last_comment.text.pos)
                                     /\ last_comment.text.pos <= scan
        BY <1>1, <1>2, MovedIsInOrder DEF StackOrder
    <2> QED BY <1>2, <1>3, <2>1, <2>2 DEF StackOrder, InOrder, Behind
<1>4. CASE EvilBrace
    <2>1. /\ tokenvec' = Retyped(left + 1, "X") /\ result' = left + 2 /\ pc' = "done"
          /\ PairReady
        BY <1>4 DEF EvilBrace
    <2>2. left \in Nat /\ left + 2 \in Nat /\ left + 2 <= pos /\ left + 1 \in Slots
        BY <2>1, PairWindow
    <2>3. InOrder(tokenvec', result')
        BY <1>1, <1>2, <2>1, <2>2, MovedIsInOrder DEF StackOrder
    <2>4. tokenvec'[result' - 1].type = "X"
        <3>1. result' - 1 = left + 1
            BY <2>1, <2>2
        <3>2. tokenvec \in [Slots -> Token \cup {NoToken}]
            BY DEF Inv, TypeOK
        <3>3. \A t \in Token \cup {NoToken} : [t EXCEPT !.type = "X"].type = "X"
            BY DEF Token, NoToken
        <3>4. tokenvec'[left + 1] = [tokenvec[left + 1] EXCEPT !.type = "X"]
            BY <2>1, <2>2, <3>2 DEF Retyped
        <3> QED BY <2>2, <3>1, <3>2, <3>3, <3>4
    <2> QED BY <2>1, <2>2, <2>3, <2>4 DEF StackOrder, InOrder
<1> QED BY <1>2, <1>3, <1>4

(* The head of the loop: the cut keeps the first token, or the first and   *)
(* the sixth.                                                              *)
LEMMA TopOrder ==
    ASSUME Inv, StackOrder, Top, UNCHANGED scan
    PROVE  StackOrder'
<1>1. /\ pc = "top" /\ pc' \notin {"skip", "done"} /\ last_comment' = last_comment
      /\ \/ tokenvec' = tokenvec /\ pos' \in {1, pos} /\ (pos' = pos \/ pos >= MAX_TOKENS)
         \/ /\ tokenvec' = [tokenvec EXCEPT ![1] = tokenvec[MAX_TOKENS]]
            /\ pos > MAX_TOKENS /\ pos' = 2
    BY DEF Top
<1>2. /\ tokenvec \in [Slots -> Token \cup {NoToken}] /\ pos \in Nat
      /\ InOrder(tokenvec, pos) /\ Behind(tokenvec, pos, scan)
      /\ last_comment.type = "c" => /\ Behind(tokenvec, pos, last_comment.text.pos)
                                    /\ last_comment.text.pos <= scan
    BY <1>1 DEF Inv, TypeOK, StackOrder
<1>3. CASE tokenvec' = tokenvec /\ pos' \in {1, pos} /\ (pos' = pos \/ pos >= MAX_TOKENS)
    <2>1. pos' \in Nat /\ pos' <= pos
        BY <1>2, <1>3 DEF MAX_TOKENS
    <2>2. InOrder(tokenvec, pos')
        BY <1>2, <2>1 DEF InOrder, Slots
    <2>3. \A limit : Behind(tokenvec, pos, limit) => Behind(tokenvec, pos', limit)
        BY <1>2, <2>1 DEF Behind, Slots
    <2> QED BY <1>1, <1>2, <1>3, <2>2, <2>3 DEF StackOrder, InOrder, Behind
<1>4. CASE /\ tokenvec' = [tokenvec EXCEPT ![1] = tokenvec[MAX_TOKENS]]
           /\ pos > MAX_TOKENS /\ pos' = 2
    <2>1. /\ 0 \in Slots /\ 1 \in Slots /\ 5 \in Slots /\ 0 < 5 /\ 5 < pos /\ 0 < pos
          /\ \A i \in Slots : i < 2 => i \in {0, 1}
        BY <1>2, <1>4 DEF Slots, MAX_TOKENS
    <2>2. tokenvec'[0] = tokenvec[0] /\ tokenvec'[1] = tokenvec[5]
        BY <1>2, <1>4, <2>1 DEF MAX_TOKENS
    <2>3. tokenvec[0].text.pos <= tokenvec[5].text.pos
        BY <1>2, <2>1 DEF InOrder
    <2>4. \A limit : Behind(tokenvec, pos, limit) => Behind(tokenvec', 2, limit)
        BY <2>1, <2>2 DEF Behind
    <2>5. InOrder(tokenvec', 2)
        <3>1. \A i, j \in Slots : i < j /\ j < 2 => i = 0 /\ j = 1
            BY DEF Slots
        <3> QED BY <2>2, <2>3, <3>1 DEF InOrder
    <2> QED BY <1>1, <1>2, <1>4, <2>4, <2>5 DEF StackOrder, InOrder, Behind
<1> QED BY <1>1, <1>3, <1>4

(* What a call of the tokenizer returns stands after everything read so    *)
(* far, whether it becomes a token on the stack or the comment remembered. *)
LEMMA ReadOrder ==
    ASSUME Inv, StackOrder, NEW t \in Token, Skip(t) \/ Fetch(t),
           scan \in Nat, scan' \in Nat, scan <= t.text.pos, t.text.pos <= scan'
    PROVE  StackOrder'
<1>1. /\ tokenvec \in [Slots -> Token \cup {NoToken}] /\ pos \in Nat /\ pos <= 6
      /\ last_comment.text.pos \in Nat /\ t.text.pos \in Nat
    BY TextsArePlaced DEF Inv, TypeOK, WindowInBounds, MAX_TOKENS, Token, Text
<1>2. /\ pc # "done" /\ pc' # "done" /\ (Fetch(t) => pc' # "skip")
      /\ pc = "skip" => last_comment.type # "c"
    BY DEF Skip, Fetch, Wanting, StackOrder
<1>3. /\ InOrder(tokenvec, pos) /\ Behind(tokenvec, pos, scan)
      /\ last_comment.type = "c" => /\ Behind(tokenvec, pos, last_comment.text.pos)
                                    /\ last_comment.text.pos <= scan
    BY <1>2 DEF StackOrder
<1>4. /\ \A i \in Slots : tokenvec[i].text.pos \in Nat
      /\ \A i \in Slots : i < pos => tokenvec[i].text.pos <= t.text.pos
    <2>1. \A i \in Slots : tokenvec[i].text.pos \in Nat
        BY TextsArePlaced
    <2> QED BY <1>1, <1>3, <2>1 DEF Behind
<1>5. CASE Skip(t)
    <2>1. /\ tokenvec' = [tokenvec EXCEPT ![0] = t] /\ pos' \in {0, 1}
          /\ last_comment' = last_comment
        BY <1>5 DEF Skip, Tokenize, Inv, Returning
    <2>2. pos = 0
        BY <1>5 DEF Skip, Inv, Returning
    <2>3. \A i \in Slots : i < pos' => i = 0
        BY <2>1 DEF Slots
    <2>4. InOrder(tokenvec', pos')
        BY <2>1 DEF InOrder, Slots
    <2>5. tokenvec'[0] = t
        BY <1>1, <2>1 DEF Slots
    <2>6. Behind(tokenvec', pos', scan')
        BY <2>3, <2>5 DEF Behind
    <2>7. last_comment'.type # "c"
        BY <1>2, <1>5, <2>1 DEF Skip
    <2> QED BY <1>2, <2>1, <2>4, <2>6, <2>7 DEF StackOrder, InOrder, Behind
<1>6. CASE Fetch(t)
    <2>1. /\ tokenvec' = [tokenvec EXCEPT ![pos] = t] /\ pos \in Slots
          /\ \/ last_comment' = t /\ pos' = pos
             \/ last_comment' = NoToken /\ pos' = pos + 1
        BY <1>1, <1>6 DEF Fetch, Wanting, Tokenize, Slots, MAX_TOKENS
    <2>2. \A i \in Slots : tokenvec'[i] = IF i = pos THEN t ELSE tokenvec[i]
        BY <1>1, <2>1
    <2>3. \A i \in Slots : i < pos' => tokenvec'[i].text.pos <= t.text.pos
        <3>1. \A i \in Slots : i < pos' => i < pos \/ i = pos
            BY <1>1, <2>1 DEF Slots
        <3> QED BY <1>1, <1>4, <2>2, <3>1
    <2>4. InOrder(tokenvec', pos')
        <3> SUFFICES ASSUME NEW i \in Slots, NEW j \in Slots, i < j, j < pos'
                     PROVE  tokenvec'[i].text.pos <= tokenvec'[j].text.pos
            BY DEF InOrder
        <3>1. i < pos /\ (j < pos \/ j = pos)
            BY <1>1, <2>1 DEF Slots
        <3>2. i # pos
            BY <1>1, <3>1 DEF Slots
        <3>3. tokenvec'[i] = tokenvec[i]
            BY <2>2, <3>2
        <3>4. CASE j = pos
            <4>1. tokenvec'[j] = t
                BY <2>2, <3>4
            <4> QED BY <1>4, <3>1, <3>3, <4>1
        <3>5. CASE j < pos
            <4>1. j # pos
                BY <1>1, <3>5 DEF Slots
            <4>2. tokenvec'[j] = tokenvec[j]
                BY <2>2, <4>1
            <4> QED BY <1>3, <3>3, <3>5, <4>2 DEF InOrder
        <3> QED BY <3>1, <3>4, <3>5
    <2>5. Behind(tokenvec', pos', scan') /\ Behind(tokenvec', pos', t.text.pos)
        <3>1. \A i \in Slots : tokenvec'[i].text.pos \in Nat
            BY <1>1, <1>4, <2>2
        <3> QED BY <1>1, <2>3, <3>1 DEF Behind
    <2>6. last_comment'.type = "c" => last_comment' = t
        BY <2>1, TokenFacts
    <2> QED BY <1>2, <1>6, <2>4, <2>5, <2>6 DEF StackOrder, InOrder, Behind
<1> QED BY <1>5, <1>6

(* At the end of the input a slot above the stack is cleared, or the       *)
(* function returns without a token.                                       *)
LEMMA EndOrder ==
    ASSUME Inv, StackOrder, SkipToEnd \/ FetchEnd,
           scan \in Nat, scan' \in Nat, scan <= scan'
    PROVE  StackOrder'
<1>1. /\ tokenvec \in [Slots -> Token \cup {NoToken}] /\ pos \in Nat
      /\ \A i \in Slots : tokenvec[i].text.pos \in Nat
      /\ last_comment.text.pos \in Nat
    BY TextsArePlaced DEF Inv, TypeOK
<1>2. CASE SkipToEnd
    <2>1. pc' = "done" /\ result' = 0
        BY <1>2 DEF SkipToEnd
    <2>2. InOrder(tokenvec', 0)
        BY DEF InOrder, Slots
    <2> QED BY <2>1, <2>2 DEF StackOrder, InOrder, MAX_TOKENS
<1>3. CASE FetchEnd
    <2>1. /\ tokenvec' = [tokenvec EXCEPT ![pos] = NoToken]
          /\ UNCHANGED <<pc, pos, last_comment>> /\ pc \notin {"skip", "done"}
        BY <1>3 DEF FetchEnd, TokenizeEnd, Wanting
    <2>2. \A i \in Slots : i < pos => tokenvec'[i] = tokenvec[i]
        BY <1>1, <2>1 DEF Slots
    <2>3. /\ InOrder(tokenvec, pos) /\ Behind(tokenvec, pos, scan)
          /\ last_comment.type = "c" => /\ Behind(tokenvec, pos, last_comment.text.pos)
                                        /\ last_comment.text.pos <= scan
        BY <2>1 DEF StackOrder
    <2>4. InOrder(tokenvec', pos)
        <3>1. \A i, j \in Slots : i < j /\ j < pos => i < pos
            BY <1>1 DEF Slots
        <3> QED BY <2>2, <2>3, <3>1 DEF InOrder
    <2>5. \A limit : Behind(tokenvec, pos, limit) => Behind(tokenvec', pos, limit)
        BY <2>2 DEF Behind
    <2>6. Behind(tokenvec', pos, scan')
        BY <1>1, <2>2, <2>3 DEF Behind
    <2> QED BY <1>1, <2>1, <2>3, <2>4, <2>5, <2>6 DEF StackOrder, InOrder, Behind
<1> QED BY <1>2, <1>3

(* The comment put back at the end stands after what is on the stack.      *)
LEMMA FinishOrder ==
    ASSUME Inv, StackOrder, Finish
    PROVE  StackOrder'
<1>1. /\ tokenvec \in [Slots -> Token \cup {NoToken}] /\ left \in Nat /\ left = pos /\ pos <= 6
      /\ pc = "finish" /\ pc' = "done" /\ result' = left'
    BY DEF Inv, TypeOK, WindowInBounds, Returning, Finish, MAX_TOKENS
<1>2. /\ InOrder(tokenvec, left)
      /\ last_comment.type = "c" => Behind(tokenvec, left, last_comment.text.pos)
    BY <1>1 DEF StackOrder
<1>3. CASE left < MAX_TOKENS /\ last_comment.type = "c"
    <2>1. tokenvec' = [tokenvec EXCEPT ![left] = last_comment] /\ left' = left + 1
        BY <1>1, <1>3 DEF Finish, MAX_TOKENS
    <2>2. left \in Slots /\ left + 1 <= 5
        BY <1>1, <1>3 DEF Slots, MAX_TOKENS
    <2>3. \A i \in Slots : tokenvec'[i] = IF i = left THEN last_comment ELSE tokenvec[i]
        BY <1>1, <2>1, <2>2
    <2>4. InOrder(tokenvec', left + 1)
        <3> SUFFICES ASSUME NEW i \in Slots, NEW j \in Slots, i < j, j < left + 1
                     PROVE  tokenvec'[i].text.pos <= tokenvec'[j].text.pos
            BY DEF InOrder
        <3>1. i < left /\ i # left /\ (j = left \/ (j < left /\ j # left))
            BY <1>1 DEF Slots
        <3>2. CASE j = left
            BY <1>2, <1>3, <2>3, <3>1, <3>2 DEF Behind
        <3>3. CASE j < left /\ j # left
            BY <1>2, <2>3, <3>1, <3>3 DEF InOrder
        <3> QED BY <3>1, <3>2, <3>3
    <2> QED BY <1>1, <2>1, <2>2, <2>4 DEF StackOrder, InOrder, MAX_TOKENS
<1>4. CASE ~ (left < MAX_TOKENS /\ last_comment.type = "c")
    <2>1. /\ tokenvec' = tokenvec
          /\ left' = IF left > MAX_TOKENS THEN MAX_TOKENS ELSE left
        BY <1>4 DEF Finish
    <2>2. left' \in Nat /\ left' <= left /\ left' <= 5
        BY <1>1, <2>1 DEF MAX_TOKENS
    <2>3. InOrder(tokenvec, left')
        <3>1. \A j \in Slots : j < left' => j < left
            BY <1>1, <2>2 DEF Slots
        <3> QED BY <1>2, <3>1 DEF InOrder
    <2> QED BY <1>1, <2>1, <2>2, <2>3 DEF StackOrder, InOrder, MAX_TOKENS
<1> QED BY <1>3, <1>4

(* A parse that begins has nothing on the stack.                           *)
LEMMA ClearedOrder ==
    ASSUME Cleared
    PROVE  StackOrder'
<1>1. pos' = 0 /\ pc' = "skip" /\ last_comment' = NoToken
    BY DEF Cleared
<1>2. \A i \in Slots : ~ (i < 0)
    BY DEF Slots
<1>3. NoToken.type # "c"
    BY TokenFacts
<1> QED BY <1>1, <1>2, <1>3 DEF StackOrder, InOrder, Behind, Slots

(* Every step of a parse keeps the order.                                  *)
LEMMA ParseOrder ==
    ASSUME DetectInv, StackOrder, TokenIsRead \/ InputIsUsedUp \/ TokensAreFolded
    PROVE  StackOrder' /\ phase' = "parse"
<1>1. /\ Inv /\ s \in Inputs /\ flags \in Contexts /\ scan \in 0 .. Len(s)
      /\ phase = "parse" /\ phase' = "parse"
    BY DEF DetectInv, DetectTypeOK, ParseInv, TokenIsRead, InputIsUsedUp, TokensAreFolded
<1>2. Len(s) \in Nat
    BY <1>1, InputsAssumption
<1>3. CASE TokenIsRead
    <2> DEFINE call == libinjection_sqli_tokenize(s, scan, flags)
    <2>1. (Skip(call.token) \/ Fetch(call.token)) /\ scan' = call.pos /\ HasToken(s, scan, flags)
        BY <1>3 DEF TokenIsRead
    <2>2. Good(s, scan, call)
        BY <1>1, <2>1, TokenizerIsGood
    <2> HIDE DEF call
    <2>3. /\ call.token \in Token /\ call.pos \in Nat /\ scan <= call.token.text.pos
          /\ call.token.text.pos + call.token.text.len <= call.pos
          /\ call.token.text.pos \in Nat /\ call.token.text.len \in Nat
        BY <2>2 DEF Good, Token, Text
    <2>4. call.token.text.pos <= call.pos
        BY <2>3
    <2> QED BY <1>1, <1>2, <2>1, <2>3, <2>4, ReadOrder
<1>4. CASE InputIsUsedUp
    BY <1>1, <1>2, <1>4, EndOrder DEF InputIsUsedUp
<1>5. CASE TokensAreFolded
    <2>1. UNCHANGED scan /\ (Top \/ TooFew \/ Rule \/ Finish)
        BY <1>5 DEF TokensAreFolded, sfVars
    <2>2. CASE TooFew
        BY <1>1, <2>1, <2>2 DEF TooFew, Settled, StackOrder, InOrder, Behind
    <2> QED BY <1>1, <2>1, <2>2, TopOrder, RuleOrder, FinishOrder
<1> QED BY <1>1, <1>3, <1>4, <1>5

(* The fingerprint is made of tokens in order, and of five at most unless  *)
(* one of them could not be parsed.                                        *)
LEMMA FingerprintOrder ==
    ASSUME DetectInv, StackOrder, FingerprintIsMade
    PROVE  OrderInv'
<1> DEFINE tick  == result > 2 /\ EmptyTick(tokenvec[result - 1])
           vec   == IF tick THEN Retyped(result - 1, "c") ELSE tokenvec
           types == [i \in 1 .. result |-> vec[i - 1].type]
           evil  == \E i \in 1 .. result : types[i] = "X"
<1>1. /\ Inv /\ pc = "done" /\ phase' = "lookup"
      /\ fingerprint' = IF evil THEN <<"X">> ELSE types
      /\ ~ evil => tokenvec' = vec
    BY DEF DetectInv, ParseInv, FingerprintIsMade
<1>2. /\ tokenvec \in [Slots -> Token \cup {NoToken}] /\ result \in -1 .. 6
      /\ InOrder(tokenvec, result)
      /\ result > MAX_TOKENS => tokenvec[result - 1].type = "X"
    BY <1>1 DEF Inv, TypeOK, StackOrder, MAX_TOKENS
<1>3. result \in 0 .. 6
    BY <1>1, <1>2 DEF StackOrder
<1>4. \A i \in Slots : vec[i].text = tokenvec[i].text
    <2>1. CASE tick
        <3>1. vec = [tokenvec EXCEPT ![result - 1].type = "c"]
            BY <2>1 DEF Retyped
        <3>2. \A t \in Token \cup {NoToken} : [t EXCEPT !.type = "c"].text = t.text
            BY DEF Token, NoToken
        <3> HIDE DEF vec
        <3> QED BY <1>2, <3>1, <3>2
    <2>2. CASE ~ tick
        BY <2>2
    <2> QED BY <2>1, <2>2
<1>5. InOrder(vec, result)
    <2> HIDE DEF vec
    <2> QED BY <1>2, <1>4 DEF InOrder
<1>6. ASSUME result > MAX_TOKENS PROVE evil
    <2>1. result = 6 /\ tokenvec[5].type = "X"
        BY <1>2, <1>3, <1>6 DEF MAX_TOKENS
    <2>2. ~ tick
        BY <2>1 DEF EmptyTick
    <2>3. vec[6 - 1].type = "X"
        BY <2>1, <2>2
    <2> HIDE DEF vec
    <2>4. 6 \in 1 .. result /\ types[6] = "X"
        BY <2>1, <2>3
    <2> QED BY <2>4
<1> HIDE DEF vec
<1>7. Len(types) = result /\ DOMAIN types = 1 .. result
    BY <1>3
<1>8. \A i \in DOMAIN types : types[i] = vec[i - 1].type
    BY <1>7
<1> HIDE DEF types, evil
<1>9. ASSUME fingerprint' # <<"X">>
      PROVE  /\ Len(fingerprint') <= MAX_TOKENS
             /\ \A i \in DOMAIN fingerprint' : fingerprint'[i] = tokenvec'[i - 1].type
             /\ InOrder(tokenvec', Len(fingerprint'))
    <2>1. fingerprint' = types /\ tokenvec' = vec /\ ~ evil
        BY <1>1, <1>9
    <2>2. result <= MAX_TOKENS
        BY <1>3, <1>6, <2>1 DEF MAX_TOKENS
    <2> QED BY <1>5, <1>7, <1>8, <2>1, <2>2
<1>10. phase' # "parse"
    BY <1>1
<1> QED BY <1>9, <1>10 DEF OrderInv, FingerprintIsInOrder, InOrder

(* Every step of the detection keeps the order.                            *)
LEMMA OrderStep ==
    DetectInv /\ OrderInv /\ [DetectNext]_detectVars => OrderInv'
<1> SUFFICES ASSUME DetectInv, OrderInv, [DetectNext]_detectVars PROVE OrderInv'
    OBVIOUS
<1>1. CASE TokenIsRead \/ InputIsUsedUp \/ TokensAreFolded
    <2>1. phase = "parse"
        BY <1>1 DEF TokenIsRead, InputIsUsedUp, TokensAreFolded
    <2>2. StackOrder' /\ phase' = "parse"
        BY <1>1, <2>1, ParseOrder DEF OrderInv
    <2> QED BY <2>2 DEF OrderInv, FingerprintIsInOrder
<1>2. CASE FingerprintIsMade
    <2>1. phase = "parse"
        BY <1>2 DEF FingerprintIsMade
    <2> QED BY <1>2, <2>1, FingerprintOrder DEF OrderInv
<1>3. CASE ReparseAsMySQL \/ ParseInSingleQuotes \/ ParseInDoubleQuotes
    <2>1. Cleared /\ phase' = "parse"
        BY <1>3 DEF ReparseAsMySQL, ParseInSingleQuotes, ParseInDoubleQuotes, Reset
    <2> QED BY <2>1, ClearedOrder DEF OrderInv, FingerprintIsInOrder
<1>4. CASE Positive \/ Benign
    <2>1. phase' \in {"sqli", "benign"}
        BY <1>4 DEF Positive, Benign
    <2> QED BY <2>1 DEF OrderInv, FingerprintIsInOrder
<1>5. CASE UNCHANGED detectVars
    BY <1>5 DEF detectVars, vars, sfVars, OrderInv, StackOrder, FingerprintIsInOrder,
                InOrder, Behind
<1> QED BY <1>1, <1>2, <1>3, <1>4, <1>5 DEF DetectNext

-----------------------------------------------------------------------------
(* The invariant holds of every state the detection reaches.               *)
THEOREM DetectInvariance == DetectSpec => []DetectInv
BY DetectInitInv, DetectStepInv, PTL DEF DetectSpec

(* The variables keep their types: whatever the inputs and the tables, the *)
(* scan stays in the input and the fingerprint is made of token types.     *)
THEOREM DetectTyping == DetectSpec => []DetectTypeOK
BY DetectInvariance, PTL DEF DetectInv

(* Each call of the tokenizer moves the scan on and not beyond the end of  *)
(* the input, and its token stands between the two positions and fits.     *)
THEOREM ScanProgress == DetectSpec => []ScanAdvances
<1>1. DetectInv => ScanAdvances
    <2> SUFFICES ASSUME DetectInv, Asked PROVE ScanAdvances
        BY DEF ScanAdvances
    <2>1. Good(s, scan, Returned)
        BY TokenizerIsGood DEF DetectInv, DetectTypeOK, Asked, Returned
    <2> QED BY <2>1 DEF ScanAdvances, Advances, Good
<1> QED BY <1>1, DetectInvariance, PTL

(* Each comment the tokenizer returns ends at the first place it can, and  *)
(* is told from a nested and from an executable one.                       *)
THEOREM CommentsWhole == DetectSpec => []CommentIsWhole
<1>1. DetectInv => CommentIsWhole
    BY ReturnedIsWhole DEF DetectInv, DetectTypeOK, CommentIsWhole
<1> QED BY <1>1, DetectInvariance, PTL

(* Each quoted text ends at the quote the units of the text give, and is   *)
(* marked closed just when there is one.                                   *)
THEOREM StringsEndAtTheirQuotes == DetectSpec => []StringEndsAtItsQuote
<1>1. DetectInv => StringEndsAtItsQuote
    BY ReturnedEnds DEF DetectInv, DetectTypeOK, StringEndsAtItsQuote
<1> QED BY <1>1, DetectInvariance, PTL

(* The first token of a quoted context is the string that the input with   *)
(* the quote before it begins with.                                        *)
THEOREM QuotedContextsPrefix == DetectSpec => []QuotedContextIsPrefixedInput
<1>1. DetectInv => QuotedContextIsPrefixedInput
    <2> SUFFICES ASSUME DetectInv, Asked, AtQuotedStart(scan, flags)
                 PROVE  SameToken(Returned,
                            libinjection_sqli_tokenize(<<flag2delim(flags)>> \o s, 0,
                                                       Context("none", flags.dialect)))
        BY DEF QuotedContextIsPrefixedInput
    <2>1. s \in Seq(STRING) /\ flags \in Contexts /\ scan = 0
        BY InputsAssumption DEF DetectInv, DetectTypeOK, AtQuotedStart
    <2>2. AtQuotedStart(0, flags) /\ Returned = libinjection_sqli_tokenize(s, 0, flags)
        BY <2>1 DEF Returned
    <2>3. <<flag2delim(flags)>> \o s = Prefixed(flag2delim(flags), s)
        BY Zenon DEF Prefixed
    <2> QED BY <2>1, <2>2, <2>3, QuotedStartIsPrefixed
<1> QED BY <1>1, DetectInvariance, PTL

(* Whatever the input, the tokens behind its fingerprint are those of the  *)
(* parse just made, five at most, and stand in the input in the order of   *)
(* the fingerprint.                                                        *)
THEOREM FingerprintOrdered == DetectSpec => []FingerprintIsInOrder
<1>1. DetectInit => OrderInv
    <2> SUFFICES ASSUME DetectInit PROVE OrderInv
        OBVIOUS
    <2>1. pos = 0 /\ pc = "skip" /\ last_comment = NoToken
        BY DEF DetectInit, Init
    <2>2. \A i \in Slots : ~ (i < 0)
        BY DEF Slots
    <2>3. phase # "lookup" /\ NoToken.type # "c"
        BY TokenFacts DEF DetectInit
    <2> QED BY <2>1, <2>2, <2>3
            DEF OrderInv, StackOrder, InOrder, Behind, FingerprintIsInOrder, Slots
<1>2. OrderInv => FingerprintIsInOrder
    BY DEF OrderInv
<1> QED BY <1>1, <1>2, OrderStep, DetectInvariance, PTL DEF DetectSpec

(* Whatever the tokenizer makes of the input, the folding stays within its *)
(* array, counts no hole and leaves a comment only at the end: what holds  *)
(* of the folding over any stream of tokens holds of it here.              *)
THEOREM FoldingIsSafe ==
    DetectSpec => [](phase = "parse" => /\ WindowInBounds
                                        /\ NoHoleInFingerprint
                                        /\ CommentEndsFingerprint)
<1>1. DetectInv => (phase = "parse" => /\ WindowInBounds
                                       /\ NoHoleInFingerprint
                                       /\ CommentEndsFingerprint)
    BY DEF DetectInv, ParseInv, Inv
<1> QED BY <1>1, DetectInvariance, PTL

(* The array is not overrun in any parse, nor does anything the detection  *)
(* does between two of them move its bounds.                               *)
THEOREM DetectBounds == DetectSpec => []WindowInBounds
<1>1. DetectInit => WindowInBounds
    BY InitInv DEF DetectInit, Inv
<1>2. ASSUME WindowInBounds, DetectInv', [DetectNext]_detectVars
      PROVE  WindowInBounds'
    <2>1. CASE phase' = "parse"
        BY <1>2, <2>1 DEF DetectInv, ParseInv, Inv
    <2>2. CASE phase' # "parse"
        <3>1. UNCHANGED <<pc, pos, left, result>>
            BY <1>2, <2>2 DEF DetectNext, detectVars, vars, TokenIsRead, InputIsUsedUp,
                TokensAreFolded, FingerprintIsMade, Positive, Benign, ReparseAsMySQL,
                ParseInSingleQuotes, ParseInDoubleQuotes, Reset
        <3> QED BY <1>2, <3>1 DEF WindowInBounds
    <2> QED BY <2>1, <2>2
<1> QED BY <1>1, <1>2, DetectInvariance, PTL DEF DetectSpec

-----------------------------------------------------------------------------
(* The scan of an input in one context, of which the state of a parse is   *)
(* one stage: the positions after each token, as After has them.           *)
NextScan(cs, context, p) == libinjection_sqli_tokenize(cs, p, context).pos
ScanOf(cs, context, n) ==
    CHOOSE f : f = [k \in 0 .. n |-> IF k = 0 THEN 0 ELSE NextScan(cs, context, f[k - 1])]
CountsAt(cs, context, p) == CountsDashes(cs, p, context) \/ CountsHash(cs, p, context)
CountsIn(cs, context, n) ==
    \E k \in 0 .. n - 1 : CountsAt(cs, context, ScanOf(cs, context, n)[k])

(* DashesOrHash counts along the positions of the scan.                    *)
LEMMA CountsInIs ==
    \A context, n : DashesOrHash(context, n) <=> CountsIn(s, context, n)
BY Zenon DEF DashesOrHash, After, CountsIn, CountsAt, ScanOf, NextScan

(* However long, the scan exists: each stage follows from the one before.  *)
LEMMA ScanDef ==
    ASSUME NEW cs, NEW context, NEW n \in Nat
    PROVE  /\ ScanOf(cs, context, n)[0] = 0
           /\ \A k \in 1 .. n : ScanOf(cs, context, n)[k]
                                    = NextScan(cs, context, ScanOf(cs, context, n)[k - 1])
<1> DEFINE T(p) == NextScan(cs, context, p)
           Body(m, f) == [k \in 0 .. m |-> IF k = 0 THEN 0 ELSE T(f[k - 1])]
           S == {m \in Nat : \E f : f = Body(m, f)}
<1> HIDE DEF T
<1>1. ASSUME NEW m \in Nat, \A j \in Nat : j < m => j \in S PROVE m \in S
    <2>1. CASE m = 0
        <3> DEFINE f == [k \in 0 .. 0 |-> 0]
        <3>1. f = Body(0, f)
            OBVIOUS
        <3> HIDE DEF f, Body
        <3> QED BY <2>1, <3>1
    <2>2. CASE m # 0
        <3>1. m - 1 \in Nat /\ m - 1 < m
            BY <2>2
        <3>2. PICK f : f = Body(m - 1, f)
            BY <1>1, <3>1
        <3> DEFINE g == [k \in 0 .. m |-> IF k < m THEN f[k] ELSE T(f[m - 1])]
        <3>3. \A k \in 0 .. m - 1 : f[k] = IF k = 0 THEN 0 ELSE T(f[k - 1])
            BY <3>2
        <3>4. \A k \in 0 .. m : g[k] = IF k = 0 THEN 0 ELSE T(g[k - 1])
            <4> SUFFICES ASSUME NEW k \in 0 .. m PROVE g[k] = IF k = 0 THEN 0 ELSE T(g[k - 1])
                OBVIOUS
            <4>1. CASE k = 0
                BY <2>2, <3>1, <3>3, <4>1
            <4>2. CASE k # 0 /\ k < m
                <5>1. k \in 0 .. m - 1 /\ k - 1 \in 0 .. m /\ k - 1 < m
                    BY <4>2
                <5>2. g[k] = f[k] /\ g[k - 1] = f[k - 1]
                    BY <4>2, <5>1
                <5> QED BY <3>3, <4>2, <5>1, <5>2
            <4>3. CASE k # 0 /\ ~ (k < m)
                <5>1. k = m /\ k - 1 \in 0 .. m /\ k - 1 < m
                    BY <4>3
                <5>2. g[k] = T(f[m - 1]) /\ g[k - 1] = f[m - 1]
                    BY <5>1
                <5> QED BY <4>3, <5>2
            <4> QED BY <4>1, <4>2, <4>3
        <3>5. g = [k \in 0 .. m |-> g[k]]
            OBVIOUS
        <3> HIDE DEF g
        <3>6. g = Body(m, g)
            BY <3>4, <3>5
        <3> QED BY <3>6
    <2> QED BY <2>1, <2>2
<1> HIDE DEF S
<1>2. \A m \in Nat : m \in S
    BY <1>1, Induction
<1>3. n \in S
    BY <1>2
<1> DEFINE d == CHOOSE f : f = Body(n, f)
<1>4. d = Body(n, d)
    <2>1. \E f : f = Body(n, f)
        BY <1>3 DEF S
    <2> HIDE DEF Body
    <2> QED BY <2>1
<1>5. ScanOf(cs, context, n) = d
    BY DEF ScanOf, T
<1> HIDE DEF d
<1>6. 0 \in 0 .. n /\ \A k \in 1 .. n : k \in 0 .. n /\ k # 0
    OBVIOUS
<1>7. d[0] = 0 /\ \A k \in 1 .. n : d[k] = T(d[k - 1])
    BY <1>4, <1>6
<1> QED BY <1>5, <1>7 DEF T

(* A longer scan begins with the shorter one.                              *)
LEMMA ScanGrows ==
    ASSUME NEW cs, NEW context, NEW n \in Nat
    PROVE  /\ \A k \in 0 .. n : ScanOf(cs, context, n + 1)[k] = ScanOf(cs, context, n)[k]
           /\ ScanOf(cs, context, n + 1)[n + 1]
                = NextScan(cs, context, ScanOf(cs, context, n)[n])
<1> DEFINE f == ScanOf(cs, context, n)
           g == ScanOf(cs, context, n + 1)
           S == {k \in Nat : k <= n => g[k] = f[k]}
<1>1. /\ f[0] = 0 /\ \A k \in 1 .. n : f[k] = NextScan(cs, context, f[k - 1])
      /\ g[0] = 0 /\ \A k \in 1 .. n + 1 : g[k] = NextScan(cs, context, g[k - 1])
    BY ScanDef
<1> HIDE DEF f, g
<1>2. ASSUME NEW m \in Nat, \A j \in Nat : j < m => j \in S PROVE m \in S
    <2>1. CASE m = 0
        BY <1>1, <2>1
    <2>2. CASE m # 0 /\ m <= n
        <3>1. m - 1 \in Nat /\ m - 1 < m /\ m - 1 <= n /\ m \in 1 .. n /\ m \in 1 .. n + 1
            BY <2>2
        <3>2. g[m - 1] = f[m - 1]
            BY <1>2, <3>1
        <3> QED BY <1>1, <3>1, <3>2
    <2> QED BY <2>1, <2>2
<1> HIDE DEF S
<1>3. \A m \in Nat : m \in S
    BY <1>2, Induction
<1>4. \A k \in 0 .. n : g[k] = f[k]
    BY <1>3 DEF S
<1>5. n + 1 \in 1 .. n + 1 /\ (n + 1) - 1 = n /\ n \in 0 .. n
    OBVIOUS
<1>6. g[n + 1] = NextScan(cs, context, f[n])
    BY <1>1, <1>4, <1>5
<1> QED BY <1>4, <1>6 DEF f, g

(* What is counted of it is what was, and what the last call adds.         *)
LEMMA CountsGrow ==
    ASSUME NEW cs, NEW context, NEW n \in Nat
    PROVE  CountsIn(cs, context, n + 1)
              <=> (CountsIn(cs, context, n) \/ CountsAt(cs, context, ScanOf(cs, context, n)[n]))
<1> DEFINE f == ScanOf(cs, context, n)
           g == ScanOf(cs, context, n + 1)
<1>1. \A k \in 0 .. n : g[k] = f[k]
    BY ScanGrows
<1>2. CountsIn(cs, context, n) <=> \E k \in 0 .. n - 1 : CountsAt(cs, context, f[k])
    BY DEF CountsIn
<1>3. CountsIn(cs, context, n + 1) <=> \E k \in 0 .. (n + 1) - 1 : CountsAt(cs, context, g[k])
    BY DEF CountsIn
<1> HIDE DEF f, g
<1>4. \A k \in 0 .. (n + 1) - 1 : k \in 0 .. n /\ (k \in 0 .. n - 1 \/ k = n)
    OBVIOUS
<1>5. n \in 0 .. (n + 1) - 1 /\ \A k \in 0 .. n - 1 : k \in 0 .. (n + 1) - 1 /\ k \in 0 .. n
    OBVIOUS
<1>6. CountsIn(cs, context, n + 1)
        <=> ((\E k \in 0 .. n - 1 : CountsAt(cs, context, f[k])) \/ CountsAt(cs, context, f[n]))
    BY <1>1, <1>3, <1>4, <1>5
<1> QED BY <1>2, <1>6 DEF f

(* A parse has read the scan so far, or all of the input; and its counters *)
(* stand for what has been counted in it.                                  *)
ScanInv ==
    phase \in {"parse", "lookup"} =>
        /\ scan = ScanOf(s, flags, read)[read] \/ scan = Len(s)
        /\ reparse_as_mysql <=> CountsIn(s, flags, read)

(* Nothing is counted before anything is read.                             *)
LEMMA NothingCounted ==
    ASSUME NEW cs, NEW context
    PROVE  ScanOf(cs, context, 0)[0] = 0 /\ ~ CountsIn(cs, context, 0)
<1>1. ~ CountsIn(cs, context, 0)
    BY DEF CountsIn
<1>2. ScanOf(cs, context, 0)[0] = 0
    BY ScanDef
<1> QED BY <1>1, <1>2

(* A call of the tokenizer is the next stage of the scan.                  *)
LEMMA ReadScans ==
    ASSUME DetectInv, ScanInv, TokenIsRead
    PROVE  ScanInv'
<1>1. /\ s \in Inputs /\ Len(s) \in Nat /\ scan \in 0 .. Len(s) /\ HasToken(s, scan, flags)
      /\ stats_comment_ddx \in Nat /\ stats_comment_hash \in Nat /\ read \in Nat
    BY InputsAssumption DEF DetectInv, ParseInv, DetectTypeOK, TokenIsRead, Inv, TypeOK
<1>2. scan # Len(s)
    <2> SUFFICES ASSUME scan = Len(s) PROVE FALSE
        OBVIOUS
    <2>1. ~ AtQuotedStart(scan, flags)
        BY <1>1 DEF AtQuotedStart, HasToken
    <2>2. NextChar(s, scan) < Len(s)
        BY <1>1, <2>1 DEF HasToken
    <2>3. scan <= NextChar(s, scan) /\ NextChar(s, scan) \in Nat
        BY <1>1, NextCharBound
    <2> QED BY <1>1, <2>2, <2>3
<1>3. /\ scan = ScanOf(s, flags, read)[read]
      /\ reparse_as_mysql <=> CountsIn(s, flags, read)
    BY <1>2 DEF ScanInv, TokenIsRead
<1>4. /\ read' = read + 1 /\ s' = s /\ flags' = flags
      /\ scan' = NextScan(s, flags, scan)
    BY DEF TokenIsRead, Skip, Fetch, Tokenize, NextScan
<1>5. reparse_as_mysql' <=> (reparse_as_mysql \/ CountsAt(s, flags, scan))
    <2>1. stats_comment_ddx' > 0 <=> (stats_comment_ddx > 0 \/ CountsDashes(s, scan, flags))
        BY <1>1 DEF TokenIsRead
    <2>2. stats_comment_hash' > 0 <=> (stats_comment_hash > 0 \/ CountsHash(s, scan, flags))
        BY <1>1 DEF TokenIsRead
    <2> QED BY <2>1, <2>2 DEF reparse_as_mysql, CountsAt
<1>6. CountsIn(s, flags, read + 1) <=> (CountsIn(s, flags, read) \/ CountsAt(s, flags, scan))
    BY <1>1, <1>3, CountsGrow
<1>7. ScanOf(s, flags, read + 1)[read + 1] = NextScan(s, flags, scan)
    BY <1>1, <1>3, ScanGrows
<1> QED BY <1>3, <1>4, <1>5, <1>6, <1>7 DEF ScanInv

(* The other steps read nothing.                                           *)
LEMMA OthersReadNothing ==
    TooFew \/ Top \/ Rule \/ Finish \/ SkipToEnd \/ FetchEnd => read' = read
<1>1. \A vec, dropped, newLeft, next : Rewrite(vec, dropped, newLeft, next) => read' = read
    BY DEF Rewrite
<1>2. CASE Rule
    BY <1>1, <1>2 DEF Rule, DropRepeated, DropAndRestart, DropUnaryInParens, MergeWords,
        IfStatement, WordIsFunction, InIsOperator, LikeIsFunction, DropSqlType, Collation,
        Backslash, StripBrace, EvilBrace, NoPairRule, DropTwo, DropMiddle, DropListItem,
        UserIsWord, NoTripleRule
<1>3. TooFew \/ Top \/ Finish \/ SkipToEnd \/ FetchEnd => read' = read
    BY DEF TooFew, Top, Finish, SkipToEnd, FetchEnd, TokenizeEnd
<1> QED BY <1>2, <1>3

(* Every step of the detection keeps the account of the scan.              *)
LEMMA ScanStep ==
    DetectInv /\ ScanInv /\ [DetectNext]_detectVars => ScanInv'
<1> SUFFICES ASSUME DetectInv, ScanInv, [DetectNext]_detectVars PROVE ScanInv'
    OBVIOUS
<1>1. CASE TokenIsRead
    BY <1>1, ReadScans
<1>2. CASE InputIsUsedUp
    <2>1. /\ phase = "parse" /\ read' = read /\ scan' = Len(s')
          /\ UNCHANGED <<s, flags, stats_comment_ddx, stats_comment_hash>>
        BY <1>2, OthersReadNothing DEF InputIsUsedUp, stats
    <2> QED BY <2>1 DEF ScanInv, reparse_as_mysql
<1>3. CASE TokensAreFolded \/ FingerprintIsMade
    <2>1. /\ phase = "parse" /\ read' = read
          /\ UNCHANGED <<s, flags, scan, stats_comment_ddx, stats_comment_hash>>
        BY <1>3, OthersReadNothing DEF TokensAreFolded, FingerprintIsMade, stats, sfVars
    <2> QED BY <2>1 DEF ScanInv, reparse_as_mysql
<1>4. CASE ReparseAsMySQL \/ ParseInSingleQuotes \/ ParseInDoubleQuotes
    <2>1. read' = 0 /\ scan' = 0 /\ stats_comment_ddx' = 0 /\ stats_comment_hash' = 0
        BY <1>4 DEF ReparseAsMySQL, ParseInSingleQuotes, ParseInDoubleQuotes, Reset, Cleared
    <2>2. ~ reparse_as_mysql'
        BY <2>1 DEF reparse_as_mysql
    <2>3. ScanOf(s', flags', 0)[0] = 0 /\ ~ CountsIn(s', flags', 0)
        BY NothingCounted
    <2> QED BY <2>1, <2>2, <2>3 DEF ScanInv
<1>5. CASE Positive \/ Benign
    <2>1. phase' \in {"sqli", "benign"}
        BY <1>5 DEF Positive, Benign
    <2> QED BY <2>1 DEF ScanInv
<1>6. CASE UNCHANGED detectVars
    BY <1>6 DEF detectVars, vars, sfVars, stats, ScanInv, reparse_as_mysql
<1> QED BY <1>1, <1>2, <1>3, <1>4, <1>5, <1>6 DEF DetectNext

(* It holds when the detection begins.                                     *)
LEMMA ScanInit == DetectInit => ScanInv
<1> SUFFICES ASSUME DetectInit PROVE ScanInv
    OBVIOUS
<1>1. read = 0 /\ scan = 0 /\ ~ reparse_as_mysql
    BY DEF DetectInit, Init, reparse_as_mysql
<1> QED BY <1>1, NothingCounted DEF ScanInv

(* What decides on another parse are the comments of the parse just made:  *)
(* the counters, which all parses share, are those of this one.            *)
THEOREM CountersOfThisParse == DetectSpec => []CountersAreOfThisParse
<1>1. ScanInv => CountersAreOfThisParse
    BY CountsInIs DEF ScanInv, CountersAreOfThisParse
<1> QED BY <1>1, ScanInit, ScanStep, DetectInvariance, PTL DEF DetectSpec

-----------------------------------------------------------------------------
(* The contexts and their ranks.                                           *)
MySQL(c) == [c EXCEPT !.dialect = "mysql"]

(* The contexts are tried in the order of their ranks.                     *)
LEMMA RankIs ==
    /\ \A c \in Contexts : /\ Rank(c) \in Nat /\ MySQL(c) \in Contexts
                           /\ MySQL(c).dialect = "mysql" /\ MySQL(c).quote = c.quote
                           /\ c.dialect = "ansi" => Rank(MySQL(c)) = Rank(c) + 1
                           /\ c.dialect = "mysql" => MySQL(c) = c
                           /\ c.dialect \in {"ansi", "mysql"}
                           /\ c.quote \in {"none", "single", "double"}
                           /\ c = Context(c.quote, c.dialect)
    /\ \A c, d \in Contexts : Rank(c) = Rank(d) => c = d
    /\ \A c, d \in Contexts :
          (c.dialect = "ansi" /\ d.dialect = "ansi" /\ MySQL(c) = MySQL(d)) => c = d
<1>1. ASSUME NEW c \in Contexts
      PROVE  /\ c = Context(c.quote, c.dialect) /\ c.dialect \in {"ansi", "mysql"}
             /\ c.quote \in {"none", "single", "double"}
             /\ MySQL(c) = Context(c.quote, "mysql")
    BY DEF Contexts, Context, MySQL
<1>2. ASSUME NEW q \in {"none", "single", "double"}, NEW d \in {"ansi", "mysql"}
      PROVE  /\ Context(q, d) \in Contexts /\ Context(q, d).quote = q /\ Context(q, d).dialect = d
             /\ q = "none" => Rank(Context(q, d)) = IF d = "mysql" THEN 1 ELSE 0
             /\ q = "single" => Rank(Context(q, d)) = IF d = "mysql" THEN 3 ELSE 2
             /\ q = "double" => Rank(Context(q, d)) = IF d = "mysql" THEN 5 ELSE 4
    <2>1. /\ Context(q, d) \in Contexts /\ Context(q, d).quote = q /\ Context(q, d).dialect = d
        BY DEF Contexts, Context
    <2>2. ASSUME q = "none" PROVE Rank(Context(q, d)) = IF d = "mysql" THEN 1 ELSE 0
        BY <2>1, <2>2 DEF Rank
    <2>3. ASSUME q = "single" PROVE Rank(Context(q, d)) = IF d = "mysql" THEN 3 ELSE 2
        BY <2>1, <2>3 DEF Rank
    <2>4. ASSUME q = "double" PROVE Rank(Context(q, d)) = IF d = "mysql" THEN 5 ELSE 4
        BY <2>1, <2>4 DEF Rank
    <2> QED BY <2>1, <2>2, <2>3, <2>4
<1>3. ASSUME NEW c \in Contexts
      PROVE  /\ Rank(c) \in Nat /\ MySQL(c) \in Contexts
             /\ MySQL(c).dialect = "mysql" /\ MySQL(c).quote = c.quote
             /\ c.dialect = "ansi" => Rank(MySQL(c)) = Rank(c) + 1
             /\ c.dialect = "mysql" => MySQL(c) = c
             /\ Rank(c) = CASE c.quote = "none" -> IF c.dialect = "mysql" THEN 1 ELSE 0
                            [] c.quote = "single" -> IF c.dialect = "mysql" THEN 3 ELSE 2
                            [] c.quote = "double" -> IF c.dialect = "mysql" THEN 5 ELSE 4
    BY <1>1, <1>2
<1>4. ASSUME NEW c \in Contexts, NEW d \in Contexts, Rank(c) = Rank(d) PROVE c = d
    BY <1>1, <1>3, <1>4
<1>5. ASSUME NEW c \in Contexts, NEW d \in Contexts,
             c.dialect = "ansi", d.dialect = "ansi", MySQL(c) = MySQL(d)
      PROVE  c = d
    BY <1>1, <1>3, <1>5
<1> QED BY <1>1, <1>3, <1>4, <1>5

(* The contexts tried so far come before this one, and none that they call *)
(* for has been left out: a parse that counted comments is followed by the *)
(* one as MySQL, and nothing else is.                                      *)
Tried == {p.context : p \in parses}
AnsiAsItIs == Context("none", "ansi")
InSingle == Context("single", "ansi")
InDouble == Context("double", "mysql")

InTurn == \A p \in parses : /\ Rank(p.context) <= Rank(flags)
                            /\ phase = "parse" => Rank(p.context) < Rank(flags)
ThisOneToo ==
    phase = "lookup" =>
        /\ [context |-> flags, read |-> read] \in parses
        /\ \A p \in parses : p.context = flags => p.read = read
CalledFor ==
    /\ flags # AnsiAsItIs => AnsiAsItIs \in Tried
    /\ flags.quote = "single" => Has("'")
    /\ flags.quote = "double" => Has("dquote") /\ flags.dialect = "mysql"
    /\ flags.quote = "single" /\ flags.dialect = "mysql" => InSingle \in Tried
    /\ flags.quote = "double" /\ Has("'") => InSingle \in Tried
    /\ InSingle \in Tried => Has("'")
    /\ InDouble \in Tried => Has("dquote")
AsMySQLToo ==
    \A p \in parses :
        p.context.dialect = "ansi" /\ Rank(p.context) < Rank(flags) =>
            ((MySQL(p.context) \in Tried \/ flags = MySQL(p.context))
                <=> CountsIn(s, p.context, p.read))

AllAsMySQLToo ==
    \A p \in parses :
        p.context.dialect = "ansi" =>
            (MySQL(p.context) \in Tried <=> CountsIn(s, p.context, p.read))
AllTried ==
    /\ AnsiAsItIs \in Tried
    /\ Has("'") <=> InSingle \in Tried
    /\ Has("dquote") <=> InDouble \in Tried
    /\ AllAsMySQLToo

TriedInv ==
    /\ phase \in {"parse", "lookup"} => InTurn /\ ThisOneToo /\ CalledFor /\ AsMySQLToo
    /\ phase = "benign" /\ s # << >> => AllTried

(* What the contexts of the parses are.                                    *)
LEMMA TriedAre ==
    ASSUME DetectInv
    PROVE  /\ (flags \in Contexts /\ read \in Nat) \/ phase # "parse"
           /\ flags \in Contexts
           /\ \A p \in parses : p.context \in Contexts /\ p.context \in Tried
           /\ Tried \subseteq Contexts
           /\ \A c \in Tried : \E p \in parses : p.context = c
<1>1. parses \subseteq [context : Contexts, read : Nat] /\ flags \in Contexts
    BY DEF DetectInv, DetectTypeOK
<1>2. phase = "parse" => read \in Nat
    BY DEF DetectInv, ParseInv, Inv, TypeOK
<1> QED BY <1>1, <1>2 DEF Tried

(* With the contexts in hand at a parse that is not repeated as MySQL, all *)
(* those before it are settled, and it is.                                 *)
LEMMA PriorContexts ==
    ASSUME DetectInv, ScanInv, TriedInv, phase = "lookup", ~ AgainAsMySQL
    PROVE  AllAsMySQLToo
<1>1. /\ flags \in Contexts /\ InTurn /\ AsMySQLToo
      /\ [context |-> flags, read |-> read] \in parses
      /\ \A p \in parses : p.context = flags => p.read = read
      /\ reparse_as_mysql <=> CountsIn(s, flags, read)
    BY TriedAre DEF TriedInv, ThisOneToo, ScanInv
<1>2. flags \in Tried
    BY <1>1 DEF Tried
<1> SUFFICES ASSUME NEW p \in parses, p.context.dialect = "ansi"
             PROVE  MySQL(p.context) \in Tried <=> CountsIn(s, p.context, p.read)
    BY DEF AllAsMySQLToo
<1>3. p.context \in Contexts /\ Rank(p.context) <= Rank(flags)
    BY <1>1, TriedAre DEF InTurn
<1>4. Rank(p.context) \in Nat /\ Rank(flags) \in Nat
    BY <1>1, <1>3, RankIs
<1>5. CASE Rank(p.context) < Rank(flags)
    <2>1. (MySQL(p.context) \in Tried \/ flags = MySQL(p.context))
             <=> CountsIn(s, p.context, p.read)
        BY <1>1, <1>5 DEF AsMySQLToo
    <2> QED BY <1>2, <2>1
<1>6. CASE Rank(p.context) = Rank(flags)
    <2>1. p.context = flags /\ p.read = read
        BY <1>1, <1>3, <1>6, RankIs
    <2>2. ~ CountsIn(s, flags, read)
        BY <1>1, <2>1 DEF AgainAsMySQL
    <2>3. Rank(MySQL(flags)) = Rank(flags) + 1 /\ MySQL(flags) \in Contexts
        BY <1>1, <2>1, RankIs
    <2>4. MySQL(flags) \notin Tried
        <3> SUFFICES ASSUME MySQL(flags) \in Tried PROVE FALSE
            OBVIOUS
        <3>1. PICK q \in parses : q.context = MySQL(flags)
            BY TriedAre
        <3>2. Rank(q.context) <= Rank(flags)
            BY <1>1 DEF InTurn
        <3> QED BY <1>4, <2>3, <3>1, <3>2
    <2> QED BY <2>1, <2>2, <2>4
<1> QED BY <1>3, <1>4, <1>5, <1>6

(* A fingerprint is a context tried.                                       *)
LEMMA FingerprintTries ==
    ASSUME DetectInv, TriedInv, FingerprintIsMade
    PROVE  TriedInv'
<1> DEFINE made == [context |-> flags, read |-> read]
<1>1. /\ phase = "parse" /\ phase' = "lookup" /\ parses' = parses \cup {made}
      /\ UNCHANGED <<s, flags, read>>
    BY DEF FingerprintIsMade
<1>2. /\ InTurn /\ CalledFor /\ AsMySQLToo /\ flags \in Contexts
      /\ Rank(flags) \in Nat /\ flags.quote \in {"none", "single", "double"}
      /\ flags.dialect \in {"ansi", "mysql"} /\ flags = Context(flags.quote, flags.dialect)
    BY <1>1, TriedAre, RankIs DEF TriedInv
<1>3. Tried' = Tried \cup {flags} /\ made.context = flags /\ made.read = read
    <2>1. made.context = flags /\ made.read = read
        OBVIOUS
    <2> HIDE DEF made
    <2>2. \A c : c \in Tried' <=> (c \in Tried \/ c = flags)
        BY <1>1, <2>1 DEF Tried
    <2> QED BY <2>1, <2>2
<1> HIDE DEF made
<1>4. \A p \in parses : /\ p.context \in Contexts /\ Rank(p.context) \in Nat
                        /\ Rank(p.context) < Rank(flags) /\ p.context # flags
    BY <1>1, <1>2, TriedAre, RankIs DEF InTurn
<1>5. InTurn'
    BY <1>1, <1>2, <1>3, <1>4 DEF InTurn
<1>6. ThisOneToo'
    BY <1>1, <1>3, <1>4 DEF ThisOneToo, made
<1>7. CalledFor'
    <2>1. flags = InSingle <=> flags.quote = "single" /\ flags.dialect = "ansi"
        BY <1>2 DEF InSingle, Context
    <2>2. flags = InDouble <=> flags.quote = "double" /\ flags.dialect = "mysql"
        BY <1>2 DEF InDouble, Context
    <2>3. Has("'")' <=> Has("'")
        BY <1>1 DEF Has
    <2>4. Has("dquote")' <=> Has("dquote")
        BY <1>1 DEF Has
    <2>5. (flags # AnsiAsItIs)' <=> flags # AnsiAsItIs
        BY <1>1
    <2>6. (AnsiAsItIs \in Tried => AnsiAsItIs \in Tried') /\ (InSingle \in Tried => InSingle \in Tried')
        BY <1>3
    <2>7. (InSingle \in Tried') => (InSingle \in Tried \/ flags = InSingle)
        BY <1>3
    <2>8. (InDouble \in Tried') => (InDouble \in Tried \/ flags = InDouble)
        BY <1>3
    <2> QED BY <1>1, <1>2, <2>1, <2>2, <2>3, <2>4, <2>5, <2>6, <2>7, <2>8 DEF CalledFor
<1>8. AsMySQLToo'
    <2> SUFFICES ASSUME NEW p \in parses', p.context.dialect = "ansi",
                        Rank(p.context) < Rank(flags)
                 PROVE  (MySQL(p.context) \in Tried' \/ flags = MySQL(p.context))
                           <=> CountsIn(s, p.context, p.read)
        BY <1>1 DEF AsMySQLToo
    <2>1. p \in parses
        BY <1>1, <1>2, <1>3
    <2>2. (MySQL(p.context) \in Tried \/ flags = MySQL(p.context))
             <=> CountsIn(s, p.context, p.read)
        BY <1>2, <2>1 DEF AsMySQLToo
    <2> QED BY <1>3, <2>2
<1> QED BY <1>1, <1>5, <1>6, <1>7, <1>8 DEF TriedInv

(* What a parse begins with, given the contexts before it.                 *)
LEMMA NextInTurn ==
    ASSUME DetectInv, TriedInv, ScanInv, phase = "lookup", NEW c \in Contexts, Reset(c)
    PROVE  /\ phase' = "parse" /\ UNCHANGED <<s, parses>> /\ flags' = c /\ Tried' = Tried
           /\ Rank(flags) < Rank(c) => InTurn'
           /\ ThisOneToo'
           /\ flags \in Tried
<1>1. phase' = "parse" /\ UNCHANGED <<s, parses>> /\ flags' = c /\ flags \in Contexts
    BY TriedAre DEF Reset
<1>2. Tried' = Tried
    BY <1>1 DEF Tried
<1>3. flags \in Tried
    BY DEF TriedInv, ThisOneToo, Tried
<1>4. ThisOneToo'
    BY <1>1 DEF ThisOneToo
<1>5. ASSUME Rank(flags) < Rank(c) PROVE InTurn'
    <2>1. \A p \in parses : Rank(p.context) \in Nat /\ Rank(p.context) <= Rank(flags)
        BY TriedAre, RankIs DEF TriedInv, InTurn
    <2>2. Rank(flags) \in Nat /\ Rank(c) \in Nat
        BY <1>1, RankIs
    <2>3. \A p \in parses : Rank(p.context) < Rank(c) /\ Rank(p.context) <= Rank(c)
        BY <1>5, <2>1, <2>2
    <2> QED BY <1>1, <2>3 DEF InTurn
<1> QED BY <1>1, <1>2, <1>3, <1>4, <1>5

(* As MySQL: the context in hand has counted comments.                     *)
LEMMA MySQLTries ==
    ASSUME DetectInv, ScanInv, TriedInv, ReparseAsMySQL
    PROVE  TriedInv'
<1>1. /\ phase = "lookup" /\ flags \in Contexts /\ flags.dialect = "ansi" /\ reparse_as_mysql
      /\ Reset(MySQL(flags)) /\ MySQL(flags) \in Contexts
      /\ InTurn /\ CalledFor /\ AsMySQLToo
    BY TriedAre, RankIs DEF ReparseAsMySQL, Declined, AgainAsMySQL, MySQL, TriedInv
<1>2. /\ Rank(MySQL(flags)) = Rank(flags) + 1 /\ Rank(flags) \in Nat
      /\ MySQL(flags).quote = flags.quote /\ MySQL(flags).dialect = "mysql"
      /\ flags.quote \in {"none", "single", "double"}
      /\ flags = Context(flags.quote, "ansi")
    BY <1>1, RankIs
<1>3. /\ phase' = "parse" /\ UNCHANGED <<s, parses>> /\ flags' = MySQL(flags) /\ Tried' = Tried
      /\ InTurn' /\ ThisOneToo' /\ flags \in Tried
    BY <1>1, <1>2, NextInTurn
<1>4. CalledFor'
    <2>1. (Has("'")' <=> Has("'")) /\ (Has("dquote")' <=> Has("dquote"))
        BY <1>3 DEF Has
    <2>2. AnsiAsItIs \in Tried
        BY <1>1, <1>3 DEF CalledFor
    <2>3. flags.quote = "single" => InSingle \in Tried
        BY <1>2, <1>3 DEF InSingle
    <2>4. flags.quote # "double"
        BY <1>1 DEF CalledFor
    <2> QED BY <1>1, <1>2, <1>3, <2>1, <2>2, <2>3, <2>4 DEF CalledFor
<1>5. AsMySQLToo'
    <2> SUFFICES ASSUME NEW p \in parses, p.context.dialect = "ansi",
                        Rank(p.context) < Rank(MySQL(flags))
                 PROVE  (MySQL(p.context) \in Tried \/ MySQL(flags) = MySQL(p.context))
                           <=> CountsIn(s, p.context, p.read)
        BY <1>3 DEF AsMySQLToo
    <2>1. p.context \in Contexts /\ Rank(p.context) \in Nat
        BY TriedAre, RankIs
    <2>2. CASE Rank(p.context) = Rank(flags)
        <3>1. p.context = flags
            BY <1>1, <2>1, <2>2, RankIs
        <3>2. p.read = read
            BY <1>1, <3>1 DEF TriedInv, ThisOneToo
        <3>3. CountsIn(s, flags, read)
            BY <1>1 DEF ScanInv
        <3> QED BY <3>1, <3>2, <3>3
    <2>3. CASE Rank(p.context) # Rank(flags)
        <3>1. Rank(p.context) < Rank(flags)
            BY <1>2, <2>1, <2>3
        <3>2. (MySQL(p.context) \in Tried \/ flags = MySQL(p.context))
                 <=> CountsIn(s, p.context, p.read)
            BY <1>1, <3>1 DEF AsMySQLToo
        <3>3. flags # MySQL(p.context)
            <4>1. MySQL(p.context).dialect = "mysql"
                BY <2>1, RankIs
            <4> QED BY <1>1, <4>1
        <3>4. MySQL(flags) # MySQL(p.context)
            BY <1>1, <2>1, <2>3, RankIs
        <3> QED BY <3>2, <3>3, <3>4
    <2> QED BY <2>2, <2>3
<1> QED BY <1>3, <1>4, <1>5 DEF TriedInv

(* In quotes: the contexts before are settled.                             *)
LEMMA QuotesTry ==
    ASSUME DetectInv, ScanInv, TriedInv, ParseInSingleQuotes \/ ParseInDoubleQuotes
    PROVE  TriedInv'
<1>1. /\ phase = "lookup" /\ flags \in Contexts /\ ~ AgainAsMySQL
      /\ InTurn /\ CalledFor /\ AsMySQLToo
    BY TriedAre DEF ParseInSingleQuotes, ParseInDoubleQuotes, Declined, TriedInv
<1>2. AllAsMySQLToo
    BY <1>1, PriorContexts
<1>3. /\ InSingle \in Contexts /\ InDouble \in Contexts
      /\ InSingle.quote = "single" /\ InSingle.dialect = "ansi"
      /\ InDouble.quote = "double" /\ InDouble.dialect = "mysql"
      /\ AnsiAsItIs.quote = "none" /\ AnsiAsItIs.dialect = "ansi"
    BY DEF InSingle, InDouble, AnsiAsItIs, Context, Contexts
<1>4. /\ flags.quote \in {"none", "single", "double"} /\ flags.dialect \in {"ansi", "mysql"}
      /\ flags = Context(flags.quote, flags.dialect)
    BY <1>1, RankIs
<1>5. Rank(InSingle) = 2 /\ Rank(InDouble) = 5 /\ Rank(flags) \in Nat
    BY <1>1, <1>3, RankIs DEF Rank
<1>6. /\ flags.quote = "none" => Rank(flags) <= 1
      /\ flags.quote = "single" => Rank(flags) <= 3
    BY <1>4 DEF Rank
<1>7. CASE ParseInSingleQuotes
    <2>1. Reset(InSingle) /\ flags.quote = "none" /\ Has("'")
        BY <1>7 DEF ParseInSingleQuotes, InSingle
    <2>2. /\ phase' = "parse" /\ UNCHANGED <<s, parses>> /\ flags' = InSingle /\ Tried' = Tried
          /\ InTurn' /\ ThisOneToo' /\ flags \in Tried
        BY <1>1, <1>3, <1>5, <1>6, <2>1, NextInTurn
    <2>3. CalledFor'
        <3>1. (Has("'")' <=> Has("'")) /\ (Has("dquote")' <=> Has("dquote"))
            BY <2>2 DEF Has
        <3>2. AnsiAsItIs \in Tried
            BY <1>1, <2>2 DEF CalledFor
        <3> QED BY <1>1, <1>3, <2>1, <2>2, <3>1, <3>2 DEF CalledFor
    <2>4. \A p \in parses : MySQL(p.context) # InSingle
        <3>1. \A p \in parses : MySQL(p.context).dialect = "mysql"
            BY TriedAre, RankIs
        <3> QED BY <1>3, <3>1
    <2>5. AsMySQLToo'
        BY <1>2, <2>2, <2>4 DEF AsMySQLToo, AllAsMySQLToo
    <2> QED BY <2>2, <2>3, <2>5 DEF TriedInv
<1>8. CASE ParseInDoubleQuotes
    <2>1. Reset(InDouble) /\ LastOfSingle /\ Has("dquote")
        BY <1>8 DEF ParseInDoubleQuotes, InDouble
    <2>2. flags.quote = "single" \/ (flags.quote = "none" /\ ~ Has("'"))
        BY <2>1 DEF LastOfSingle
    <2>3. /\ phase' = "parse" /\ UNCHANGED <<s, parses>> /\ flags' = InDouble /\ Tried' = Tried
          /\ InTurn' /\ ThisOneToo' /\ flags \in Tried
        BY <1>1, <1>3, <1>5, <1>6, <2>1, <2>2, NextInTurn
    <2>4. CalledFor'
        <3>1. (Has("'")' <=> Has("'")) /\ (Has("dquote")' <=> Has("dquote"))
            BY <2>3 DEF Has
        <3>2. AnsiAsItIs \in Tried
            BY <1>1, <2>3 DEF CalledFor
        <3>3. Has("'") => InSingle \in Tried
            <4>1. CASE flags.quote = "single" /\ flags.dialect = "ansi"
                BY <1>4, <2>3, <4>1 DEF InSingle
            <4>2. CASE flags.quote = "single" /\ flags.dialect = "mysql"
                BY <1>1, <4>2 DEF CalledFor
            <4> QED BY <1>4, <2>2, <4>1, <4>2
        <3> QED BY <1>1, <1>3, <2>1, <2>3, <3>1, <3>2, <3>3 DEF CalledFor
    <2>5. \A p \in parses : MySQL(p.context) # InDouble
        <3>1. \A p \in parses : /\ MySQL(p.context).quote = p.context.quote
                                /\ p.context \in Contexts
                                /\ Rank(p.context) <= Rank(flags)
            BY <1>1, TriedAre, RankIs DEF InTurn
        <3>2. ASSUME NEW p \in parses, p.context.quote = "double" PROVE Rank(p.context) >= 4
            BY <3>1, <3>2 DEF Rank
        <3>3. \A p \in parses : Rank(p.context) \in Nat
            BY <3>1, RankIs
        <3> QED BY <1>3, <1>5, <1>6, <2>2, <3>1, <3>2, <3>3
    <2>6. AsMySQLToo'
        BY <1>2, <2>3, <2>5 DEF AsMySQLToo, AllAsMySQLToo
    <2> QED BY <2>3, <2>4, <2>6 DEF TriedInv
<1> QED BY <1>7, <1>8

(* A benign verdict: nothing that is called for is left.                   *)
LEMMA BenignIsLast ==
    ASSUME DetectInv, ScanInv, TriedInv, Benign
    PROVE  TriedInv'
<1>1. /\ phase = "lookup" /\ flags \in Contexts /\ ~ AgainAsMySQL
      /\ phase' = "benign" /\ UNCHANGED <<s, parses>>
      /\ flags.quote = "double" \/ (LastOfSingle /\ ~ Has("dquote"))
      /\ CalledFor /\ ThisOneToo
    BY TriedAre DEF Benign, Declined, TriedInv, sfVars
<1>2. AllAsMySQLToo /\ flags \in Tried
    BY <1>1, PriorContexts DEF ThisOneToo, Tried
<1>3. /\ flags.quote \in {"none", "single", "double"} /\ flags.dialect \in {"ansi", "mysql"}
      /\ flags = Context(flags.quote, flags.dialect)
    BY <1>1, RankIs
<1>4. AnsiAsItIs \in Tried
    BY <1>1, <1>2 DEF CalledFor
<1>5. Has("'") => InSingle \in Tried
    <2>1. CASE flags.quote = "single" /\ flags.dialect = "ansi"
        BY <1>2, <1>3, <2>1 DEF InSingle
    <2>2. CASE flags.quote = "single" /\ flags.dialect = "mysql"
        BY <1>1, <2>2 DEF CalledFor
    <2>3. CASE flags.quote = "double"
        BY <1>1, <2>3 DEF CalledFor
    <2> QED BY <1>1, <1>3, <2>1, <2>2, <2>3 DEF LastOfSingle
<1>6. Has("dquote") => InDouble \in Tried
    <2>1. Has("dquote") => flags.quote = "double" /\ flags.dialect = "mysql"
        BY <1>1 DEF CalledFor
    <2> QED BY <1>2, <1>3, <2>1 DEF InDouble
<1>7. AllTried
    BY <1>1, <1>2, <1>4, <1>5, <1>6 DEF AllTried, CalledFor
<1>8. AllTried'
    BY <1>1, <1>7 DEF AllTried, AllAsMySQLToo, Tried, Has
<1> QED BY <1>1, <1>8 DEF TriedInv

(* The steps of a parse try nothing.                                       *)
LEMMA TriedStep ==
    DetectInv /\ ScanInv /\ TriedInv /\ [DetectNext]_detectVars => TriedInv'
<1> SUFFICES ASSUME DetectInv, ScanInv, TriedInv, [DetectNext]_detectVars PROVE TriedInv'
    OBVIOUS
<1>1. ASSUME UNCHANGED <<s, flags, phase, parses>>, phase = "parse" \/ read' = read
      PROVE  TriedInv'
    <2>1. InTurn' <=> InTurn
        BY <1>1 DEF InTurn
    <2>2. ThisOneToo => ThisOneToo'
        BY <1>1 DEF ThisOneToo
    <2>3. CalledFor' <=> CalledFor
        BY <1>1 DEF CalledFor, Tried, Has
    <2>4. AsMySQLToo' <=> AsMySQLToo
        BY <1>1 DEF AsMySQLToo, Tried
    <2>5. AllTried' <=> AllTried
        BY <1>1 DEF AllTried, AllAsMySQLToo, Tried, Has
    <2> QED BY <1>1, <2>1, <2>2, <2>3, <2>4, <2>5 DEF TriedInv
<1>2. CASE TokenIsRead \/ InputIsUsedUp \/ TokensAreFolded
    BY <1>1, <1>2 DEF TokenIsRead, InputIsUsedUp, TokensAreFolded, sfVars
<1>3. CASE FingerprintIsMade
    BY <1>3, FingerprintTries
<1>4. CASE ReparseAsMySQL
    BY <1>4, MySQLTries
<1>5. CASE ParseInSingleQuotes \/ ParseInDoubleQuotes
    BY <1>5, QuotesTry
<1>6. CASE Positive
    BY <1>6 DEF Positive, TriedInv
<1>7. CASE Benign
    BY <1>7, BenignIsLast
<1>8. CASE UNCHANGED detectVars
    BY <1>1, <1>8 DEF detectVars, vars, sfVars
<1> QED BY <1>2, <1>3, <1>4, <1>5, <1>6, <1>7, <1>8 DEF DetectNext

(* It holds when the detection begins.                                     *)
LEMMA TriedInit == DetectInit => TriedInv
<1> SUFFICES ASSUME DetectInit PROVE TriedInv
    OBVIOUS
<1>1. /\ flags = AnsiAsItIs /\ parses = {} /\ phase \in {"parse", "benign"}
      /\ phase = "benign" => s = << >>
      /\ flags.quote = "none"
    BY DEF DetectInit, AnsiAsItIs, Context
<1>2. Tried = {}
    BY <1>1 DEF Tried
<1> QED BY <1>1, <1>2 DEF TriedInv, InTurn, ThisOneToo, CalledFor, AsMySQLToo

(* An input is let go only after every context it calls for: as it is, in  *)
(* each kind of quotes it contains, and as MySQL reads it wherever ANSI    *)
(* counted a comment, and only there.                                      *)
THEOREM NoContextLeftUntried == DetectSpec => []NothingLeftUntried
<1>1. TriedInv => NothingLeftUntried
    BY CountsInIs DEF TriedInv, AllTried, AllAsMySQLToo, NothingLeftUntried, Tried,
                      AnsiAsItIs, InSingle, InDouble, MySQL
<1> QED BY <1>1, TriedInit, TriedStep, ScanInit, ScanStep, DetectInvariance, PTL DEF DetectSpec

-----------------------------------------------------------------------------
(***************************************************************************)
(* Every input is decided: each step brings the verdict nearer.            *)
(***************************************************************************)

(* The ways in which a step does: another context, another stage of this   *)
(* one, less of the input left, or the folding nearer to its return.       *)
Closer ==
    \/ ContextsLeft' < ContextsLeft
    \/ UNCHANGED ContextsLeft /\ Undecided' < Undecided
    \/ UNCHANGED <<ContextsLeft, Undecided>> /\ Unscanned' < Unscanned
    \/ /\ UNCHANGED <<ContextsLeft, Undecided, Unscanned>>
       /\ Remaining' \in [1 .. 9 -> Nat] /\ Precedes(Remaining', Remaining)

(* What is left to do is counted by natural numbers.                       *)
LEMMA LeftIsNumber == DetectInv => {ContextsLeft, Undecided, Unscanned} \subseteq Nat
<1> SUFFICES ASSUME DetectInv PROVE {ContextsLeft, Undecided, Unscanned} \subseteq Nat
    OBVIOUS
<1>1. ContextsLeft \in Nat
    <2>1. Rank(flags) \in 0 .. 5
        <3>1. flags \in Contexts
            BY DEF DetectInv, DetectTypeOK
        <3>2. Rank(flags) \in Nat /\ flags.quote \in {"none", "single", "double"}
            BY <3>1, RankIs
        <3> QED BY <3>2 DEF Rank
    <2> QED BY <2>1 DEF ContextsLeft
<1>2. Undecided \in Nat
    BY DEF Undecided
<1>3. Unscanned \in Nat
    BY InputsAssumption DEF DetectInv, DetectTypeOK, Unscanned
<1> QED BY <1>1, <1>2, <1>3

(* A token of the input moves the scan on.                                 *)
LEMMA TokenIsCloser ==
    ASSUME DetectInv, TokenIsRead
    PROVE  Closer
<1> DEFINE call == libinjection_sqli_tokenize(s, scan, flags)
<1>1. /\ s \in Inputs /\ flags \in Contexts /\ scan \in 0 .. Len(s) /\ HasToken(s, scan, flags)
    BY DEF DetectInv, DetectTypeOK, TokenIsRead
<1>2. Good(s, scan, call)
    BY <1>1, TokenizerIsGood
<1>3. scan' = call.pos /\ UNCHANGED <<s, flags, phase>>
    BY DEF TokenIsRead
<1> HIDE DEF call
<1>4. scan < scan' /\ scan' \in Nat /\ Len(s) \in Nat
    BY <1>1, <1>2, <1>3, InputsAssumption DEF Good
<1>5. Unscanned' < Unscanned
    BY <1>1, <1>3, <1>4 DEF Unscanned
<1>6. UNCHANGED <<ContextsLeft, Undecided>>
    BY <1>3 DEF ContextsLeft, Undecided
<1> QED BY <1>5, <1>6 DEF Closer

(* The folding gets nearer to its return.                                  *)
LEMMA FoldingIsCloser ==
    ASSUME DetectInv, DetectInv', Unread, Unread', InputIsUsedUp \/ TokensAreFolded
    PROVE  Closer
<1>1. phase = "parse" /\ UNCHANGED <<s, flags, phase>> /\ Inv /\ Inv'
    BY DEF InputIsUsedUp, TokensAreFolded, sfVars, DetectInv, ParseInv
<1>2. Next
    BY DEF InputIsUsedUp, TokensAreFolded, Next
<1>3. Remaining' \in [1 .. 9 -> Nat] /\ Precedes(Remaining', Remaining)
    BY <1>1, <1>2, StepIsNearer, NearerDecreases
<1>4. UNCHANGED <<ContextsLeft, Undecided>>
    BY <1>1 DEF ContextsLeft, Undecided
<1>5. scan \in 0 .. Len(s) /\ Len(s) \in Nat /\ (scan' = Len(s) \/ scan' = scan)
    BY InputsAssumption DEF DetectInv, DetectTypeOK, InputIsUsedUp, TokensAreFolded, sfVars
<1>6. Unscanned' < Unscanned \/ UNCHANGED Unscanned
    BY <1>1, <1>5 DEF Unscanned
<1> QED BY <1>3, <1>4, <1>6 DEF Closer

(* Making the fingerprint and looking it up come after the folding.        *)
LEMMA VerdictIsCloser ==
    ASSUME FingerprintIsMade \/ Positive \/ Benign
    PROVE  Closer
<1>1. UNCHANGED flags
    BY DEF FingerprintIsMade, Positive, Benign, sfVars
<1>2. \/ phase = "parse" /\ phase' = "lookup"
      \/ phase = "lookup" /\ phase' \in {"sqli", "benign"}
    BY DEF FingerprintIsMade, Positive, Benign, Declined
<1>3. UNCHANGED ContextsLeft /\ Undecided' < Undecided
    BY <1>1, <1>2 DEF ContextsLeft, Undecided
<1> QED BY <1>3 DEF Closer

(* The context tried next has a higher rank.                               *)
LEMMA ContextIsCloser ==
    ASSUME DetectInv, ReparseAsMySQL \/ ParseInSingleQuotes \/ ParseInDoubleQuotes
    PROVE  Closer
<1>1. flags \in Contexts /\ Rank(flags) \in Nat
    BY RankIs DEF DetectInv, DetectTypeOK
<1>2. /\ Context("single", "ansi") \in Contexts /\ Context("double", "mysql") \in Contexts
      /\ Rank(Context("single", "ansi")) = 2 /\ Rank(Context("double", "mysql")) = 5
    BY DEF Contexts, Context, Rank
<1>3. CASE ReparseAsMySQL
    <2>1. flags.dialect = "ansi" /\ flags' = MySQL(flags)
        BY <1>3 DEF ReparseAsMySQL, AgainAsMySQL, Reset, MySQL
    <2>2. Rank(flags') = Rank(flags) + 1
        BY <1>1, <2>1, RankIs
    <2> QED BY <1>1, <2>2 DEF Closer, ContextsLeft
<1>4. CASE ParseInSingleQuotes
    <2>1. flags.quote = "none" /\ Rank(flags') = 2
        BY <1>2, <1>4 DEF ParseInSingleQuotes, Reset
    <2>2. Rank(flags) < 2
        BY <2>1 DEF Rank
    <2> QED BY <1>1, <2>1, <2>2 DEF Closer, ContextsLeft
<1>5. CASE ParseInDoubleQuotes
    <2>1. flags.quote \in {"none", "single"} /\ Rank(flags') = 5
        BY <1>2, <1>5 DEF ParseInDoubleQuotes, LastOfSingle, Reset
    <2>2. Rank(flags) < 5
        BY <2>1 DEF Rank
    <2> QED BY <1>1, <2>1, <2>2 DEF Closer, ContextsLeft
<1> QED BY <1>3, <1>4, <1>5

(* No parse reads more than there is.                                      *)
LEMMA DetectUnread == DetectInv /\ Unread /\ [DetectNext]_detectVars => Unread'
<1> SUFFICES ASSUME DetectInv, Unread, [DetectNext]_detectVars PROVE Unread'
    OBVIOUS
<1>1. CASE TokenIsRead
    <2>1. read \in Nat
        BY <1>1 DEF DetectInv, DetectTypeOK, TypeOK, TokenIsRead
    <2>2. read < MaxRead /\ read' = read + 1
        BY <1>1 DEF TokenIsRead, Skip, Fetch, Tokenize
    <2> QED BY <2>1, <2>2, MaxReadAssumption DEF Unread
<1>2. CASE InputIsUsedUp \/ TokensAreFolded
    <2>1. Inv /\ Next
        BY <1>2 DEF InputIsUsedUp, TokensAreFolded, Next, DetectInv, ParseInv
    <2> QED BY <2>1, StepUnread
<1>3. CASE ReparseAsMySQL \/ ParseInSingleQuotes \/ ParseInDoubleQuotes
    <2>1. read' = 0
        BY <1>3 DEF ReparseAsMySQL, ParseInSingleQuotes, ParseInDoubleQuotes, Reset, Cleared
    <2> QED BY <2>1, MaxReadAssumption DEF Unread
<1>4. CASE FingerprintIsMade \/ Positive \/ Benign \/ UNCHANGED detectVars
    BY <1>4 DEF FingerprintIsMade, Positive, Benign, detectVars, vars, Unread
<1> QED BY <1>1, <1>2, <1>3, <1>4 DEF DetectNext

(* libinjection_is_sqli decides: for any input, any tables and any size of *)
(* a token, each step brings the verdict nearer.                           *)
THEOREM EveryInputIsDecided == DetectSpec => DetectionAdvances
<1>1. DetectInit => DetectInv /\ Unread
    <2>1. DetectInit => Unread
        BY MaxReadAssumption DEF DetectInit, Init, Unread
    <2> QED BY <2>1, DetectInitInv
<1>2. DetectInv /\ Unread /\ [DetectNext]_detectVars => (DetectInv /\ Unread)'
    BY DetectStepInv, DetectUnread
<1>3. ASSUME DetectInv, Unread, DetectNext
      PROVE  {ContextsLeft', Undecided', Unscanned'} \subseteq Nat /\ Closer
    <2>1. DetectInv' /\ Unread'
        BY <1>2, <1>3
    <2>2. {ContextsLeft', Undecided', Unscanned'} \subseteq Nat
        <3>1. (DetectInv => {ContextsLeft, Undecided, Unscanned} \subseteq Nat)'
            BY LeftIsNumber, PTL
        <3> QED BY <2>1, <3>1
    <2>3. Closer
        BY <1>3, <2>1, TokenIsCloser, FoldingIsCloser, VerdictIsCloser, ContextIsCloser
           DEF DetectNext
    <2> QED BY <2>2, <2>3
<1>4. DetectInv /\ Unread /\ [DetectNext]_detectVars =>
         [{ContextsLeft', Undecided', Unscanned'} \subseteq Nat /\ Closer]_detectVars
    BY <1>3
<1> QED BY <1>1, <1>2, <1>4, PTL DEF DetectSpec, DetectionAdvances, Closer

=============================================================================
