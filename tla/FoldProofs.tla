----------------------------- MODULE FoldProofs -----------------------------
(***************************************************************************)
(* What holds of the folding for token streams of any length, over any     *)
(* tokens and any table of phrases.                                        *)
(*                                                                         *)
(* The argument: the tokens below pos are tokens and none is a comment,    *)
(* left does not exceed pos, and a rule that takes two or three tokens off *)
(* has found that many between left and pos.  The result is the value of   *)
(* pos that the loop ended with, plus one if a comment is put back.  Then  *)
(* that no twins are left, and that the loop returns.                      *)
(***************************************************************************)
EXTENDS Fold, LeastTheorems, FiniteSetTheorems

(* The invariant: all tokens below pos are proper, none are kept while the *)
(* first is looked for, the loop ends with nothing left to look at, and    *)
(* until the function returns nothing has been returned.                   *)
Proper == \A i \in Slots : i < pos => tokenvec[i].type \notin {"none", "c"}

Returning ==
    /\ pc = "skip" => pos = 0
    /\ pc = "finish" => left = pos
    /\ pc # "done" => result = -1

Inv ==
    /\ TypeOK
    /\ WindowInBounds
    /\ Proper
    /\ Returning
    /\ NoHoleInFingerprint
    /\ CommentEndsFingerprint

-----------------------------------------------------------------------------
(* An else-if chain takes a rule only if the rule's condition holds.       *)
LEMMA FirstRuleHolds ==
    ASSUME NEW order, NEW condition, DOMAIN order \subseteq Nat,
           FirstRule(order, condition) # "none"
    PROVE  condition[FirstRule(order, condition)]
<1> DEFINE holds == {i \in DOMAIN order : condition[order[i]]}
<1>1. holds # {}
    BY DEF FirstRule
<1>2. Min(holds) \in holds
    <2>1. holds \in SUBSET Nat
        OBVIOUS
    <2> QED BY <1>1, <2>1, MinIsLeast
<1>3. FirstRule(order, condition) = order[Min(holds)]
    BY <1>1 DEF FirstRule
<1> QED BY <1>2, <1>3

(* Two words are merged only if the table has a phrase of them.            *)
LEMMA PhraseIsInTable ==
    ASSUME PairRule = "phrase"
    PROVE  <<tokenvec[left].val, tokenvec[left + 1].val>> \in DOMAIN Phrases
<1> DEFINE cond == PairCondition(tokenvec[left], tokenvec[left + 1])
<1>1. DOMAIN PairOrder \subseteq Nat
    BY DEF PairOrder
<1>2. cond["phrase"]
    <2> HIDE DEF cond
    <2>1. FirstRule(PairOrder, cond) = "phrase"
        BY DEF PairRule, cond
    <2> QED BY <1>1, <2>1, FirstRuleHolds
<1>3. "phrase" \in {PairOrder[i] : i \in DOMAIN PairOrder}
    <2>1. 5 \in DOMAIN PairOrder /\ PairOrder[5] = "phrase"
        BY DEF PairOrder
    <2> QED BY <2>1
<1>4. cond["phrase"] = syntax_merge_words(tokenvec[left], tokenvec[left + 1])
    BY <1>3 DEF PairCondition
<1> QED BY <1>2, <1>4 DEF syntax_merge_words


(* What merging makes of two tokens is a token, and no comment.            *)
LEMMA MergedIsToken ==
    ASSUME NEW a \in Token, NEW b \in Token, <<a.val, b.val>> \in DOMAIN Phrases
    PROVE  Merged(a, b) \in Token /\ Merged(a, b).type \notin {"none", "c"}
<1> DEFINE p == Phrases[<<a.val, b.val>>]
<1>1. p.type \in TokenTypes /\ p.type # "c" /\ p.val \in STRING
    BY PhrasesAssumption
<1>2. a.text \in Text /\ b.text \in Text
    BY DEF Token
<1>3. [a.text EXCEPT !.len = a.text.len + b.text.len + 1] \in Text
    BY <1>2 DEF Text
<1>4. "none" \notin TokenTypes
    BY DEF TokenTypes
<1> HIDE DEF p
<1>5. Merged(a, b) = [type |-> p.type, val |-> p.val,
                      text |-> [a.text EXCEPT !.len = a.text.len + b.text.len + 1]]
    BY DEF Merged, p
<1> QED BY <1>1, <1>3, <1>4, <1>5 DEF Token

-----------------------------------------------------------------------------
(* The tokens and the words of the rules, as elements of their sets.       *)
LEMMA TokenFacts ==
    /\ NoToken \notin Token /\ NoToken.type = "none"
    /\ \A t \in Token : t.type \in TokenTypes /\ t.type # "none"
    /\ \A t \in Token \cup {NoToken} : t.type # "none" => t \in Token
    /\ \A t \in Token, u \in TokenTypes : [t EXCEPT !.type = u] \in Token
<1>1. "none" \notin TokenTypes
    BY DEF TokenTypes
<1>2. \A t \in Token : t.type \in TokenTypes
    BY DEF Token
<1>3. NoToken.type = "none"
    BY DEF NoToken
<1>4. \A t \in Token, u \in TokenTypes : [t EXCEPT !.type = u] \in Token
    BY DEF Token
<1> QED BY <1>1, <1>2, <1>3, <1>4

(* The invariant holds before the first token is read: nothing is on the   *)
(* stack.                                                                  *)
LEMMA InitInv == Init => Inv
<1> SUFFICES ASSUME Init PROVE Inv
    OBVIOUS
<1>1. TypeOK
    <2>1. NoToken.type = "none"
        BY DEF NoToken
    <2> QED BY <2>1 DEF Init, TypeOK, Pcs, MAX_TOKENS
<1>2. WindowInBounds /\ Proper /\ Returning
    BY DEF Init, WindowInBounds, Proper, Returning, MAX_TOKENS, Slots
<1>3. NoHoleInFingerprint /\ CommentEndsFingerprint
    BY DEF Init, NoHoleInFingerprint, CommentEndsFingerprint, Slots
<1> QED BY <1>1, <1>2, <1>3 DEF Inv

(* A step that is not the last one: it keeps the array an array of tokens, *)
(* those below pos proper, and left and pos in their bounds.               *)
Continues ==
    /\ pc' \in Pcs \ {"done"}
    /\ tokenvec' \in [Slots -> Token \cup {NoToken}]
    /\ pos' \in 0 .. MAX_TOKENS + 1
    /\ left' \in 0 .. pos'
    /\ pc' = "skip" => pos' = 0
    /\ pc' = "finish" => left' = pos'
    /\ \A i \in Slots : i < pos' => tokenvec'[i].type \notin {"none", "c"}
    /\ result' = -1

(* What every step but the last two kinds does, is enough.                 *)
LEMMA ContinuesInv ==
    ASSUME Inv, Continues, read' \in Nat, more' \in BOOLEAN,
           last_comment' \in Token \cup {NoToken},
           last_comment'.type \in {"none", "c"}
    PROVE  Inv'
<1>1. pos' \in Nat /\ left' \in Nat /\ left' <= pos' /\ pos' <= 6 /\ 0 <= left' /\ 0 <= pos'
    BY DEF Continues, MAX_TOKENS
<1>2. TypeOK'
    BY <1>1 DEF Continues, TypeOK, Pcs, MAX_TOKENS
<1>3. WindowInBounds'
    BY <1>1 DEF Continues, WindowInBounds, MAX_TOKENS
<1>4. Proper' /\ Returning'
    BY DEF Continues, Proper, Returning
<1>5. NoHoleInFingerprint' /\ CommentEndsFingerprint'
    BY DEF Continues, NoHoleInFingerprint, CommentEndsFingerprint, Slots
<1> QED BY <1>2, <1>3, <1>4, <1>5 DEF Inv

(* An array with proper tokens where tokenvec has them.                    *)
Fits(vec) ==
    /\ vec \in [Slots -> Token \cup {NoToken}]
    /\ \A i \in Slots : i < pos => vec[i].type \notin {"none", "c"}

(* A rule that leaves such an array and takes off no more than there is    *)
(* above where it looks next keeps the invariant.                          *)
LEMMA RewriteInv ==
    ASSUME Inv, pc \in {"two", "three"}, NEW vec, Fits(vec),
           NEW dropped \in 0 .. 3, NEW newLeft \in Nat, newLeft + dropped <= pos,
           NEW next \in {"top", "three"}, Rewrite(vec, dropped, newLeft, next)
    PROVE  Inv'
<1>1. pos \in 0 .. 6 /\ pos - dropped \in 0 .. 6 /\ newLeft \in 0 .. pos - dropped
    BY DEF Inv, TypeOK, WindowInBounds, MAX_TOKENS
<1>2. Continues
    <2>1. /\ tokenvec' = vec /\ pos' = pos - dropped /\ left' = newLeft
          /\ pc' = next /\ result' = -1
        BY DEF Rewrite, Inv, Returning
    <2>2. \A i \in Slots : i < pos - dropped => vec[i].type \notin {"none", "c"}
        BY <1>1 DEF Fits, Slots
    <2> QED BY <1>1, <2>1, <2>2 DEF Continues, Fits, Pcs, MAX_TOKENS
<1>3. read' \in Nat /\ more' \in BOOLEAN /\ last_comment' \in Token \cup {NoToken}
        /\ last_comment'.type \in {"none", "c"}
    BY DEF Rewrite, Inv, TypeOK
<1> QED BY <1>2, <1>3, ContinuesInv

(* The three ways a rule edits the array.                                  *)
LEMMA EditsAreProper ==
    ASSUME Inv, NEW k \in Slots, NEW l \in Slots, k < pos, l < pos
    PROVE  /\ tokenvec[k] \in Token
           /\ Fits(tokenvec)
           /\ Fits(Copied(k, l))
           /\ \A u \in TokenTypes \ {"c"} : Fits(Retyped(k, u))
<1>1. tokenvec \in [Slots -> Token \cup {NoToken}]
    BY DEF Inv, TypeOK
<1>2. \A i \in Slots : i < pos => tokenvec[i] \in Token /\ tokenvec[i].type # "c"
    BY <1>1, TokenFacts DEF Inv, Proper
<1>3. Fits(Copied(k, l))
    BY <1>1, <1>2, TokenFacts DEF Copied, Fits
<1>4. ASSUME NEW u \in TokenTypes \ {"c"}
      PROVE  Fits(Retyped(k, u))
    <2>1. Retyped(k, u) = [tokenvec EXCEPT ![k] = [tokenvec[k] EXCEPT !.type = u]]
        BY <1>1 DEF Retyped
    <2>2. [tokenvec[k] EXCEPT !.type = u] \in Token /\ [tokenvec[k] EXCEPT !.type = u].type = u
        BY <1>2, TokenFacts DEF Token
    <2>3. u # "none"
        BY DEF TokenTypes
    <2> QED BY <1>1, <1>2, <2>1, <2>2, <2>3, TokenFacts DEF Fits
<1>5. Fits(tokenvec)
    BY <1>1 DEF Inv, Proper, Fits
<1> QED BY <1>2, <1>3, <1>4, <1>5

(* Where a rule looks: two or three slots, all of them below pos.          *)
LEMMA PairWindow ==
    ASSUME Inv, PairReady
    PROVE  /\ pc \in {"two", "three"} /\ pos \in Nat /\ left \in Nat /\ left + 2 <= pos
           /\ left \in Slots /\ left + 1 \in Slots /\ left < pos /\ left + 1 < pos
           /\ BackOne \in Nat /\ BackOne <= left
BY DEF Inv, TypeOK, WindowInBounds, PairReady, MAX_TOKENS, Slots, BackOne

(* The same for the rules for three tokens: all three slots they look at   *)
(* are below pos.                                                          *)
LEMMA TripleWindow ==
    ASSUME Inv, TripleReady
    PROVE  /\ pc \in {"two", "three"} /\ pos \in Nat /\ left \in Nat /\ left + 3 <= pos
           /\ left \in Slots /\ left + 1 \in Slots /\ left + 2 \in Slots
           /\ left < pos /\ left + 1 < pos /\ left + 2 < pos
BY DEF Inv, TypeOK, WindowInBounds, TripleReady, MAX_TOKENS, Slots

(* Every rule for two tokens that goes on keeps the invariant: what it     *)
(* takes off the top is no more than the window it needed.                 *)
LEMMA PairInv ==
    ASSUME Inv,
           \/ DropRepeated \/ DropAndRestart \/ DropUnaryInParens \/ MergeWords
           \/ IfStatement \/ WordIsFunction \/ InIsOperator \/ LikeIsFunction
           \/ DropSqlType \/ Collation \/ Backslash \/ StripBrace \/ NoPairRule
    PROVE  Inv'
<1>1. PairReady
    BY DEF DropRepeated, DropAndRestart, DropUnaryInParens, MergeWords, IfStatement,
           WordIsFunction, InIsOperator, LikeIsFunction, DropSqlType, Collation,
           Backslash, StripBrace, NoPairRule
<1>2. /\ pc \in {"two", "three"} /\ pos \in Nat /\ left \in Nat /\ left + 2 <= pos
      /\ left \in Slots /\ left + 1 \in Slots /\ left < pos /\ left + 1 < pos
      /\ BackOne \in Nat /\ BackOne <= left
    BY <1>1, PairWindow
<1>3. Fits(tokenvec) /\ Fits(Copied(left, left + 1))
    BY <1>2, EditsAreProper
<1>4. \A k \in {left, left + 1} :
          /\ Fits(Retyped(k, "T")) /\ Fits(Retyped(k, "f")) /\ Fits(Retyped(k, "o"))
          /\ Fits(Retyped(k, "n")) /\ Fits(Retyped(k, "t")) /\ Fits(Retyped(k, "1"))
    <2>1. {"T", "f", "o", "n", "t", "1"} \subseteq TokenTypes \ {"c"}
        BY DEF TokenTypes
    <2> QED BY <1>2, <2>1, EditsAreProper
<1>5. \A vec, newLeft, next :
        (/\ Fits(vec) /\ newLeft \in Nat /\ next \in {"top", "three"})
        => /\ newLeft <= pos /\ Rewrite(vec, 0, newLeft, next) => Inv'
           /\ newLeft + 1 <= pos /\ Rewrite(vec, 1, newLeft, next) => Inv'
           /\ newLeft + 2 <= pos /\ Rewrite(vec, 2, newLeft, next) => Inv'
    BY <1>2, RewriteInv
<1>6. CASE DropRepeated
    <2>1. Rewrite(tokenvec, 1, left, "top")
        BY <1>6 DEF DropRepeated
    <2> QED BY <1>2, <1>3, <1>5, <2>1
<1>7. CASE DropAndRestart
    <2>1. Rewrite(tokenvec, 1, 0, "top")
        BY <1>7 DEF DropAndRestart
    <2> QED BY <1>2, <1>3, <1>5, <2>1
<1>8. CASE DropUnaryInParens
    <2>1. Rewrite(tokenvec, 1, BackOne, "top")
        BY <1>8 DEF DropUnaryInParens
    <2> QED BY <1>2, <1>3, <1>5, <2>1
<1>9. CASE MergeWords
    <2> DEFINE phrase == Merged(tokenvec[left], tokenvec[left + 1])
               vec == [tokenvec EXCEPT ![left] = phrase]
    <2>1. phrase \in Token /\ phrase.type \notin {"none", "c"}
        <3>1. tokenvec[left] \in Token /\ tokenvec[left + 1] \in Token
            BY <1>2, EditsAreProper
        <3>2. <<tokenvec[left].val, tokenvec[left + 1].val>> \in DOMAIN Phrases
            BY <1>9, PhraseIsInTable DEF MergeWords
        <3> QED BY <3>1, <3>2, MergedIsToken
    <2>2. Rewrite(vec, 1, BackOne, "top")
        BY <1>9 DEF MergeWords
    <2> HIDE DEF phrase
    <2>3. Fits(vec)
        BY <1>2, <1>3, <2>1 DEF Fits
    <2> HIDE DEF vec
    <2> QED BY <1>2, <1>5, <2>2, <2>3
<1>10. CASE IfStatement
    <2>1. Rewrite(Retyped(left + 1, "T"), 0, left, "top")
        BY <1>10 DEF IfStatement
    <2> QED BY <1>2, <1>4, <1>5, <2>1
<1>11. CASE WordIsFunction
    <2>1. Rewrite(Retyped(left, "f"), 0, left, "top")
        BY <1>11 DEF WordIsFunction
    <2> QED BY <1>2, <1>4, <1>5, <2>1
<1>12. CASE InIsOperator
    BY <1>2, <1>4, <1>5, <1>12 DEF InIsOperator
<1>13. CASE LikeIsFunction
    BY <1>2, <1>3, <1>4, <1>5, <1>13 DEF LikeIsFunction
<1>14. CASE DropSqlType
    <2>1. Rewrite(Copied(left, left + 1), 1, 0, "top")
        BY <1>14 DEF DropSqlType
    <2> QED BY <1>2, <1>3, <1>5, <2>1
<1>15. CASE Collation
    BY <1>2, <1>3, <1>4, <1>5, <1>15 DEF Collation
<1>16. CASE Backslash
    BY <1>2, <1>3, <1>4, <1>5, <1>16 DEF Backslash
<1>17. CASE StripBrace
    <2>1. Rewrite(tokenvec, 2, 0, "top")
        BY <1>17 DEF StripBrace
    <2> QED BY <1>2, <1>3, <1>5, <2>1
<1>18. CASE NoPairRule
    BY <1>2, <1>3, <1>5, <1>18 DEF NoPairRule
<1> QED BY <1>6, <1>7, <1>8, <1>9, <1>10, <1>11, <1>12, <1>13, <1>14, <1>15,
           <1>16, <1>17, <1>18

(* Every rule for three tokens keeps the invariant, the one that takes     *)
(* three off included.                                                     *)
LEMMA TripleInv ==
    ASSUME Inv,
           DropTwo \/ DropMiddle \/ DropListItem \/ UserIsWord \/ NoTripleRule
    PROVE  Inv'
<1>1. TripleReady
    BY DEF DropTwo, DropMiddle, DropListItem, UserIsWord, NoTripleRule
<1>2. /\ pc \in {"two", "three"} /\ pos \in Nat /\ left \in Nat /\ left + 3 <= pos
      /\ left \in Slots /\ left + 1 \in Slots /\ left + 2 \in Slots
      /\ left < pos /\ left + 1 < pos /\ left + 2 < pos
    BY <1>1, TripleWindow
<1>3. Fits(tokenvec) /\ Fits(Copied(left + 1, left + 2))
    BY <1>2, EditsAreProper
<1>4. Fits(Retyped(left, "n"))
    <2>1. "n" \in TokenTypes \ {"c"}
        BY DEF TokenTypes
    <2> QED BY <1>2, <2>1, EditsAreProper
<1>5. \A vec, newLeft :
        (/\ Fits(vec) /\ newLeft \in Nat)
        => /\ newLeft <= pos /\ Rewrite(vec, 0, newLeft, "top") => Inv'
           /\ newLeft + 1 <= pos /\ Rewrite(vec, 1, newLeft, "top") => Inv'
           /\ newLeft + 2 <= pos /\ Rewrite(vec, 2, newLeft, "top") => Inv'
           /\ newLeft + 3 <= pos /\ Rewrite(vec, 3, newLeft, "top") => Inv'
    BY <1>2, RewriteInv
<1>6. CASE DropTwo
    <2>1. Rewrite(tokenvec, 2, 0, "top")
        BY <1>6 DEF DropTwo
    <2> QED BY <1>2, <1>3, <1>5, <2>1
<1>7. CASE DropMiddle
    <2>1. Rewrite(Copied(left + 1, left + 2), 1, 0, "top")
        BY <1>7 DEF DropMiddle
    <2> QED BY <1>2, <1>3, <1>5, <2>1
<1>8. CASE DropListItem
    <2>1. Rewrite(Copied(left + 1, left + 2), 3, 0, "top")
        BY <1>8 DEF DropListItem
    <2> QED BY <1>2, <1>3, <1>5, <2>1
<1>9. CASE UserIsWord
    <2>1. \/ Rewrite(Retyped(left, "n"), 0, left + 1, "top")
          \/ Rewrite(tokenvec, 0, left + 1, "top")
        BY <1>9 DEF UserIsWord
    <2>2. left + 1 \in Nat /\ left + 1 <= pos
        BY <1>2
    <2> QED BY <1>3, <1>4, <1>5, <2>1, <2>2
<1>10. CASE NoTripleRule
    BY <1>2, <1>3, <1>5, <1>10 DEF NoTripleRule
<1> QED BY <1>6, <1>7, <1>8, <1>9, <1>10

(* Before the loop only the slot at the bottom is written, and the token   *)
(* that stays there is no comment.                                         *)
LEMMA SkipInv ==
    ASSUME Inv, NEW t \in Token, Skip(t)
    PROVE  Inv'
<1>1. t.type # "none"
    BY TokenFacts
<1>2. \/ Skippable(t) /\ pc' = "skip" /\ pos' = pos
      \/ t.type # "c" /\ pc' = "top" /\ pos' = 1
    BY DEF Skip, Skippable
<1>3. Continues
    BY <1>1, <1>2 DEF Inv, TypeOK, WindowInBounds, Proper, Returning, Skip, Tokenize,
                      Continues, Pcs, MAX_TOKENS, Slots
<1> QED BY <1>3, ContinuesInv DEF Inv, TypeOK, Skip, Tokenize

(* Reading a token stores it at pos only while there is room, and a        *)
(* comment is never stored.                                                *)
LEMMA FetchInv ==
    ASSUME Inv, NEW t \in Token, Fetch(t)
    PROVE  Inv'
<1>1. t.type # "none"
    BY TokenFacts
<1>2. Continues
    BY <1>1 DEF Inv, TypeOK, WindowInBounds, Proper, Returning, Fetch, Wanting, Tokenize,
                Continues, Pcs, MAX_TOKENS, Slots
<1>3. last_comment' \in Token \cup {NoToken} /\ last_comment'.type \in {"none", "c"}
    <2>1. (last_comment' = t /\ t.type = "c") \/ last_comment' = NoToken
        BY DEF Fetch
    <2> QED BY <1>1, <2>1, TokenFacts
<1> QED BY <1>2, <1>3, ContinuesInv DEF Inv, TypeOK, Fetch, Tokenize

(* The end of the input clears the slot at pos and does not count it.      *)
LEMMA FetchEndInv ==
    ASSUME Inv, FetchEnd
    PROVE  Inv'
<1>1. Continues
    BY DEF Inv, TypeOK, WindowInBounds, Proper, Returning, FetchEnd, Wanting, TokenizeEnd,
           Continues, Pcs, MAX_TOKENS, Slots
<1> QED BY <1>1, ContinuesInv DEF Inv, TypeOK, FetchEnd, TokenizeEnd

(* Giving up on a window that cannot be filled moves left to pos and no    *)
(* further.                                                                *)
LEMMA TooFewInv ==
    ASSUME Inv, TooFew
    PROVE  Inv'
<1>1. Continues
    BY DEF Inv, TypeOK, WindowInBounds, Proper, Returning, TooFew, Settled,
           Continues, Pcs, MAX_TOKENS, Slots
<1> QED BY <1>1, ContinuesInv DEF Inv, TypeOK, TooFew

(* The cut keeps one or two tokens, of which the second was the sixth.     *)
LEMMA TopInv ==
    ASSUME Inv, Top
    PROVE  Inv'
<1> DEFINE cut == pos >= MAX_TOKENS /\ FiveTokenCase
           newPos == IF cut THEN (IF pos > MAX_TOKENS THEN 2 ELSE 1) ELSE pos
           newLeft == IF cut THEN 0 ELSE left
           vec == IF cut /\ pos > MAX_TOKENS
                  THEN [tokenvec EXCEPT ![1] = tokenvec[MAX_TOKENS]] ELSE tokenvec
<1>1. /\ pc = "top" /\ tokenvec' = vec /\ pos' = newPos
      /\ \/ left' = newPos /\ pc' = "finish"
         \/ left' = newLeft /\ pc' = "two"
      /\ UNCHANGED <<more, last_comment, read, result>>
    BY DEF Top
<1>2. newPos \in 0 .. 6 /\ newLeft \in 0 .. newPos
    <2>1. pos \in Nat /\ left \in Nat /\ pos <= 6 /\ left <= pos
        BY <1>1 DEF Inv, TypeOK, WindowInBounds, MAX_TOKENS
    <2> HIDE DEF cut
    <2>2. CASE cut
        <3>1. pos >= 5
            BY <2>2 DEF cut, MAX_TOKENS
        <3> QED BY <2>1, <2>2, <3>1
    <2>3. CASE ~ cut
        BY <2>1, <2>3
    <2> QED BY <2>2, <2>3
<1>3. vec \in [Slots -> Token \cup {NoToken}]
    BY DEF Inv, TypeOK, Slots, MAX_TOKENS
<1>4. \A i \in Slots : i < newPos => vec[i].type \notin {"none", "c"}
    BY DEF Inv, TypeOK, WindowInBounds, Proper, Slots, MAX_TOKENS
<1> HIDE DEF cut, newPos, newLeft, vec
<1>5. Continues
    BY <1>1, <1>2, <1>3, <1>4 DEF Inv, Returning, Continues, Pcs, MAX_TOKENS
<1> QED BY <1>1, <1>5, ContinuesInv DEF Inv, TypeOK

(* The three returns.                                                      *)
LEMMA SkipToEndInv ==
    ASSUME Inv, SkipToEnd
    PROVE  Inv'
<1>1. TypeOK'
    <2>1. /\ pc' = "done" /\ tokenvec' = [tokenvec EXCEPT ![0] = NoToken] /\ more' = FALSE
          /\ result' = 0 /\ UNCHANGED <<pos, left, last_comment, read>>
        BY DEF SkipToEnd, TokenizeEnd
    <2>2. pc' \in Pcs /\ result' \in -1 .. MAX_TOKENS + 1 /\ more' \in BOOLEAN
        <3>1. more' \in BOOLEAN
            BY <2>1
        <3> QED BY <2>1, <3>1 DEF Pcs, MAX_TOKENS
    <2> QED BY <2>1, <2>2 DEF Inv, TypeOK
<1>2. WindowInBounds' /\ Returning'
    BY DEF Inv, WindowInBounds, Returning, SkipToEnd
<1>3. Proper' /\ NoHoleInFingerprint' /\ CommentEndsFingerprint'
    <2>1. pos' = 0 /\ result' = 0
        BY DEF Inv, Returning, SkipToEnd
    <2> QED BY <2>1 DEF Proper, NoHoleInFingerprint, CommentEndsFingerprint, Slots
<1> QED BY <1>1, <1>2, <1>3 DEF Inv

(* The return from inside the loop counts the two tokens of its rule,      *)
(* which are there.                                                        *)
LEMMA EvilBraceInv ==
    ASSUME Inv, EvilBrace
    PROVE  Inv'
<1>1. /\ left \in Nat /\ pos \in Nat /\ pos <= 6 /\ left + 2 <= pos
      /\ left + 1 \in Slots /\ left + 1 < pos
    <2>1. PairReady
        BY DEF EvilBrace
    <2>2. pos <= 6
        BY DEF Inv, WindowInBounds, MAX_TOKENS
    <2> QED BY <2>1, <2>2, PairWindow
<1>2. /\ tokenvec' = Retyped(left + 1, "X") /\ result' = left + 2 /\ pc' = "done"
      /\ UNCHANGED <<pos, left, more, last_comment, read>>
    BY DEF EvilBrace
<1>3. Fits(tokenvec')
    <2>1. "X" \in TokenTypes \ {"c"}
        BY DEF TokenTypes
    <2> QED BY <1>1, <1>2, <2>1, EditsAreProper
<1>4. TypeOK'
    BY <1>1, <1>2, <1>3 DEF Inv, TypeOK, Fits, Pcs, MAX_TOKENS
<1>5. WindowInBounds' /\ Returning'
    BY <1>1, <1>2 DEF WindowInBounds, Returning, MAX_TOKENS
<1>6. Proper' /\ NoHoleInFingerprint' /\ CommentEndsFingerprint'
    BY <1>1, <1>2, <1>3 DEF Fits, Proper, NoHoleInFingerprint, CommentEndsFingerprint, Slots
<1> QED BY <1>4, <1>5, <1>6 DEF Inv

(* The return at the end counts what is on the stack and the comment put   *)
(* behind it, five at most.                                                *)
LEMMA FinishInv ==
    ASSUME Inv, Finish
    PROVE  Inv'
<1> DEFINE comment == left < MAX_TOKENS /\ last_comment.type = "c"
           length == IF comment THEN left + 1 ELSE left
           vec == IF comment THEN [tokenvec EXCEPT ![left] = last_comment] ELSE tokenvec
<1>1. /\ tokenvec' = vec /\ pc' = "done" /\ result' = left'
      /\ left' = IF length > MAX_TOKENS THEN MAX_TOKENS ELSE length
      /\ UNCHANGED <<pos, more, last_comment, read>>
    BY DEF Finish
<1>2. left \in Nat /\ left = pos /\ pos <= 6 /\ last_comment \in Token \cup {NoToken}
    BY DEF Inv, TypeOK, WindowInBounds, Returning, Finish, MAX_TOKENS
<1>3. \A i \in Slots : i < left => tokenvec[i].type \notin {"none", "c"}
    BY <1>2 DEF Inv, Proper
<1>4. tokenvec \in [Slots -> Token \cup {NoToken}]
    BY DEF Inv, TypeOK
<1>5. /\ vec \in [Slots -> Token \cup {NoToken}]
      /\ \A i \in Slots : i < left => vec[i].type \notin {"none", "c"}
      /\ \A i \in Slots : i < length => vec[i].type # "none"
      /\ length \in {left, left + 1}
    <2> HIDE DEF Slots
    <2>1. CASE comment
        <3>1. left \in Slots
            BY <1>2, <2>1 DEF Slots, MAX_TOKENS
        <3>2. \A i \in Slots : i \in Nat
            BY DEF Slots
        <3> QED BY <1>2, <1>3, <1>4, <2>1, <3>1, <3>2
    <2>2. CASE ~ comment
        <3>1. vec = tokenvec /\ length = left
            BY <2>2
        <3> HIDE DEF comment, vec, length
        <3> QED BY <1>3, <1>4, <3>1
    <2> QED BY <2>1, <2>2
<1> HIDE DEF comment, length, vec
<1>6. left' \in Nat /\ left' <= length /\ left' <= 5
    BY <1>1, <1>2, <1>5 DEF MAX_TOKENS
<1>7. TypeOK'
    BY <1>1, <1>2, <1>5, <1>6 DEF Inv, TypeOK, Pcs, MAX_TOKENS
<1>8. WindowInBounds' /\ Returning'
    BY <1>1, <1>2, <1>6 DEF WindowInBounds, Returning, MAX_TOKENS
<1>9. Proper' /\ NoHoleInFingerprint' /\ CommentEndsFingerprint'
    BY <1>1, <1>2, <1>5, <1>6 DEF Proper, NoHoleInFingerprint, CommentEndsFingerprint, Slots
<1> QED BY <1>7, <1>8, <1>9 DEF Inv

(* Every step of the folding keeps the invariant: one case for each        *)
(* action.                                                                 *)
LEMMA StepInv == Inv /\ [Next]_vars => Inv'
<1> SUFFICES ASSUME Inv, [Next]_vars PROVE Inv'
    OBVIOUS
<1>1. ASSUME NEW t \in Tokens, Skip(t) \/ Fetch(t) PROVE Inv'
    BY <1>1, TokensAssumption, SkipInv, FetchInv
<1>2. CASE SkipToEnd \/ FetchEnd \/ Top \/ TooFew \/ Finish
    BY <1>2, SkipToEndInv, FetchEndInv, TopInv, TooFewInv, FinishInv
<1>3. CASE Rule
    BY <1>3, PairInv, TripleInv, EvilBraceInv DEF Rule
<1>4. CASE UNCHANGED vars
    BY <1>4 DEF vars, Inv, TypeOK, WindowInBounds, Proper, Returning,
                NoHoleInFingerprint, CommentEndsFingerprint
<1> QED BY <1>1, <1>2, <1>3, <1>4 DEF Next

-----------------------------------------------------------------------------
(* The invariant holds of every state the folding reaches.                 *)
THEOREM Invariance == Spec => []Inv
BY InitInv, StepInv, PTL DEF Spec

(* The variables keep their types: the array holds tokens and cleared      *)
(* slots, and the result, once it is there, counts at most six of them.    *)
THEOREM Typing == Spec => []TypeOK
BY Invariance, PTL DEF Inv

(* libinjection_sqli_fold never leaves its array of eight tokens nor takes *)
(* off it what is not there, however many tokens the input has.            *)
THEOREM Bounds == Spec => []WindowInBounds
BY Invariance, PTL DEF Inv

(* Whatever the input, every token the fingerprint counts is a token.      *)
THEOREM Fingerprint == Spec => []NoHoleInFingerprint
BY Invariance, PTL DEF Inv

(* Whatever the input, a comment is the last token of a fingerprint.       *)
THEOREM Comments == Spec => []CommentEndsFingerprint
BY Invariance, PTL DEF Inv

-----------------------------------------------------------------------------
(***************************************************************************)
(* No pair of twins is left in a fingerprint, for token streams of any     *)
(* length.                                                                 *)
(*                                                                         *)
(* The argument: the pairs the rules for two tokens have passed over have  *)
(* no twins.  A rule that drops or edits tokens above them moves left back *)
(* far enough, or puts a type in place that has no twin rule.  What the    *)
(* loop must not do is stop with pairs that were not looked at: reading    *)
(* stops only when the window is full, so at the end of the input fewer    *)
(* tokens than a window are left, and their pairs have been passed.        *)
(***************************************************************************)

(* The pairs that begin below this have been looked at. *)
Looked == IF pc = "three" THEN left + 1 ELSE left

Quiet == \A i \in Slots :
            (i + 1 < pos /\ i < Looked) => ~ Twins(tokenvec[i], tokenvec[i + 1])

(* While there is more input something below pos is still to be looked at, *)
(* unless the stack is empty or full; after it the window cannot be filled.*)
Room ==
    /\ pc = "skip" => more /\ left = 0
    /\ (pc = "top" /\ more) => left < pos \/ left = 0 \/ left >= MAX_TOKENS
    /\ (pc = "top" /\ ~ more) => left = pos
    /\ (pc = "two" /\ more) => left < pos \/ left = 0
    /\ (pc = "three" /\ more) => left + 2 <= pos
    /\ (pc \in {"two", "three"} /\ ~ more) => pos - left < Want

TwinInv == (pc # "done" => Quiet /\ Room) /\ NoTwinsLeft

-----------------------------------------------------------------------------
(* If a chain takes no rule then no rule's condition holds.                *)
LEMMA NoRuleHolds ==
    ASSUME NEW order, NEW condition, DOMAIN order \subseteq Nat,
           \A i \in DOMAIN order : order[i] # "none",
           FirstRule(order, condition) = "none"
    PROVE  \A i \in DOMAIN order : ~ condition[order[i]]
<1> DEFINE holds == {i \in DOMAIN order : condition[order[i]]}
<1>1. ASSUME holds # {} PROVE FALSE
    <2>1. holds \in SUBSET Nat
        OBVIOUS
    <2>2. Min(holds) \in holds
        BY <1>1, <2>1, MinIsLeast
    <2>3. FirstRule(order, condition) = order[Min(holds)]
        BY <1>1 DEF FirstRule
    <2> QED BY <2>2, <2>3
<1> QED BY <1>1

(* Two tokens no rule is for are no twins. *)
LEMMA NoRuleNoTwins ==
    ASSUME PairRule = "none"
    PROVE  ~ Twins(tokenvec[left], tokenvec[left + 1])
<1> DEFINE a == tokenvec[left]
           b == tokenvec[left + 1]
           cond == PairCondition(a, b)
<1>1. \A i \in DOMAIN PairOrder : ~ cond[PairOrder[i]]
    <2>1. DOMAIN PairOrder = 1 .. 16
        BY DEF PairOrder
    <2>2. \A i \in 1 .. 16 : PairOrder[i] # "none"
        <3>1. /\ PairOrder[1] # "none" /\ PairOrder[2] # "none"
              /\ PairOrder[3] # "none" /\ PairOrder[4] # "none"
              /\ PairOrder[5] # "none" /\ PairOrder[6] # "none"
              /\ PairOrder[7] # "none" /\ PairOrder[8] # "none"
              /\ PairOrder[9] # "none" /\ PairOrder[10] # "none"
              /\ PairOrder[11] # "none" /\ PairOrder[12] # "none"
              /\ PairOrder[13] # "none" /\ PairOrder[14] # "none"
              /\ PairOrder[15] # "none" /\ PairOrder[16] # "none"
            BY DEF PairOrder
        <3>2. \A i \in 1 .. 16 :
                 \/ i = 1 \/ i = 2 \/ i = 3 \/ i = 4 \/ i = 5 \/ i = 6 \/ i = 7 \/ i = 8
                 \/ i = 9 \/ i = 10 \/ i = 11 \/ i = 12 \/ i = 13 \/ i = 14 \/ i = 15 \/ i = 16
            OBVIOUS
        <3> QED BY <3>1, <3>2
    <2>3. FirstRule(PairOrder, cond) = "none"
        BY DEF PairRule
    <2> HIDE DEF cond
    <2> QED BY <2>1, <2>2, <2>3, NoRuleHolds
<1>2. /\ PairOrder[1] = "strings" /\ PairOrder[2] = "semicolons"
      /\ PairOrder[13] = "left parens" /\ PairOrder[14] = "right parens"
      /\ {1, 2, 13, 14} \subseteq DOMAIN PairOrder
    BY DEF PairOrder
<1>3. ~ cond["strings"] /\ ~ cond["semicolons"] /\ ~ cond["left parens"] /\ ~ cond["right parens"]
    <2> HIDE DEF cond
    <2> QED BY <1>1, <1>2
<1>4. /\ "strings" \in {PairOrder[i] : i \in DOMAIN PairOrder}
      /\ "semicolons" \in {PairOrder[i] : i \in DOMAIN PairOrder}
      /\ "left parens" \in {PairOrder[i] : i \in DOMAIN PairOrder}
      /\ "right parens" \in {PairOrder[i] : i \in DOMAIN PairOrder}
    <2> HIDE DEF cond
    <2> QED BY <1>2, ZenonT(60)
<1>5. /\ cond["strings"] = (a.type = "s" /\ b.type = "s")
      /\ cond["semicolons"] = (a.type = ";" /\ b.type = ";")
      /\ cond["left parens"] = (a.type = "(" /\ b.type = "(")
      /\ cond["right parens"] = (a.type = ")" /\ b.type = ")")
    BY <1>4 DEF PairCondition
<1> QED BY <1>3, <1>5 DEF Twins

(* The conditions of two rules that look further without dropping.         *)
LEMMA LookingOn ==
    /\ PairRule = "like" => tokenvec[left].type = "o"
    /\ PairRule = "collate" => tokenvec[left].type = "A"
<1> DEFINE cond == PairCondition(tokenvec[left], tokenvec[left + 1])
<1>1. PairRule # "none" => cond[PairRule]
    <2>1. DOMAIN PairOrder \subseteq Nat
        BY DEF PairOrder
    <2> HIDE DEF cond
    <2>2. PairRule = FirstRule(PairOrder, cond)
        BY DEF PairRule, cond
    <2> QED BY <2>1, <2>2, FirstRuleHolds
<1>2. "like" \in {PairOrder[i] : i \in DOMAIN PairOrder}
    <2>1. 9 \in DOMAIN PairOrder /\ PairOrder[9] = "like"
        BY DEF PairOrder
    <2> QED BY <2>1
<1>3. "collate" \in {PairOrder[i] : i \in DOMAIN PairOrder}
    <2>1. 11 \in DOMAIN PairOrder /\ PairOrder[11] = "collate"
        BY DEF PairOrder
    <2> QED BY <2>1
<1>4. cond["like"] => tokenvec[left].type = "o"
    BY <1>2 DEF PairCondition
<1>5. cond["collate"] => tokenvec[left].type = "A"
    BY <1>3 DEF PairCondition
<1> HIDE DEF cond
<1> QED BY <1>1, <1>4, <1>5

(* What a rule must do to keep pairs quiet.                                *)
LEMMA RewriteQuiet ==
    ASSUME Inv, TwinInv, pc \in {"two", "three"}, more, NEW vec,
           NEW dropped \in 0 .. 3, NEW newLeft \in Nat, newLeft + dropped <= pos,
           NEW next \in {"top", "three"}, Rewrite(vec, dropped, newLeft, next),
           next = "top" => newLeft < pos - dropped \/ newLeft = 0,
           next = "three" => newLeft + 2 <= pos - dropped,
           \A i \in Slots :
              (/\ i + 1 < pos - dropped
               /\ i < newLeft \/ (next = "three" /\ i = newLeft))
              => ~ Twins(vec[i], vec[i + 1])
    PROVE  TwinInv'
<1>1. /\ tokenvec' = vec /\ pos' = pos - dropped /\ left' = newLeft /\ pc' = next
      /\ more' = more /\ result' = -1
    BY DEF Rewrite, Inv, Returning
<1>2. pos \in Nat
    BY DEF Inv, TypeOK
<1>3. Quiet'
    BY <1>1, <1>2 DEF Quiet, Looked, Slots
<1>4. Room'
    BY <1>1 DEF Room
<1>5. NoTwinsLeft'
    BY <1>1 DEF NoTwinsLeft, Slots
<1> QED BY <1>3, <1>4, <1>5 DEF TwinInv

(* The types that have no twin rule: a token given one makes no twins.     *)
Lone == TokenTypes \ {"s", ";", "(", ")"}

(* The types the rules give a token when they change one are all of that   *)
(* kind.                                                                   *)
LEMMA LoneTypes == {"T", "f", "o", "n", "t"} \subseteq Lone
BY DEF Lone, TokenTypes

(* Giving a token such a type makes no new twins of the pairs it is in.    *)
LEMMA RetypedQuiet ==
    ASSUME Inv, NEW k \in Slots, k < pos, NEW u \in Lone,
           NEW i \in Slots, i + 1 < pos
    PROVE  ~ Twins(tokenvec[i], tokenvec[i + 1])
              => ~ Twins(Retyped(k, u)[i], Retyped(k, u)[i + 1])
<1>1. tokenvec \in [Slots -> Token \cup {NoToken}] /\ i + 1 \in Slots
    <2>1. tokenvec \in [Slots -> Token \cup {NoToken}] /\ pos \in Nat
        BY DEF Inv, TypeOK
    <2>2. pos <= 6
        BY DEF Inv, WindowInBounds, MAX_TOKENS
    <2>3. i + 1 \in Slots
        <3> HIDE DEF Slots
        <3>1. i \in 0 .. 7
            BY DEF Slots
        <3>2. i + 1 \in 0 .. 7
            BY <2>1, <2>2, <3>1
        <3> QED BY <3>2 DEF Slots
    <2> QED BY <2>1, <2>3
<1>2. Retyped(k, u) = [tokenvec EXCEPT ![k] = [tokenvec[k] EXCEPT !.type = u]]
    BY <1>1 DEF Retyped
<1>3. [tokenvec[k] EXCEPT !.type = u].type = u
    <2>1. tokenvec[k] \in Token
        BY EditsAreProper
    <2> QED BY <2>1 DEF Token
<1> HIDE DEF Slots
<1>4. CASE i = k \/ i + 1 = k
    BY <1>1, <1>2, <1>3, <1>4 DEF Twins, Lone
<1>5. CASE i # k /\ i + 1 # k
    BY <1>1, <1>2, <1>5
<1> QED BY <1>4, <1>5

(* What a rule for two tokens may assume: its slots, and no twins below    *)
(* left.                                                                   *)
LEMMA PairQuietWindow ==
    ASSUME Inv, TwinInv, PairReady
    PROVE  /\ more /\ pc = "two" /\ pc \in {"two", "three"} /\ pos \in Nat /\ left \in Nat
           /\ left + 2 <= pos /\ left \in Slots /\ left + 1 \in Slots
           /\ \A i \in Slots : (i + 1 < pos /\ i < left) => ~ Twins(tokenvec[i], tokenvec[i + 1])
<1>1. pos \in Nat /\ left \in Nat /\ left + 2 <= pos /\ left \in Slots /\ left + 1 \in Slots
    BY PairWindow
<1>2. pc = "two" /\ pos - left >= 2
    BY DEF PairReady
<1>3. more
    BY <1>1, <1>2 DEF TwinInv, Room, Want, Inv, TypeOK
<1>4. Quiet /\ Looked = left
    BY <1>2 DEF TwinInv, Looked
<1> QED BY <1>1, <1>2, <1>3, <1>4 DEF Quiet

(* What a rule for three tokens may assume: its slots, and no twins up to  *)
(* left.                                                                   *)
LEMMA TripleQuietWindow ==
    ASSUME Inv, TwinInv, TripleReady
    PROVE  /\ more /\ pc \in {"two", "three"} /\ pos \in Nat /\ left \in Nat
           /\ left + 3 <= pos /\ left \in Slots
           /\ \A i \in Slots :
                 (i + 1 < pos /\ i < left + 1) => ~ Twins(tokenvec[i], tokenvec[i + 1])
<1>1. pos \in Nat /\ left \in Nat /\ left + 3 <= pos /\ left \in Slots
    BY TripleWindow
<1>2. pc = "three" /\ pos - left >= 3
    BY DEF TripleReady
<1>3. more
    BY <1>1, <1>2 DEF TwinInv, Room, Want, Inv, TypeOK
<1>4. Quiet /\ Looked = left + 1
    BY <1>2 DEF TwinInv, Looked
<1> QED BY <1>1, <1>2, <1>3, <1>4 DEF Quiet

(* Rules that go back to the bottom leave nothing that was looked at.      *)
LEMMA RestartQuiet ==
    ASSUME Inv, TwinInv, pc \in {"two", "three"}, more, NEW vec,
           NEW dropped \in 0 .. 3, dropped <= pos, Rewrite(vec, dropped, 0, "top")
    PROVE  TwinInv'
<1>1. pos \in Nat
    BY DEF Inv, TypeOK
<1> QED BY <1>1, RewriteQuiet DEF Slots

(* No rule for two tokens leaves twins among the pairs that count as       *)
(* looked at.                                                              *)
LEMMA PairTwins ==
    ASSUME Inv, TwinInv,
           \/ DropRepeated \/ DropAndRestart \/ DropUnaryInParens \/ MergeWords
           \/ IfStatement \/ WordIsFunction \/ InIsOperator \/ LikeIsFunction
           \/ DropSqlType \/ Collation \/ Backslash \/ StripBrace \/ NoPairRule
    PROVE  TwinInv'
<1>1. PairReady
    BY DEF DropRepeated, DropAndRestart, DropUnaryInParens, MergeWords, IfStatement,
           WordIsFunction, InIsOperator, LikeIsFunction, DropSqlType, Collation,
           Backslash, StripBrace, NoPairRule
<1>2. /\ more /\ pc \in {"two", "three"} /\ pos \in Nat /\ left \in Nat
      /\ left + 2 <= pos /\ left \in Slots /\ left + 1 \in Slots
      /\ \A i \in Slots : (i + 1 < pos /\ i < left) => ~ Twins(tokenvec[i], tokenvec[i + 1])
    BY <1>1, PairQuietWindow
<1>3. BackOne \in Nat /\ BackOne <= left /\ (BackOne < left \/ left = 0)
    BY <1>2 DEF BackOne
<1>4. \A i \in Slots : i \in Nat
    BY DEF Slots
<1>5. ASSUME NEW k \in {left, left + 1}, NEW u \in {"T", "f", "o", "n"},
             Rewrite(Retyped(k, u), 0, left, "top")
      PROVE  TwinInv'
    <2> DEFINE vec == Retyped(k, u)
    <2>0. k \in Slots /\ k < pos /\ u \in Lone
        BY <1>2, LoneTypes
    <2>1. \A i \in Slots : (i + 1 < pos /\ i < left) => ~ Twins(vec[i], vec[i + 1])
        BY <1>2, <2>0, RetypedQuiet
    <2>2. Rewrite(vec, 0, left, "top")
        BY <1>5
    <2> HIDE DEF vec
    <2> QED BY <1>2, <1>4, <2>1, <2>2, RewriteQuiet
<1>6. CASE DropRepeated
    <2>1. Rewrite(tokenvec, 1, left, "top")
        BY <1>6 DEF DropRepeated
    <2> QED BY <1>2, <1>4, <2>1, RewriteQuiet
<1>7. CASE DropAndRestart \/ DropSqlType \/ StripBrace
    <2>1. \/ Rewrite(tokenvec, 1, 0, "top")
          \/ Rewrite(Copied(left, left + 1), 1, 0, "top")
          \/ Rewrite(tokenvec, 2, 0, "top")
        BY <1>7 DEF DropAndRestart, DropSqlType, StripBrace
    <2> QED BY <1>2, <2>1, RestartQuiet
<1>8. CASE DropUnaryInParens
    <2>1. Rewrite(tokenvec, 1, BackOne, "top")
        BY <1>8 DEF DropUnaryInParens
    <2> QED BY <1>2, <1>3, <1>4, <2>1, RewriteQuiet
<1>9. CASE MergeWords
    <2> DEFINE vec == [tokenvec EXCEPT ![left] =
                          Merged(tokenvec[left], tokenvec[left + 1])]
    <2>1. Rewrite(vec, 1, BackOne, "top")
        BY <1>9 DEF MergeWords
    <2>2. \A i \in Slots : (i + 1 < pos /\ i < BackOne) => ~ Twins(vec[i], vec[i + 1])
        <3> SUFFICES ASSUME NEW i \in Slots, i + 1 < pos, i < BackOne
                     PROVE  ~ Twins(vec[i], vec[i + 1])
            OBVIOUS
        <3>1. i # left /\ i + 1 # left /\ i < left
            BY <1>2, <1>3, <1>4 DEF BackOne
        <3>2. vec[i] = tokenvec[i] /\ vec[i + 1] = tokenvec[i + 1]
            <4>1. i + 1 \in Slots
                BY <1>2, <1>4, <3>1 DEF Slots
            <4> QED BY <3>1, <4>1 DEF Inv, TypeOK
        <3> QED BY <1>2, <3>1, <3>2
    <2> HIDE DEF vec
    <2> QED BY <1>2, <1>3, <1>4, <2>1, <2>2, RewriteQuiet
<1>10. CASE IfStatement \/ WordIsFunction \/ InIsOperator
    <2>1. \/ Rewrite(Retyped(left + 1, "T"), 0, left, "top")
          \/ Rewrite(Retyped(left, "f"), 0, left, "top")
          \/ Rewrite(Retyped(left, "o"), 0, left, "top")
          \/ Rewrite(Retyped(left, "n"), 0, left, "top")
        BY <1>10 DEF IfStatement, WordIsFunction, InIsOperator
    <2> QED BY <1>5, <2>1
<1>11. CASE LikeIsFunction
    <2>1. tokenvec[left].type = "o"
        BY <1>11, LookingOn DEF LikeIsFunction
    <2>2. ~ Twins(tokenvec[left], tokenvec[left + 1])
        BY <2>1 DEF Twins
    <2>3. \A i \in Slots : (i + 1 < pos /\ i < left + 1) => ~ Twins(tokenvec[i], tokenvec[i + 1])
        BY <1>2, <1>4, <2>2
    <2>4. \A i \in Slots : (i + 1 < pos /\ i < left + 1) =>
              ~ Twins(Retyped(left, "f")[i], Retyped(left, "f")[i + 1])
        BY <1>2, <2>3, LoneTypes, RetypedQuiet
    <2>5. \/ Rewrite(Retyped(left, "f"), 0, left, "three")
          \/ Rewrite(tokenvec, 0, left, "three")
        BY <1>11 DEF LikeIsFunction
    <2>6. CASE Rewrite(Retyped(left, "f"), 0, left, "three")
        <3> DEFINE vec == Retyped(left, "f")
        <3>1. \A i \in Slots : (i + 1 < pos /\ i < left + 1) => ~ Twins(vec[i], vec[i + 1])
            BY <2>4
        <3>2. Rewrite(vec, 0, left, "three")
            BY <2>6
        <3> HIDE DEF vec
        <3> QED BY <1>2, <1>4, <3>1, <3>2, RewriteQuiet
    <2>7. CASE Rewrite(tokenvec, 0, left, "three")
        BY <1>2, <1>4, <2>3, <2>7, RewriteQuiet
    <2> QED BY <2>5, <2>6, <2>7
<1>12. CASE Collation
    <2>1. tokenvec[left].type = "A"
        BY <1>12, LookingOn DEF Collation
    <2>2. ~ Twins(tokenvec[left], tokenvec[left + 1])
        BY <2>1 DEF Twins
    <2>3. \A i \in Slots : (i + 1 < pos /\ i < left + 1) => ~ Twins(tokenvec[i], tokenvec[i + 1])
        BY <1>2, <1>4, <2>2
    <2> DEFINE vec == Retyped(left + 1, "t")
    <2>4. \A i \in Slots : (i + 1 < pos /\ i < left + 1) => ~ Twins(vec[i], vec[i + 1])
        BY <1>2, <2>3, LoneTypes, RetypedQuiet
    <2>5. \/ Rewrite(vec, 0, 0, "three")
          \/ Rewrite(tokenvec, 0, left, "three")
        BY <1>12 DEF Collation
    <2> HIDE DEF vec
    <2>6. CASE Rewrite(vec, 0, 0, "three")
        BY <1>2, <1>4, <2>4, <2>6, RewriteQuiet
    <2>7. CASE Rewrite(tokenvec, 0, left, "three")
        BY <1>2, <1>4, <2>3, <2>7, RewriteQuiet
    <2> QED BY <2>5, <2>6, <2>7
<1>13. CASE Backslash
    <2>1. \/ Rewrite(Retyped(left, "1"), 0, 0, "top")
          \/ Rewrite(Copied(left, left + 1), 1, 0, "top")
        BY <1>13 DEF Backslash
    <2> QED BY <1>2, <2>1, RestartQuiet
<1>14. CASE NoPairRule
    <2>1. ~ Twins(tokenvec[left], tokenvec[left + 1])
        BY <1>14, NoRuleNoTwins DEF NoPairRule
    <2>2. Rewrite(tokenvec, 0, left, "three")
        BY <1>14 DEF NoPairRule
    <2> QED BY <1>2, <1>4, <2>1, <2>2, RewriteQuiet
<1> QED BY <1>6, <1>7, <1>8, <1>9, <1>10, <1>11, <1>12, <1>13, <1>14

(* No rule for three tokens leaves twins among the pairs that count as     *)
(* looked at.                                                              *)
LEMMA TripleTwins ==
    ASSUME Inv, TwinInv,
           DropTwo \/ DropMiddle \/ DropListItem \/ UserIsWord \/ NoTripleRule
    PROVE  TwinInv'
<1>1. TripleReady
    BY DEF DropTwo, DropMiddle, DropListItem, UserIsWord, NoTripleRule
<1>2. /\ more /\ pc \in {"two", "three"} /\ pos \in Nat /\ left \in Nat
      /\ left + 3 <= pos /\ left \in Slots
      /\ \A i \in Slots : (i + 1 < pos /\ i < left + 1) => ~ Twins(tokenvec[i], tokenvec[i + 1])
    BY <1>1, TripleQuietWindow
<1>3. \A i \in Slots : i \in Nat
    BY DEF Slots
<1>4. CASE DropTwo \/ DropMiddle \/ DropListItem
    <2>1. \/ Rewrite(tokenvec, 2, 0, "top")
          \/ Rewrite(Copied(left + 1, left + 2), 1, 0, "top")
          \/ Rewrite(Copied(left + 1, left + 2), 3, 0, "top")
        BY <1>4 DEF DropTwo, DropMiddle, DropListItem
    <2> QED BY <1>2, <2>1, RestartQuiet
<1>5. CASE UserIsWord \/ NoTripleRule
    <2>1. \/ Rewrite(Retyped(left, "n"), 0, left + 1, "top")
          \/ Rewrite(tokenvec, 0, left + 1, "top")
        BY <1>5 DEF UserIsWord, NoTripleRule
    <2>2. CASE Rewrite(Retyped(left, "n"), 0, left + 1, "top")
        <3> DEFINE vec == Retyped(left, "n")
        <3>1. \A i \in Slots : (i + 1 < pos /\ i < left + 1) => ~ Twins(vec[i], vec[i + 1])
            <4>1. "n" \in Lone /\ left \in Slots /\ left < pos
                BY <1>2, LoneTypes
            <4> SUFFICES ASSUME NEW i \in Slots, i + 1 < pos, i < left + 1
                         PROVE  ~ Twins(vec[i], vec[i + 1])
                OBVIOUS
            <4>2. ~ Twins(tokenvec[i], tokenvec[i + 1])
                BY <1>2
            <4> HIDE DEF Slots
            <4> QED BY <4>1, <4>2, RetypedQuiet
        <3>2. Rewrite(vec, 0, left + 1, "top")
            BY <2>2
        <3> HIDE DEF vec
        <3> QED BY <1>2, <1>3, <3>1, <3>2, RewriteQuiet
    <2>3. CASE Rewrite(tokenvec, 0, left + 1, "top")
        BY <1>2, <1>3, <2>3, RewriteQuiet
    <2> QED BY <2>1, <2>2, <2>3
<1> QED BY <1>4, <1>5

-----------------------------------------------------------------------------
(* At the start there are no tokens, so no pairs.                          *)
LEMMA InitTwins == Init => TwinInv
BY DEF Init, TwinInv, Quiet, Looked, Room, NoTwinsLeft, Slots

(* Before the loop there is at most one token, so there is no pair.        *)
LEMMA SkipTwins ==
    ASSUME Inv, TwinInv, SkipToEnd \/ \E t \in Tokens : Skip(t)
    PROVE  TwinInv'
<1>1. pos = 0 /\ left = 0 /\ more /\ result = -1
    BY DEF Inv, Returning, TwinInv, Room, Skip, SkipToEnd
<1>2. /\ left' = 0 /\ result' \in {-1, 0}
      /\ \/ pc' = "skip" /\ pos' = 0 /\ more' = more
         \/ pc' = "top" /\ pos' = 1 /\ more' = more
         \/ pc' = "done"
    BY <1>1 DEF Skip, SkipToEnd, Tokenize, TokenizeEnd
<1>3. NoTwinsLeft'
    BY <1>2 DEF NoTwinsLeft, Slots
<1>4. pc' # "done" => Quiet'
    BY <1>2 DEF Quiet, Slots
<1>5. pc' # "done" => Room'
    <2>1. CASE pc' = "skip" /\ more' = more
        BY <1>1, <1>2, <2>1 DEF Room
    <2>2. CASE pc' = "top" /\ pos' = 1 /\ more' = more
        BY <1>1, <1>2, <2>2 DEF Room
    <2> QED BY <1>2, <2>1, <2>2
<1> QED BY <1>3, <1>4, <1>5 DEF TwinInv

(* A token that is read is above every pair that was looked at.            *)
LEMMA FetchTwins ==
    ASSUME Inv, TwinInv, FetchEnd \/ \E t \in Tokens : Fetch(t)
    PROVE  TwinInv'
<1>1. /\ pos \in Nat /\ pos <= 5 /\ left \in Nat /\ more /\ pc \in {"two", "three"}
      /\ pos - left < Want /\ result = -1 /\ tokenvec \in [Slots -> Token \cup {NoToken}]
    BY DEF Inv, TypeOK, Returning, Fetch, FetchEnd, Wanting, MAX_TOKENS
<1>2. /\ pc = "two" => left < pos \/ left = 0
      /\ pc = "three" => left + 2 <= pos
      /\ \A i \in Slots : (i + 1 < pos /\ i < Looked) => ~ Twins(tokenvec[i], tokenvec[i + 1])
    BY <1>1 DEF TwinInv, Room, Quiet
<1>3. /\ pc' = pc /\ left' = left /\ result' = result
      /\ \/ more' = more /\ pos' \in {pos, pos + 1}
         \/ more' = FALSE /\ pos' = pos
      /\ \A i \in Slots : i # pos => tokenvec'[i] = tokenvec[i]
    BY <1>1 DEF Fetch, FetchEnd, Tokenize, TokenizeEnd
<1>4. \A i \in Slots : (i + 1 < pos + 1 /\ i < Looked) => i + 1 < pos
    BY <1>1, <1>2 DEF Looked, Slots
<1>5. \A i \in Slots : i + 1 < pos => i + 1 \in Slots /\ i # pos /\ i + 1 # pos
    BY <1>1 DEF Slots
<1>6. Looked' = Looked
    BY <1>3 DEF Looked
<1>7. Quiet'
    <2> HIDE DEF Slots
    <2> SUFFICES ASSUME NEW i \in Slots, i + 1 < pos', i < Looked
                 PROVE  ~ Twins(tokenvec'[i], tokenvec'[i + 1])
        BY <1>6 DEF Quiet
    <2>1. i + 1 < pos + 1
        <3>1. i \in Nat
            BY DEF Slots
        <3>2. pos' = pos \/ pos' = pos + 1
            BY <1>3
        <3> QED BY <1>1, <3>1, <3>2
    <2>2. i + 1 < pos
        BY <1>4, <2>1
    <2> QED BY <1>2, <1>3, <1>5, <2>2
<1>8. Room'
    <2>1. CASE more' = more /\ pos' \in {pos, pos + 1}
        BY <1>1, <1>2, <1>3, <2>1 DEF Room
    <2>2. CASE more' = FALSE /\ pos' = pos
        <3>1. Want' = Want
            BY <1>3 DEF Want
        <3> QED BY <1>1, <1>3, <2>2, <3>1 DEF Room
    <2> QED BY <1>3, <2>1, <2>2
<1>9. NoTwinsLeft'
    BY <1>1, <1>3 DEF NoTwinsLeft, Slots
<1> QED BY <1>7, <1>8, <1>9 DEF TwinInv

(* Too few tokens are left to fill the window: every pair was looked at.   *)
LEMMA TooFewTwins ==
    ASSUME Inv, TwinInv, TooFew
    PROVE  TwinInv'
<1>1. /\ pos \in Nat /\ pos <= 6 /\ left \in Nat /\ pc \in {"two", "three"}
      /\ pos - left < Want /\ result = -1 /\ (more => pos >= 6)
    <2>1. pos \in Nat /\ left \in Nat /\ pc \in {"two", "three"} /\ pos - left < Want /\ ~ Wanting
        BY DEF Inv, TypeOK, TooFew, Settled
    <2>2. pos <= 6 /\ result = -1
        BY <2>1 DEF Inv, WindowInBounds, Returning, MAX_TOKENS
    <2> QED BY <2>1, <2>2 DEF Wanting, MAX_TOKENS
<1>2. \A i \in Slots : i + 1 < pos => ~ Twins(tokenvec[i], tokenvec[i + 1])
    <2>1. \A i \in Slots : i + 1 < pos => i < Looked
        BY <1>1 DEF Looked, Want, Slots
    <2> QED BY <1>1, <2>1 DEF TwinInv, Quiet
<1>3. /\ left' = pos /\ pc' = "top" /\ pos' = pos /\ more' = more /\ result' = -1
      /\ tokenvec' = tokenvec
    BY <1>1 DEF TooFew
<1>4. Quiet'
    BY <1>2, <1>3 DEF Quiet
<1>5. Room'
    BY <1>1, <1>3 DEF Room, MAX_TOKENS
<1>6. NoTwinsLeft'
    BY <1>3 DEF NoTwinsLeft, Slots
<1> QED BY <1>4, <1>5, <1>6 DEF TwinInv

(* The head of the loop: the cut keeps two tokens of which the first has   *)
(* no twin, and the exits leave every pair looked at.                      *)
LEMMA TopTwins ==
    ASSUME Inv, TwinInv, Top
    PROVE  TwinInv'
<1>1. /\ pos \in Nat /\ pos <= 6 /\ left \in Nat /\ left <= pos /\ pc = "top" /\ result = -1
      /\ tokenvec \in [Slots -> Token \cup {NoToken}]
    <2>1. pos \in Nat /\ left \in Nat /\ pc = "top" /\ tokenvec \in [Slots -> Token \cup {NoToken}]
        BY DEF Inv, TypeOK, Top
    <2> QED BY <2>1 DEF Inv, WindowInBounds, Returning, MAX_TOKENS
<1>2. /\ more => left < pos \/ left = 0 \/ left >= 5
      /\ ~ more => left = pos
      /\ \A i \in Slots : (i + 1 < pos /\ i < left) => ~ Twins(tokenvec[i], tokenvec[i + 1])
    BY <1>1 DEF TwinInv, Room, Quiet, Looked, MAX_TOKENS
<1>3. more' = more /\ result' = -1 /\ pc' \in {"finish", "two"}
    BY <1>1 DEF Top
<1>4. NoTwinsLeft'
    BY <1>3 DEF NoTwinsLeft, Slots
<1>5. CASE pos >= MAX_TOKENS /\ FiveTokenCase
    <2>1. /\ pos' \in {1, 2}
          /\ (pc' = "two" => more /\ left' = 0)
          /\ tokenvec'[0] = tokenvec[0]
        BY <1>1, <1>5 DEF Top, MAX_TOKENS, Slots
    <2>2. tokenvec[0].type \in {"1", "n"}
        BY <1>5 DEF FiveTokenCase
    <2>3. ~ Twins(tokenvec'[0], tokenvec'[1])
        BY <2>1, <2>2 DEF Twins
    <2>4. Quiet'
        <3>1. \A i \in Slots : i + 1 < pos' => i = 0
            BY <2>1 DEF Slots
        <3> HIDE DEF Slots
        <3> QED BY <2>3, <3>1 DEF Quiet
    <2>5. Room'
        <3>1. CASE pc' = "finish"
            BY <3>1 DEF Room
        <3>2. CASE pc' = "two" /\ more' /\ left' = 0
            BY <3>2 DEF Room
        <3> QED BY <1>3, <2>1, <3>1, <3>2
    <2> QED BY <1>4, <2>4, <2>5 DEF TwinInv
<1>6. CASE ~ (pos >= MAX_TOKENS /\ FiveTokenCase)
    <2>1. /\ pos' = pos /\ tokenvec' = tokenvec
          /\ \/ pc' = "finish" /\ left' = pos /\ (~ more \/ left >= 5)
             \/ pc' = "two" /\ left' = left /\ more /\ left < 5
        BY <1>6 DEF Top, MAX_TOKENS
    <2>2. \A i \in Slots : (i + 1 < pos /\ i < left') => i < left
        BY <1>1, <1>2, <2>1 DEF Slots
    <2>3. Looked' = left'
        BY <1>3 DEF Looked
    <2>4. Quiet'
        BY <1>2, <2>1, <2>2, <2>3 DEF Quiet
    <2>5. Room'
        <3>1. CASE pc' = "finish"
            BY <3>1 DEF Room
        <3>2. CASE pc' = "two" /\ more' /\ (left' < pos' \/ left' = 0)
            BY <3>2 DEF Room
        <3> QED BY <1>1, <1>2, <1>3, <2>1, <3>1, <3>2
    <2> QED BY <1>4, <2>4, <2>5 DEF TwinInv
<1> QED BY <1>5, <1>6

(* The return from inside the loop changes the type of its last token and  *)
(* ends behind it.                                                         *)
LEMMA EvilBraceTwins ==
    ASSUME Inv, TwinInv, EvilBrace
    PROVE  TwinInv'
<1>1. PairReady
    BY DEF EvilBrace
<1>2. /\ pos \in Nat /\ left \in Nat /\ left + 2 <= pos /\ left \in Slots /\ left + 1 \in Slots
      /\ \A i \in Slots : (i + 1 < pos /\ i < left) => ~ Twins(tokenvec[i], tokenvec[i + 1])
    BY <1>1, PairQuietWindow
<1>3. tokenvec' = Retyped(left + 1, "X") /\ result' = left + 2 /\ pc' = "done"
    BY DEF EvilBrace
<1>4. tokenvec \in [Slots -> Token \cup {NoToken}] /\ tokenvec[left + 1] \in Token
    BY <1>2, EditsAreProper DEF Inv, TypeOK
<1>5. tokenvec'[left + 1].type = "X" /\ \A i \in Slots : i # left + 1 => tokenvec'[i] = tokenvec[i]
    BY <1>2, <1>3, <1>4 DEF Retyped, Token
<1>6. ASSUME NEW i \in Slots, i + 1 < left + 2
      PROVE  ~ Twins(tokenvec'[i], tokenvec'[i + 1])
    <2>1. CASE i = left
        BY <1>5, <2>1 DEF Twins
    <2>2. CASE i # left
        <3>1. i < left /\ i + 1 < pos /\ i # left + 1 /\ i + 1 # left + 1 /\ i + 1 \in Slots
            BY <1>2, <1>6, <2>2 DEF Slots
        <3> QED BY <1>2, <1>5, <3>1
    <2> QED BY <2>1, <2>2
<1>7. NoTwinsLeft'
    BY <1>3, <1>6 DEF NoTwinsLeft
<1> QED BY <1>3, <1>7 DEF TwinInv

(* The return at the end has looked at every pair, and a comment is no     *)
(* twin.                                                                   *)
LEMMA FinishTwins ==
    ASSUME Inv, TwinInv, Finish
    PROVE  TwinInv'
<1>1. /\ left \in Nat /\ left = pos /\ pos <= 6 /\ pc = "finish"
      /\ tokenvec \in [Slots -> Token \cup {NoToken}]
    <2>1. left \in Nat /\ pc = "finish" /\ tokenvec \in [Slots -> Token \cup {NoToken}]
        BY DEF Inv, TypeOK, Finish
    <2> QED BY <2>1 DEF Inv, WindowInBounds, Returning, MAX_TOKENS
<1>2. \A i \in Slots : i + 1 < pos => ~ Twins(tokenvec[i], tokenvec[i + 1])
    <2>1. \A i \in Slots : i + 1 < pos => i < Looked
        BY <1>1 DEF Looked, Slots
    <2> QED BY <1>1, <2>1 DEF TwinInv, Quiet
<1>3. /\ pc' = "done"
      /\ \/ /\ left < 5 /\ last_comment.type = "c" /\ result' = left + 1
            /\ tokenvec' = [tokenvec EXCEPT ![left] = last_comment]
         \/ tokenvec' = tokenvec /\ result' \in {left, 5} /\ result' <= left
    BY <1>1 DEF Finish, MAX_TOKENS
<1>4. ASSUME NEW i \in Slots, i + 1 < result'
      PROVE  ~ Twins(tokenvec'[i], tokenvec'[i + 1])
    <2>1. CASE /\ left < 5 /\ last_comment.type = "c" /\ result' = left + 1
               /\ tokenvec' = [tokenvec EXCEPT ![left] = last_comment]
        <3>1. left \in Slots /\ i + 1 \in Slots /\ i < left
            BY <1>1, <1>4, <2>1 DEF Slots
        <3>2. CASE i + 1 = left
            <4>1. tokenvec'[i + 1].type = "c"
                BY <1>1, <2>1, <3>1, <3>2
            <4> QED BY <4>1 DEF Twins
        <3>3. CASE i + 1 # left
            <4>1. i + 1 < pos
                BY <1>1, <3>1, <3>3 DEF Slots
            <4>2. tokenvec'[i] = tokenvec[i] /\ tokenvec'[i + 1] = tokenvec[i + 1]
                BY <1>1, <2>1, <3>1, <3>3
            <4> QED BY <1>2, <4>1, <4>2
        <3> QED BY <3>2, <3>3
    <2>2. CASE tokenvec' = tokenvec /\ result' \in {left, 5} /\ result' <= left
        <3>1. i + 1 < pos
            BY <1>1, <1>4, <2>2 DEF Slots
        <3> QED BY <1>2, <2>2, <3>1
    <2> QED BY <1>3, <2>1, <2>2
<1>5. NoTwinsLeft'
    BY <1>4 DEF NoTwinsLeft
<1> QED BY <1>3, <1>5 DEF TwinInv

(* Every step of the folding keeps the pairs that were looked at free of   *)
(* twins: one case for each action.                                        *)
LEMMA StepTwins == Inv /\ TwinInv /\ [Next]_vars => TwinInv'
<1> SUFFICES ASSUME Inv, TwinInv, [Next]_vars PROVE TwinInv'
    OBVIOUS
<1>1. ASSUME NEW t \in Tokens, Skip(t) \/ Fetch(t) PROVE TwinInv'
    <2>1. CASE Skip(t)
        BY <2>1, SkipTwins
    <2>2. CASE Fetch(t)
        BY <2>2, FetchTwins
    <2> QED BY <1>1, <2>1, <2>2
<1>2. CASE SkipToEnd
    BY <1>2, SkipTwins
<1>3. CASE FetchEnd
    BY <1>3, FetchTwins
<1>4. CASE Top \/ TooFew \/ Finish
    BY <1>4, TopTwins, TooFewTwins, FinishTwins
<1>5. CASE Rule
    BY <1>5, PairTwins, TripleTwins, EvilBraceTwins DEF Rule
<1>6. CASE UNCHANGED vars
    BY <1>6 DEF vars, TwinInv, Quiet, Looked, Room, Want, NoTwinsLeft
<1> QED BY <1>1, <1>2, <1>3, <1>4, <1>5, <1>6 DEF Next

(* Whatever the input, no fingerprint has two strings, two semicolons, two *)
(* left or two right parentheses in a row.                                 *)
THEOREM NoTwins == Spec => []NoTwinsLeft
<1>1. Init => Inv /\ TwinInv
    BY InitInv, InitTwins
<1>2. Inv /\ TwinInv /\ [Next]_vars => (Inv /\ TwinInv)'
    BY StepInv, StepTwins
<1>3. TwinInv => NoTwinsLeft
    BY DEF TwinInv
<1> QED BY <1>1, <1>2, <1>3, PTL DEF Spec

-----------------------------------------------------------------------------
(***************************************************************************)
(* The loop returns: each step brings the return nearer.                   *)
(*                                                                         *)
(* The argument: a step reads, or ends the input, or takes a token off.    *)
(* One that does none of these gives a token a type that no rule gives     *)
(* back for as long, or looks further.                                     *)
(***************************************************************************)

(* What is read is counted up to the end of the input.                     *)
Unread == read <= MaxRead

(* The three ways to get nearer below the height of the stack: by types,   *)
(* by how much has been looked at, by the place in the loop.               *)
LooksOn ==
    \/ Unlooked' < Unlooked
    \/ /\ UNCHANGED Unlooked
       /\ \/ WillRetype /\ ~ WillRetype'
          \/ (WillRetype' <=> WillRetype) /\ Stage' < Stage
Retypes ==
    \/ Backslashes' \subseteq Backslashes /\ Backslashes' # Backslashes
    \/ /\ UNCHANGED Backslashes
       /\ \/ NotSqlTypes' \subseteq NotSqlTypes /\ NotSqlTypes' # NotSqlTypes
          \/ UNCHANGED NotSqlTypes /\ LooksOn
Nearer ==
    \/ Phase' < Phase
    \/ UNCHANGED Phase /\ read' = read + 1
    \/ UNCHANGED <<Phase, read>> /\ more /\ ~ more'
    \/ UNCHANGED <<Phase, read, more>> /\ pos' < pos
    \/ UNCHANGED <<Phase, read, more, pos>> /\ Retypes

(* The sets that are counted are finite, and what is counted is a number.  *)
Counted ==
    /\ Phase \in Nat /\ MaxRead - read \in Nat /\ pos \in Nat
    /\ IsFiniteSet(Backslashes) /\ Cardinality(Backslashes) \in Nat
    /\ IsFiniteSet(NotSqlTypes) /\ Cardinality(NotSqlTypes) \in Nat
    /\ Unlooked \in Nat /\ Stage \in Nat

(* They are, of every state the folding reaches.                           *)
LEMMA CountsAreNumbers == Inv /\ Unread => Counted
<1> SUFFICES ASSUME Inv, Unread PROVE Counted
    OBVIOUS
<1>1. /\ read \in Nat /\ pos \in Nat /\ left \in Nat /\ MaxRead \in Nat
    BY MaxReadAssumption DEF Inv, TypeOK
<1>2. Phase \in Nat /\ Stage \in Nat
    BY DEF Phase, Stage
<1>3. Unlooked \in Nat /\ MaxRead - read \in Nat
    BY <1>1 DEF Unlooked, Unread
<1>4. IsFiniteSet(Slots)
    <2>1. 0 \in Int /\ 7 \in Int
        OBVIOUS
    <2>2. IsFiniteSet(0 .. 7)
        BY <2>1, FS_Interval
    <2> QED BY <2>2 DEF Slots
<1>5. Backslashes \subseteq Slots /\ NotSqlTypes \subseteq Slots
    BY DEF Backslashes, NotSqlTypes, Stacked
<1>6. IsFiniteSet(Backslashes) /\ IsFiniteSet(NotSqlTypes)
    BY <1>4, <1>5, FS_Subset
<1>7. Cardinality(Backslashes) \in Nat /\ Cardinality(NotSqlTypes) \in Nat
    BY <1>6, FS_CardinalityType
<1> QED BY <1>1, <1>2, <1>3, <1>6, <1>7 DEF Counted

(* A part of a finite set that is not all of it has fewer elements.        *)
LEMMA PartIsSmaller ==
    ASSUME NEW S, NEW T, IsFiniteSet(S), T \subseteq S, T # S
    PROVE  Cardinality(T) < Cardinality(S)
<1>1. IsFiniteSet(T) /\ Cardinality(T) <= Cardinality(S) /\ Cardinality(T) # Cardinality(S)
    BY FS_Subset
<1>2. Cardinality(T) \in Nat /\ Cardinality(S) \in Nat
    BY <1>1, FS_CardinalityType
<1> QED BY <1>1, <1>2

(* Nine numbers one after the other.                                       *)
LEMMA NineNumbers ==
    ASSUME NEW a \in Nat, NEW b \in Nat, NEW c \in Nat, NEW d \in Nat, NEW e \in Nat,
           NEW f \in Nat, NEW g \in Nat, NEW h \in Nat, NEW i \in Nat
    PROVE  <<a, b, c, d, e, f, g, h, i>> \in [1 .. 9 -> Nat]
OBVIOUS

(* The first number in which two such tuples differ decides.               *)
LEMMA FirstDecides ==
    ASSUME NEW r, NEW q
    PROVE  /\ r[1] < q[1] => Precedes(r, q)
           /\ r[1] = q[1] /\ r[2] < q[2] => Precedes(r, q)
           /\ r[1] = q[1] /\ r[2] = q[2] /\ r[3] < q[3] => Precedes(r, q)
           /\ r[1] = q[1] /\ r[2] = q[2] /\ r[3] = q[3] =>
              /\ r[4] < q[4] => Precedes(r, q)
              /\ r[4] = q[4] /\ r[5] < q[5] => Precedes(r, q)
              /\ r[4] = q[4] /\ r[5] = q[5] /\ r[6] < q[6] => Precedes(r, q)
              /\ r[4] = q[4] /\ r[5] = q[5] /\ r[6] = q[6] =>
                 /\ r[7] < q[7] => Precedes(r, q)
                 /\ r[7] = q[7] /\ r[8] < q[8] => Precedes(r, q)
                 /\ r[7] = q[7] /\ r[8] = q[8] /\ r[9] < q[9] => Precedes(r, q)
<1> DEFINE Same(n) == \A j \in 1 .. n - 1 : r[j] = q[j]
<1>1. \A n \in 1 .. 9 : r[n] < q[n] /\ Same(n) => Precedes(r, q)
    BY DEF Precedes
<1>2. /\ Same(1)
      /\ r[1] = q[1] => Same(2)
      /\ r[1] = q[1] /\ r[2] = q[2] => Same(3)
      /\ r[1] = q[1] /\ r[2] = q[2] /\ r[3] = q[3] =>
         /\ Same(4)
         /\ r[4] = q[4] => Same(5)
         /\ r[4] = q[4] /\ r[5] = q[5] => Same(6)
         /\ r[4] = q[4] /\ r[5] = q[5] /\ r[6] = q[6] =>
            /\ Same(7)
            /\ r[7] = q[7] => Same(8)
            /\ r[7] = q[7] /\ r[8] = q[8] => Same(9)
    OBVIOUS
<1> HIDE DEF Same
<1> QED BY <1>1, <1>2

(* To get nearer in one of those ways is for the measure to decrease.      *)
LEMMA NearerDecreases ==
    ASSUME Inv, Inv', Unread, Unread', Nearer
    PROVE  Remaining' \in [1 .. 9 -> Nat] /\ Precedes(Remaining', Remaining)
<1>1. /\ Phase \in Nat /\ MaxRead - read \in Nat /\ pos \in Nat
      /\ IsFiniteSet(Backslashes) /\ Cardinality(Backslashes) \in Nat
      /\ IsFiniteSet(NotSqlTypes) /\ Cardinality(NotSqlTypes) \in Nat
      /\ Unlooked \in Nat /\ Stage \in Nat
    BY CountsAreNumbers DEF Counted
<1>2. /\ Phase' \in Nat /\ MaxRead - read' \in Nat /\ pos' \in Nat
      /\ Cardinality(Backslashes') \in Nat /\ Cardinality(NotSqlTypes') \in Nat
      /\ Unlooked' \in Nat /\ Stage' \in Nat
    <2>1. Counted'
        BY CountsAreNumbers, PTL
    <2> QED BY <2>1 DEF Counted
<1> DEFINE one(b) == IF b THEN 1 ELSE 0
<1>3. one(more) \in Nat /\ one(more') \in Nat /\ one(WillRetype) \in Nat /\ one(WillRetype') \in Nat
    OBVIOUS
<1>4. Remaining = <<Phase, MaxRead - read, one(more), pos, Cardinality(Backslashes),
                    Cardinality(NotSqlTypes), Unlooked, one(WillRetype), Stage>>
    BY DEF Remaining
<1>5. Remaining' = <<Phase', MaxRead - read', one(more'), pos', Cardinality(Backslashes'),
                     Cardinality(NotSqlTypes'), Unlooked', one(WillRetype'), Stage'>>
    BY DEF Remaining
<1>6. Remaining' \in [1 .. 9 -> Nat]
    <2> HIDE DEF one
    <2> QED BY <1>2, <1>3, <1>5, NineNumbers
<1>7. /\ Backslashes' \subseteq Backslashes /\ Backslashes' # Backslashes
            => Cardinality(Backslashes') < Cardinality(Backslashes)
      /\ NotSqlTypes' \subseteq NotSqlTypes /\ NotSqlTypes' # NotSqlTypes
            => Cardinality(NotSqlTypes') < Cardinality(NotSqlTypes)
    BY <1>1, PartIsSmaller
<1>8. read' = read + 1 => MaxRead - read' < MaxRead - read
    BY MaxReadAssumption DEF Inv, TypeOK
<1>9. /\ more /\ ~ more' => one(more') < one(more)
      /\ WillRetype /\ ~ WillRetype' => one(WillRetype') < one(WillRetype)
      /\ (WillRetype' <=> WillRetype) => one(WillRetype') = one(WillRetype)
    OBVIOUS
<1> DEFINE r == Remaining'
           q == Remaining
<1>10. /\ r[1] = Phase' /\ r[2] = MaxRead - read' /\ r[3] = one(more') /\ r[4] = pos'
       /\ r[5] = Cardinality(Backslashes') /\ r[6] = Cardinality(NotSqlTypes')
       /\ r[7] = Unlooked' /\ r[8] = one(WillRetype') /\ r[9] = Stage'
    <2> HIDE DEF one
    <2> QED BY <1>5
<1>11. /\ q[1] = Phase /\ q[2] = MaxRead - read /\ q[3] = one(more) /\ q[4] = pos
       /\ q[5] = Cardinality(Backslashes) /\ q[6] = Cardinality(NotSqlTypes)
       /\ q[7] = Unlooked /\ q[8] = one(WillRetype) /\ q[9] = Stage
    <2> HIDE DEF one
    <2> QED BY <1>4
<1>12. Precedes(r, q)
    <2> HIDE DEF r, q
    <2>1. CASE Phase' < Phase
        BY <1>10, <1>11, <2>1, FirstDecides
    <2>2. CASE UNCHANGED Phase /\ read' = read + 1
        BY <1>8, <1>10, <1>11, <2>2, FirstDecides
    <2>3. CASE UNCHANGED <<Phase, read>> /\ more /\ ~ more'
        <3> HIDE DEF one
        <3> QED BY <1>9, <1>10, <1>11, <2>3, FirstDecides
    <2>4. CASE UNCHANGED <<Phase, read, more>> /\ pos' < pos
        BY <1>10, <1>11, <2>4, FirstDecides
    <2>5. CASE UNCHANGED <<Phase, read, more, pos>> /\ Retypes
        <3>1. r[1] = q[1] /\ r[2] = q[2] /\ r[3] = q[3] /\ r[4] = q[4]
            BY <1>10, <1>11, <2>5
        <3>2. \/ r[5] < q[5]
              \/ r[5] = q[5] /\ r[6] < q[6]
              \/ r[5] = q[5] /\ r[6] = q[6] /\ LooksOn
            BY <1>7, <1>10, <1>11, <2>5 DEF Retypes
        <3>3. LooksOn => \/ r[7] < q[7]
                         \/ r[7] = q[7] /\ r[8] < q[8]
                         \/ r[7] = q[7] /\ r[8] = q[8] /\ r[9] < q[9]
            <4> HIDE DEF one
            <4> QED BY <1>9, <1>10, <1>11 DEF LooksOn
        <3> QED BY <3>1, <3>2, <3>3, FirstDecides
    <2> QED BY <2>1, <2>2, <2>3, <2>4, <2>5 DEF Nearer
<1> QED BY <1>6, <1>12

-----------------------------------------------------------------------------
(* What the conditions of the rules that change types say of the tokens.   *)
RulesKnow ==
    /\ PairRule = "if statement" =>
          tokenvec[left].type \notin {"n", "v", "k", "f", "o"} /\ tokenvec[left + 1].type = "f"
    /\ PairRule = "function word" =>
          tokenvec[left].type \in {"n", "v"} /\ tokenvec[left].val \in FunctionWords
    /\ PairRule = "in" =>
          tokenvec[left].type = "k" /\ tokenvec[left].val \notin FunctionWords
    /\ PairRule = "like" => tokenvec[left].type = "o"
    /\ PairRule = "collate" => tokenvec[left + 1].type = "n"
    /\ PairRule = "backslash" => tokenvec[left].type = "\\"
    /\ TripleRule = "user call" => tokenvec[left].type = "f"

(* They say it wherever the rule is taken.                                 *)
LEMMA RulesDoKnow == RulesKnow
<1> DEFINE a == tokenvec[left]
           b == tokenvec[left + 1]
           c == tokenvec[left + 2]
           cond == PairCondition(a, b)
           triple == TripleCondition(a, b, c)
<1>1. PairRule # "none" => cond[PairRule]
    <2>1. DOMAIN PairOrder \subseteq Nat
        BY DEF PairOrder
    <2> HIDE DEF cond
    <2>2. PairRule = FirstRule(PairOrder, cond)
        BY DEF PairRule, cond
    <2> QED BY <2>1, <2>2, FirstRuleHolds
<1>2. {"if statement", "function word", "in", "like", "collate", "backslash"}
         \subseteq {PairOrder[i] : i \in DOMAIN PairOrder}
    <2>1. /\ {6, 7, 8, 9, 11, 12} \subseteq DOMAIN PairOrder
          /\ PairOrder[6] = "if statement" /\ PairOrder[7] = "function word"
          /\ PairOrder[8] = "in" /\ PairOrder[9] = "like"
          /\ PairOrder[11] = "collate" /\ PairOrder[12] = "backslash"
        BY DEF PairOrder
    <2> QED BY <2>1
<1>3. cond["if statement"] => a.type \notin {"n", "v", "k", "f", "o"} /\ b.type = "f"
    <2>1. cond["if statement"] = (a.type = ";" /\ b.type = "f" /\ b.val \in IfWords)
        BY <1>2 DEF PairCondition
    <2> HIDE DEF cond
    <2> QED BY <2>1, Zenon
<1>4. cond["function word"] => a.type \in {"n", "v"} /\ a.val \in FunctionWords
    BY <1>2 DEF PairCondition
<1>5. cond["in"] => a.type = "k" /\ a.val \notin FunctionWords
    <2>1. cond["in"] = (a.type = "k" /\ a.val \in {"IN", "NOT IN"})
        BY <1>2 DEF PairCondition
    <2> HIDE DEF cond
    <2> QED BY <2>1 DEF FunctionWords
<1>6. cond["like"] => a.type = "o"
    BY <1>2 DEF PairCondition
<1>7. cond["collate"] => b.type = "n"
    BY <1>2 DEF PairCondition
<1>8. cond["backslash"] => a.type = "\\"
    BY <1>2 DEF PairCondition
<1>9. TripleRule = "user call" => a.type = "f"
    <2>1. TripleRule # "none" => triple[TripleRule]
        <3>1. DOMAIN TripleOrder \subseteq Nat
            BY DEF TripleOrder
        <3> HIDE DEF triple
        <3>2. TripleRule = FirstRule(TripleOrder, triple)
            BY DEF TripleRule, triple
        <3> QED BY <3>1, <3>2, FirstRuleHolds
    <2>2. "user call" \in {TripleOrder[i] : i \in DOMAIN TripleOrder}
        <3>1. 14 \in DOMAIN TripleOrder /\ TripleOrder[14] = "user call"
            BY DEF TripleOrder
        <3> QED BY <3>1
    <2>3. triple["user call"] => a.type = "f"
        BY <2>2 DEF TripleCondition
    <2> HIDE DEF triple
    <2> QED BY <2>1, <2>3
<1> HIDE DEF cond
<1> QED BY <1>1, <1>3, <1>4, <1>5, <1>6, <1>7, <1>8, <1>9 DEF RulesKnow

(* Giving one token another type, with the stack as high as it was: which  *)
(* of the two sets stays as it is and which gets smaller.                  *)
LEMMA RetypedSets ==
    ASSUME Inv, NEW k \in Slots, k < pos, NEW u \in TokenTypes,
           tokenvec' = Retyped(k, u), pos' = pos
    PROVE  /\ u # "\\" /\ tokenvec[k].type # "\\" => Backslashes' = Backslashes
           /\ u # "t" /\ tokenvec[k].type # "t" => NotSqlTypes' = NotSqlTypes
           /\ u # "\\" /\ tokenvec[k].type = "\\" =>
                 Backslashes' \subseteq Backslashes /\ Backslashes' # Backslashes
           /\ u = "t" /\ tokenvec[k].type # "t" =>
                 NotSqlTypes' \subseteq NotSqlTypes /\ NotSqlTypes' # NotSqlTypes
<1>1. \A i \in Slots : tokenvec'[i].type = IF i = k THEN u ELSE tokenvec[i].type
    <2>1. tokenvec \in [Slots -> Token \cup {NoToken}] /\ tokenvec[k] \in Token
        BY EditsAreProper DEF Inv, TypeOK
    <2>2. Retyped(k, u) = [tokenvec EXCEPT ![k] = [tokenvec[k] EXCEPT !.type = u]]
        BY <2>1 DEF Retyped
    <2>3. [tokenvec[k] EXCEPT !.type = u].type = u
        BY <2>1 DEF Token
    <2> QED BY <2>1, <2>2, <2>3
<1> DEFINE S == {i \in Slots : i < pos}
<1>2. k \in S
    OBVIOUS
<1>3. Stacked = S /\ Stacked' = S
    BY DEF Stacked
<1>4. /\ Backslashes = {i \in S : tokenvec[i].type = "\\"}
      /\ NotSqlTypes = {i \in S : tokenvec[i].type # "t"}
      /\ Backslashes' = {i \in S : tokenvec'[i].type = "\\"}
      /\ NotSqlTypes' = {i \in S : tokenvec'[i].type # "t"}
    BY <1>3 DEF Backslashes, NotSqlTypes
<1>5. \A i \in S : tokenvec'[i].type = IF i = k THEN u ELSE tokenvec[i].type
    BY <1>1
<1> HIDE DEF S
<1> QED BY <1>2, <1>4, <1>5

(* With the array and the height of the stack as they were, they are too.  *)
LEMMA SameSets ==
    ASSUME tokenvec' = tokenvec, pos' = pos
    PROVE  Backslashes' = Backslashes /\ NotSqlTypes' = NotSqlTypes
BY DEF Backslashes, NotSqlTypes, Stacked

(* A step that leaves the place in the loop in it and the reading alone,   *)
(* and takes something off the stack, gets nearer.                         *)
LEMMA DropIsNearer ==
    ASSUME Inv, pc \in {"two", "three"}, NEW vec, NEW dropped \in 1 .. 3, NEW newLeft,
           Rewrite(vec, dropped, newLeft, "top")
    PROVE  Nearer
<1>1. UNCHANGED <<Phase, read, more>>
    BY DEF Rewrite, Phase
<1>2. pos' < pos
    BY DEF Rewrite, Inv, TypeOK
<1> QED BY <1>1, <1>2 DEF Nearer

(* One that takes nothing off gets nearer if it retypes or looks on.       *)
LEMMA KeepIsNearer ==
    ASSUME Inv, pc \in {"two", "three"}, NEW vec, NEW newLeft, NEW next \in {"top", "three"},
           Rewrite(vec, 0, newLeft, next), Retypes
    PROVE  Nearer
<1>1. UNCHANGED <<Phase, read, more>>
    BY DEF Rewrite, Phase
<1>2. pos' = pos
    BY DEF Rewrite, Inv, TypeOK
<1> QED BY <1>1, <1>2 DEF Nearer

(* What two tokens are like to which a rule for IF, IN or a function word  *)
(* applies.                                                                *)
Retypable ==
    \/ /\ tokenvec[left].type \notin {"n", "v", "k", "f", "o"}
       /\ tokenvec[left + 1].type = "f"
    \/ tokenvec[left].type \in {"n", "v"} /\ tokenvec[left].val \in FunctionWords
    \/ tokenvec[left].type = "k" /\ tokenvec[left].val \notin FunctionWords

(* They are like that if one of them does.                                 *)
LEMMA RetypableIfRetyped == WillRetype => Retypable
BY RulesDoKnow, Zenon DEF WillRetype, RulesKnow, Retypable

(* Once such a rule has been applied, none applies to the same two tokens. *)
LEMMA RetypedOnce ==
    ASSUME Inv, PairReady, WillRetype, NEW k \in {left, left + 1}, NEW u \in {"T", "f", "o", "n"},
           Rewrite(Retyped(k, u), 0, left, "top"),
           \/ k = left + 1 /\ u = "T" /\ tokenvec[k].type = "f"
                 /\ tokenvec[left].type \notin {"n", "v", "k", "f", "o"}
           \/ k = left /\ u = "f" /\ tokenvec[k].type \in {"n", "v"}
           \/ k = left /\ u \in {"o", "n"} /\ tokenvec[k].type = "k"
                 /\ tokenvec[left].val \notin FunctionWords
    PROVE  Nearer
<1>1. /\ pc \in {"two", "three"} /\ pos \in Nat /\ left \in Nat /\ left + 2 <= pos
      /\ left \in Slots /\ left + 1 \in Slots /\ left < pos /\ left + 1 < pos
    BY PairWindow
<1>2. /\ tokenvec' = Retyped(k, u) /\ pos' = pos /\ left' = left
    <2>1. tokenvec' = Retyped(k, u) /\ pos' = pos - 0 /\ left' = left
        BY Zenon DEF Rewrite
    <2> QED BY <1>1, <2>1
<1>3. /\ k \in Slots /\ k < pos /\ u \in TokenTypes /\ u \notin {"\\", "t"}
    <2>1. {"T", "f", "o", "n"} \subseteq TokenTypes \ {"\\", "t"}
        BY DEF TokenTypes
    <2> QED BY <1>1, <2>1
<1>4. tokenvec[k].type \notin {"\\", "t"}
    OBVIOUS
<1>5. UNCHANGED <<Backslashes, NotSqlTypes>>
    BY <1>2, <1>3, <1>4, RetypedSets
<1>6. UNCHANGED Unlooked
    BY <1>2 DEF Unlooked
<1>7. \A i \in Slots : /\ tokenvec'[i].type = IF i = k THEN u ELSE tokenvec[i].type
                       /\ tokenvec'[i].val = tokenvec[i].val
    <2>1. tokenvec \in [Slots -> Token \cup {NoToken}] /\ tokenvec[k] \in Token
        BY <1>3, EditsAreProper DEF Inv, TypeOK
    <2>2. Retyped(k, u) = [tokenvec EXCEPT ![k] = [tokenvec[k] EXCEPT !.type = u]]
        BY <2>1 DEF Retyped
    <2>3. /\ [tokenvec[k] EXCEPT !.type = u].type = u
          /\ [tokenvec[k] EXCEPT !.type = u].val = tokenvec[k].val
        BY <2>1 DEF Token
    <2> QED BY <1>2, <1>3, <2>1, <2>2, <2>3
<1>8. ~ WillRetype'
    <2>1. WillRetype' => Retypable'
        BY RetypableIfRetyped, PTL
    <2>2. ~ Retypable'
        BY <1>1, <1>2, <1>7 DEF Retypable
    <2> QED BY <2>1, <2>2
<1>9. Retypes
    BY <1>5, <1>6, <1>8 DEF Retypes, LooksOn
<1> QED BY <1>1, <1>9, KeepIsNearer

(* Rules for two tokens that leave them as they are look at three.         *)
LEMMA LookOnIsNearer ==
    ASSUME Inv, PairReady, Rewrite(tokenvec, 0, left, "three")
    PROVE  Nearer
<1>1. pc = "two" /\ pos \in Nat
    BY DEF PairReady, Inv, TypeOK
<1>2. tokenvec' = tokenvec /\ pos' = pos /\ left' = left /\ pc' = "three"
    <2>1. tokenvec' = tokenvec /\ pos' = pos - 0 /\ left' = left /\ pc' = "three"
        BY Zenon DEF Rewrite
    <2> QED BY <1>1, <2>1
<1>3. UNCHANGED <<Backslashes, NotSqlTypes>>
    BY <1>2, SameSets
<1>4. UNCHANGED Unlooked
    BY <1>2 DEF Unlooked
<1>5. WillRetype' <=> WillRetype
    BY <1>2, Zenon DEF WillRetype, PairRule
<1>6. Stage' < Stage
    BY <1>1, <1>2 DEF Stage
<1>7. Retypes
    BY <1>3, <1>4, <1>5, <1>6 DEF Retypes, LooksOn
<1> QED BY <1>1, <1>7, KeepIsNearer

(* LIKE before a parenthesis becomes a function, and is not retyped again. *)
LEMMA LikeIsNearer ==
    ASSUME Inv, LikeIsFunction
    PROVE  Nearer
<1>1. /\ pc = "two" /\ pos \in Nat /\ left \in Nat /\ left \in Slots /\ left < pos
      /\ left + 1 \in Slots /\ left + 1 # left
    <2>1. PairReady
        BY DEF LikeIsFunction
    <2>2. pc = "two"
        BY <2>1 DEF PairReady
    <2> QED BY <2>1, <2>2, PairWindow
<1>2. PairReady /\ PairRule = "like"
    BY DEF LikeIsFunction
<1>3. CASE Rewrite(tokenvec, 0, left, "three")
    BY <1>2, <1>3, LookOnIsNearer
<1>4. CASE Rewrite(Retyped(left, "f"), 0, left, "three")
    <2>1. tokenvec[left].type = "o"
        BY <1>2, LookingOn
    <2>2. tokenvec' = Retyped(left, "f") /\ pos' = pos /\ left' = left /\ pc' = "three"
        <3>1. tokenvec' = Retyped(left, "f") /\ pos' = pos - 0 /\ left' = left /\ pc' = "three"
            BY <1>4, Zenon DEF Rewrite
        <3> QED BY <1>1, <3>1
    <2>3. "f" \in TokenTypes
        BY DEF TokenTypes
    <2>4. UNCHANGED <<Backslashes, NotSqlTypes>>
        BY <1>1, <2>1, <2>2, <2>3, RetypedSets
    <2>5. UNCHANGED Unlooked
        BY <2>2 DEF Unlooked
    <2>6. ~ WillRetype
        BY <1>2, Zenon DEF WillRetype
    <2>7. ~ WillRetype'
        <3>1. WillRetype' => Retypable'
            BY RetypableIfRetyped, PTL
        <3>2. tokenvec'[left].type = "f"
            <4>1. tokenvec \in [Slots -> Token \cup {NoToken}] /\ tokenvec[left] \in Token
                BY <1>1, EditsAreProper DEF Inv, TypeOK
            <4>2. Retyped(left, "f") =
                    [tokenvec EXCEPT ![left] = [tokenvec[left] EXCEPT !.type = "f"]]
                BY <4>1 DEF Retyped
            <4>3. [tokenvec[left] EXCEPT !.type = "f"].type = "f"
                BY <4>1 DEF Token
            <4> QED BY <1>1, <2>2, <4>1, <4>2, <4>3
        <3>3. ~ Retypable'
            BY <2>2, <3>2 DEF Retypable
        <3> QED BY <3>1, <3>3
    <2>8. Stage' < Stage
        BY <1>1, <2>2 DEF Stage
    <2>9. Retypes
        BY <2>4, <2>5, <2>6, <2>7, <2>8 DEF Retypes, LooksOn
    <2> QED BY <1>1, <1>4, <2>9, KeepIsNearer
<1>5. \/ Rewrite(tokenvec, 0, left, "three")
      \/ Rewrite(Retyped(left, "f"), 0, left, "three")
    BY DEF LikeIsFunction
<1> QED BY <1>3, <1>4, <1>5

(* Every rule for two tokens that goes on gets nearer.                     *)
LEMMA PairIsNearer ==
    ASSUME Inv,
           \/ DropRepeated \/ DropAndRestart \/ DropUnaryInParens \/ MergeWords
           \/ IfStatement \/ WordIsFunction \/ InIsOperator \/ LikeIsFunction
           \/ DropSqlType \/ Collation \/ Backslash \/ StripBrace \/ NoPairRule
    PROVE  Nearer
<1>1. PairReady
    BY DEF DropRepeated, DropAndRestart, DropUnaryInParens, MergeWords, IfStatement,
           WordIsFunction, InIsOperator, LikeIsFunction, DropSqlType, Collation,
           Backslash, StripBrace, NoPairRule
<1>2. /\ pc = "two" /\ pc \in {"two", "three"} /\ pos \in Nat /\ left \in Nat /\ left + 2 <= pos
      /\ left \in Slots /\ left + 1 \in Slots /\ left < pos /\ left + 1 < pos
    <2>1. pc = "two"
        BY <1>1 DEF PairReady
    <2> QED BY <1>1, <2>1, PairWindow
<1>3. RulesKnow
    BY RulesDoKnow
<1>4. \A vec, newLeft : Rewrite(vec, 1, newLeft, "top") \/ Rewrite(vec, 2, newLeft, "top") => Nearer
    BY <1>2, DropIsNearer
<1>5. CASE DropRepeated
    BY <1>4, <1>5, Zenon DEF DropRepeated
<1>6. CASE DropAndRestart
    BY <1>4, <1>6, Zenon DEF DropAndRestart
<1>7. CASE DropUnaryInParens
    BY <1>4, <1>7, Zenon DEF DropUnaryInParens
<1>8. CASE MergeWords
    BY <1>4, <1>8, Zenon DEF MergeWords
<1>9. CASE DropSqlType
    BY <1>4, <1>9, Zenon DEF DropSqlType
<1>10. CASE StripBrace
    BY <1>4, <1>10, Zenon DEF StripBrace
<1>11. CASE IfStatement \/ WordIsFunction \/ InIsOperator
    <2>1. WillRetype
        <3>1. PairRule \in {"if statement", "function word", "in"}
            BY <1>11, Zenon DEF IfStatement, WordIsFunction, InIsOperator
        <3>2. pos - left >= 2
            BY <1>1, Zenon DEF PairReady
        <3> QED BY <3>1, <3>2, Zenon DEF WillRetype
    <2>2. CASE IfStatement
        <3>1. /\ tokenvec[left + 1].type = "f"
              /\ tokenvec[left].type \notin {"n", "v", "k", "f", "o"}
            BY <1>3, <2>2, Zenon DEF IfStatement, RulesKnow
        <3>2. Rewrite(Retyped(left + 1, "T"), 0, left, "top")
            BY <2>2 DEF IfStatement
        <3> QED BY <1>1, <2>1, <3>1, <3>2, RetypedOnce
    <2>3. CASE WordIsFunction
        <3>1. tokenvec[left].type \in {"n", "v"}
            BY <1>3, <2>3, Zenon DEF WordIsFunction, RulesKnow
        <3>2. Rewrite(Retyped(left, "f"), 0, left, "top")
            BY <2>3 DEF WordIsFunction
        <3> QED BY <1>1, <2>1, <3>1, <3>2, RetypedOnce
    <2>4. CASE InIsOperator
        <3>1. tokenvec[left].type = "k" /\ tokenvec[left].val \notin FunctionWords
            BY <1>3, <2>4, Zenon DEF InIsOperator, RulesKnow
        <3>2. \/ Rewrite(Retyped(left, "o"), 0, left, "top")
              \/ Rewrite(Retyped(left, "n"), 0, left, "top")
            BY <2>4 DEF InIsOperator
        <3> QED BY <1>1, <2>1, <3>1, <3>2, RetypedOnce
    <2> QED BY <1>11, <2>2, <2>3, <2>4
<1>12. CASE LikeIsFunction
    BY <1>12, LikeIsNearer
<1>13. CASE Collation
    <2>1. CASE Rewrite(Retyped(left + 1, "t"), 0, 0, "three")
        <3>1. tokenvec[left + 1].type = "n"
            BY <1>3, <1>13, Zenon DEF Collation, RulesKnow
        <3>2. tokenvec' = Retyped(left + 1, "t") /\ pos' = pos
            <4>1. tokenvec' = Retyped(left + 1, "t") /\ pos' = pos - 0
                BY <2>1, Zenon DEF Rewrite
            <4> QED BY <1>2, <4>1
        <3>3. "t" \in TokenTypes
            BY DEF TokenTypes
        <3>4. /\ UNCHANGED Backslashes
              /\ NotSqlTypes' \subseteq NotSqlTypes /\ NotSqlTypes' # NotSqlTypes
            BY <1>2, <3>1, <3>2, <3>3, RetypedSets
        <3>5. Retypes
            BY <3>4 DEF Retypes
        <3> QED BY <1>2, <2>1, <3>5, KeepIsNearer
    <2>2. CASE Rewrite(tokenvec, 0, left, "three")
        BY <1>1, <2>2, LookOnIsNearer
    <2> QED BY <1>13, <2>1, <2>2 DEF Collation
<1>14. CASE Backslash
    <2>1. CASE Rewrite(Retyped(left, "1"), 0, 0, "top")
        <3>1. tokenvec[left].type = "\\"
            BY <1>3, <1>14, Zenon DEF Backslash, RulesKnow
        <3>2. tokenvec' = Retyped(left, "1") /\ pos' = pos
            <4>1. tokenvec' = Retyped(left, "1") /\ pos' = pos - 0
                BY <2>1, Zenon DEF Rewrite
            <4> QED BY <1>2, <4>1
        <3>3. "1" \in TokenTypes
            BY DEF TokenTypes
        <3>4. Backslashes' \subseteq Backslashes /\ Backslashes' # Backslashes
            BY <1>2, <3>1, <3>2, <3>3, RetypedSets
        <3>5. Retypes
            BY <3>4 DEF Retypes
        <3> QED BY <1>2, <2>1, <3>5, KeepIsNearer
    <2>2. CASE Rewrite(Copied(left, left + 1), 1, 0, "top")
        BY <1>4, <2>2
    <2> QED BY <1>14, <2>1, <2>2 DEF Backslash
<1>15. CASE NoPairRule
    BY <1>1, <1>15, LookOnIsNearer DEF NoPairRule
<1> QED BY <1>5, <1>6, <1>7, <1>8, <1>9, <1>10, <1>11, <1>12, <1>13, <1>14, <1>15

(* Every rule for three tokens gets nearer: those that take nothing off    *)
(* move the window up.                                                     *)
LEMMA TripleIsNearer ==
    ASSUME Inv, DropTwo \/ DropMiddle \/ DropListItem \/ UserIsWord \/ NoTripleRule
    PROVE  Nearer
<1>1. TripleReady
    BY DEF DropTwo, DropMiddle, DropListItem, UserIsWord, NoTripleRule
<1>2. /\ pc \in {"two", "three"} /\ pos \in Nat /\ left \in Nat /\ left + 3 <= pos
      /\ left \in Slots /\ left < pos
    BY <1>1, TripleWindow
<1>3. ASSUME UNCHANGED <<Backslashes, NotSqlTypes>>, pos' = pos, left' = left + 1
      PROVE  Retypes
    <2>1. Unlooked' < Unlooked
        BY <1>2, <1>3 DEF Unlooked
    <2> QED BY <1>3, <2>1 DEF Retypes, LooksOn
<1>4. ASSUME Rewrite(tokenvec, 0, left + 1, "top") PROVE Nearer
    <2>1. tokenvec' = tokenvec /\ pos' = pos /\ left' = left + 1
        <3>1. tokenvec' = tokenvec /\ pos' = pos - 0 /\ left' = left + 1
            BY <1>4, Zenon DEF Rewrite
        <3> QED BY <1>2, <3>1
    <2>2. Retypes
        BY <1>3, <2>1, SameSets
    <2> QED BY <1>2, <1>4, <2>2, KeepIsNearer
<1>5. \A vec, newLeft :
        (\E dropped \in 1 .. 3 : Rewrite(vec, dropped, newLeft, "top")) => Nearer
    BY <1>2, DropIsNearer
<1>6. CASE DropTwo
    <2>1. Rewrite(tokenvec, 2, 0, "top")
        BY <1>6, Zenon DEF DropTwo
    <2> QED BY <1>5, <2>1
<1>7. CASE DropMiddle
    <2>1. Rewrite(Copied(left + 1, left + 2), 1, 0, "top")
        BY <1>7, Zenon DEF DropMiddle
    <2> QED BY <1>5, <2>1
<1>8. CASE DropListItem
    <2>1. Rewrite(Copied(left + 1, left + 2), 3, 0, "top")
        BY <1>8, Zenon DEF DropListItem
    <2> QED BY <1>5, <2>1
<1>9. CASE NoTripleRule
    BY <1>4, <1>9, Zenon DEF NoTripleRule
<1>10. CASE UserIsWord
    <2>1. \/ Rewrite(tokenvec, 0, left + 1, "top")
          \/ Rewrite(Retyped(left, "n"), 0, left + 1, "top")
        BY <1>10, Zenon DEF UserIsWord
    <2>2. CASE Rewrite(Retyped(left, "n"), 0, left + 1, "top")
        <3>1. tokenvec[left].type = "f"
            <4>1. RulesKnow
                BY RulesDoKnow
            <4> QED BY <1>10, <4>1, Zenon DEF UserIsWord, RulesKnow
        <3>2. tokenvec' = Retyped(left, "n") /\ pos' = pos /\ left' = left + 1
            <4>1. tokenvec' = Retyped(left, "n") /\ pos' = pos - 0 /\ left' = left + 1
                BY <2>2, Zenon DEF Rewrite
            <4> QED BY <1>2, <4>1
        <3>3. "n" \in TokenTypes
            BY DEF TokenTypes
        <3>4. UNCHANGED <<Backslashes, NotSqlTypes>>
            BY <1>2, <3>1, <3>2, <3>3, RetypedSets
        <3>5. Retypes
            BY <1>3, <3>2, <3>4
        <3> QED BY <1>2, <2>2, <3>5, KeepIsNearer
    <2> QED BY <1>4, <2>1, <2>2
<1> QED BY <1>6, <1>7, <1>8, <1>9, <1>10

-----------------------------------------------------------------------------
(* Reading a token, and reading that there is none.                        *)
LEMMA ReadIsNearer ==
    ASSUME Inv, (\E t \in Tokens : Skip(t) \/ Fetch(t)) \/ FetchEnd
    PROVE  Nearer
<1>1. ASSUME NEW t \in Tokens, Skip(t) PROVE Nearer
    <2>1. Phase = 2 /\ Phase' = 2 /\ read' = read + 1
        BY <1>1 DEF Skip, Tokenize, Phase
    <2> QED BY <2>1 DEF Nearer
<1>2. ASSUME NEW t \in Tokens, Fetch(t) PROVE Nearer
    <2>1. UNCHANGED Phase /\ read' = read + 1
        BY <1>2 DEF Fetch, Tokenize, Phase
    <2> QED BY <2>1 DEF Nearer
<1>3. CASE FetchEnd
    <2>1. UNCHANGED <<Phase, read>> /\ more /\ ~ more'
        BY <1>3 DEF FetchEnd, Wanting, TokenizeEnd, Phase
    <2> QED BY <2>1 DEF Nearer
<1> QED BY <1>1, <1>2, <1>3

(* The three ways out of the function.                                     *)
LEMMA ReturnIsNearer ==
    ASSUME SkipToEnd \/ EvilBrace \/ Finish
    PROVE  Nearer
<1>1. CASE SkipToEnd
    BY <1>1 DEF SkipToEnd, Nearer, Phase
<1>2. CASE EvilBrace
    <2>1. pc = "two" /\ pc' = "done"
        BY <1>2 DEF EvilBrace, PairReady
    <2> QED BY <2>1 DEF Nearer, Phase
<1>3. CASE Finish
    BY <1>3 DEF Finish, Nearer, Phase
<1> QED BY <1>1, <1>2, <1>3

(* A window that cannot be filled is given up: either it held tokens that  *)
(* have now been looked at, or the head of the loop is about to end it.    *)
LEMMA TooFewIsNearer ==
    ASSUME Inv, TooFew
    PROVE  Nearer
<1>1. /\ pc \in {"two", "three"} /\ pc' = "top" /\ pos \in Nat /\ left \in Nat /\ left <= pos
      /\ ~ more \/ pos > 5
    BY DEF TooFew, Settled, Wanting, Inv, TypeOK, WindowInBounds, MAX_TOKENS
<1>2. UNCHANGED <<tokenvec, pos, read, more>> /\ left' = pos
    BY DEF TooFew
<1>3. UNCHANGED <<Phase, read, more, pos>>
    BY <1>1, <1>2 DEF Phase
<1>4. UNCHANGED <<Backslashes, NotSqlTypes>>
    BY <1>2, SameSets
<1>5. LooksOn
    <2>1. CASE left < pos
        <3>1. Unlooked' < Unlooked
            BY <1>1, <1>2, <2>1 DEF Unlooked
        <3> QED BY <3>1 DEF LooksOn
    <2>2. CASE left = pos
        <3>1. UNCHANGED Unlooked
            BY <1>2, <2>2 DEF Unlooked
        <3>2. ~ WillRetype /\ ~ WillRetype'
            <4>1. ~ (pos - left >= 2) /\ ~ (pos' - left' >= 2)
                BY <1>1, <1>2, <2>2
            <4> QED BY <4>1, Zenon DEF WillRetype
        <3>3. Stage' < Stage
            <4>1. Stage' = 0
                BY <1>1, <1>2 DEF Stage, MAX_TOKENS
            <4>2. Stage > 0
                BY <1>1 DEF Stage
            <4> QED BY <4>1, <4>2
        <3> QED BY <3>1, <3>2, <3>3 DEF LooksOn
    <2> QED BY <1>1, <2>1, <2>2
<1> QED BY <1>3, <1>4, <1>5 DEF Nearer, Retypes

(* The head of the loop ends it, cuts the stack or goes on to the rules.   *)
LEMMA TopIsNearer ==
    ASSUME Inv, Top
    PROVE  Nearer
<1> DEFINE cut == pos >= MAX_TOKENS /\ FiveTokenCase
<1>1. pc = "top" /\ Phase = 2 /\ pos \in Nat /\ UNCHANGED <<read, more>>
    BY DEF Top, Phase, Inv, TypeOK
<1>2. CASE pc' = "finish"
    BY <1>1, <1>2 DEF Nearer, Phase
<1>3. CASE pc' = "two" /\ cut
    <2>1. pos' < pos
        BY <1>1, <1>3 DEF Top, MAX_TOKENS
    <2> QED BY <1>1, <1>3, <2>1 DEF Nearer, Phase
<1>4. CASE pc' = "two" /\ ~ cut
    <2>1. UNCHANGED <<tokenvec, pos, left>> /\ more /\ left < MAX_TOKENS
        BY <1>4 DEF Top
    <2>2. UNCHANGED <<Backslashes, NotSqlTypes, Unlooked>>
        BY <2>1, SameSets DEF Unlooked
    <2>3. WillRetype' <=> WillRetype
        BY <2>1, Zenon DEF WillRetype, PairRule
    <2>4. Stage' < Stage
        BY <1>1, <1>4, <2>1 DEF Stage
    <2> QED BY <1>1, <1>4, <2>1, <2>2, <2>3, <2>4 DEF Nearer, Retypes, LooksOn, Phase
<1> QED
    <2>1. pc' = "finish" \/ pc' = "two"
        BY DEF Top
    <2> QED BY <1>2, <1>3, <1>4, <2>1

(* So does every step.                                                     *)
LEMMA StepIsNearer ==
    ASSUME Inv, Next
    PROVE  Nearer
<1>1. CASE Rule
    BY <1>1, PairIsNearer, TripleIsNearer, ReturnIsNearer DEF Rule
<1>2. CASE ~ Rule
    BY <1>2, ReadIsNearer, ReturnIsNearer, TopIsNearer, TooFewIsNearer DEF Next
<1> QED BY <1>1, <1>2

(* No more is read than there is.                                          *)
LEMMA StepUnread == Inv /\ Unread /\ [Next]_vars => Unread'
<1> SUFFICES ASSUME Inv, Unread, [Next]_vars PROVE Unread'
    OBVIOUS
<1>1. read \in Nat
    BY DEF Inv, TypeOK
<1>2. ASSUME NEW t \in Tokens, Skip(t) \/ Fetch(t) PROVE Unread'
    BY <1>1, <1>2, MaxReadAssumption DEF Skip, Fetch, Tokenize, Unread
<1>3. CASE SkipToEnd \/ FetchEnd \/ Top \/ TooFew \/ Finish \/ UNCHANGED vars
    BY <1>3 DEF SkipToEnd, FetchEnd, TokenizeEnd, Top, TooFew, Finish, vars, Unread
<1>4. CASE Rule
    <2>1. UNCHANGED read
        BY <1>4 DEF Rule, Rewrite, DropRepeated, DropAndRestart, DropUnaryInParens, MergeWords,
                    IfStatement, WordIsFunction, InIsOperator, LikeIsFunction, DropSqlType,
                    Collation, Backslash, StripBrace, EvilBrace, NoPairRule,
                    DropTwo, DropMiddle, DropListItem, UserIsWord, NoTripleRule
    <2> QED BY <2>1 DEF Unread
<1> QED BY <1>2, <1>3, <1>4 DEF Next

(* libinjection_sqli_fold returns: for token streams of any length over    *)
(* any tokens and phrases, nine numbers decrease with every step it takes. *)
THEOREM FoldingReturns == Spec => FoldingAdvances
<1> DEFINE Advance == Remaining' \in [1 .. 9 -> Nat] /\ Precedes(Remaining', Remaining)
<1>1. Init => Inv /\ Unread
    <2>1. Init => Unread
        BY MaxReadAssumption DEF Init, Unread
    <2> QED BY <2>1, InitInv
<1>2. Inv /\ Unread /\ [Next]_vars => (Inv /\ Unread)'
    BY StepInv, StepUnread
<1>3. Inv /\ Unread /\ [Next]_vars => [Advance]_vars
    <2> SUFFICES ASSUME Inv, Unread, Next PROVE Advance
        OBVIOUS
    <2>1. Inv' /\ Unread'
        BY <1>2
    <2> QED BY <2>1, StepIsNearer, NearerDecreases
<1> QED BY <1>1, <1>2, <1>3, PTL DEF Spec, FoldingAdvances

=============================================================================
