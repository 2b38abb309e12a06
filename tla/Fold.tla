-------------------------------- MODULE Fold --------------------------------
(***************************************************************************)
(* libinjection_sqli_fold (utility/libinjection/libinjection_sqli.c): how  *)
(* a stream of SQL tokens is reduced, while it is being read, to the five  *)
(* or fewer whose types are the fingerprint of the input.                  *)
(*                                                                         *)
(* The tokenizer is the environment: each call returns some token or, once *)
(* the input is used up, none.  Tokens sit in tokenvec, a fixed array used *)
(* as a stack: pos is where the next one goes, the ones before left are    *)
(* settled, and the rules look at the two or three from left on.  A rule   *)
(* that fires shortens the stack from its top and moves left, often back   *)
(* to the bottom, so that the shorter stack is looked at again.            *)
(*                                                                         *)
(* A token is its type, its value in upper case, which is compared with    *)
(* words and never taken apart, and where in the input it stands and       *)
(* between which quotes, which the rules carry along and never look at.    *)
(***************************************************************************)
EXTENDS Integers, FiniteSetsExt

CONSTANTS
    Tokens,                 \* tokens the tokenizer may return
    Phrases,                \* multi-word lookup: from two values to a type and a value
    Underscored,            \* the values that contain an underscore
    MaxRead                 \* bound: tokens read in one behaviour

VARIABLES
    pc,                     \* "skip", "top", "two", "three", "finish", "done"
    tokenvec,               \* tokenvec[0 .. 7]
    pos,
    left,
    more,                   \* the tokenizer has not reported the end
    last_comment,
    read,                   \* tokens read so far
    result                  \* the return value, -1 before it is known

vars == <<pc, tokenvec, pos, left, more, last_comment, read, result>>

MAX_TOKENS == 5             \* LIBINJECTION_SQLI_MAX_TOKENS
Slots == 0 .. 7
NoText == [pos |-> 0, len |-> 0, open |-> "none", close |-> "none"]
NoToken == [type |-> "none", val |-> "", text |-> NoText]

(* sqli_token_types; "none" is TYPE_NONE, the type of a cleared slot. *)
TokenTypes == {"k", "U", "B", "E", "t", "f", "n", "1", "v", "s", "o", "&", "c",
               "A", "(", ")", "{", "}", ".", ",", ":", ";", "T", "?", "X", "\\"}
Quotes == {"none", "'", "dquote", "tick", "u", "q", "$"}
Text == [pos : Nat, len : Nat, open : Quotes, close : Quotes]
Token == [type : TokenTypes, val : STRING, text : Text]

(* Inputs are finite, of whatever length.                                  *)
ASSUME MaxReadAssumption == MaxRead \in Nat

(* What the tokenizer returns is a token, and no phrase of the table is a  *)
(* comment.                                                                *)
ASSUME TokensAssumption == Tokens \subseteq Token
ASSUME PhrasesAssumption ==
    \A words \in DOMAIN Phrases :
        Phrases[words].type \in TokenTypes \ {"c"} /\ Phrases[words].val \in STRING

-----------------------------------------------------------------------------
(* Kinds of token.  The types are the letters of sqli_token_types. *)
st_is_unary_op(t) == t.type = "o" /\ t.val \in {"+", "-", "!", "~", "!!", "NOT"}
st_is_arithmetic_op(t) == t.type = "o" /\ t.val \in {"*", "/", "-", "+", "%"}

Skippable(t) == t.type \in {"c", "(", "t"} \/ st_is_unary_op(t)

(* Words that are columns in one dialect and functions in another. *)
FunctionWords == {"USER_ID", "USER_NAME", "DATABASE", "PASSWORD", "USER",
                  "CURRENT_USER", "CURRENT_DATE", "CURRENT_TIME",
                  "CURRENT_TIMESTAMP", "LOCALTIME", "LOCALTIMESTAMP"}

(* The functions of the table that begin with IF, which is all that is     *)
(* looked at.                                                              *)
IfWords == {"IF", "IF EXISTS", "IF NOT", "IF NOT EXISTS", "IFF", "IFNULL"}

(* syntax_merge_words: is there a phrase made of these two words? *)
Mergeable == {"k", "n", "o", "U", "f", "E", "T", "t"}
syntax_merge_words(a, b) ==
    /\ a.type \in Mergeable
    /\ b.type \in Mergeable \cup {"&"}
    /\ <<a.val, b.val>> \in DOMAIN Phrases
Merged(a, b) ==
    [ type |-> Phrases[<<a.val, b.val>>].type,
      val  |-> Phrases[<<a.val, b.val>>].val,
      text |-> [a.text EXCEPT !.len = a.text.len + b.text.len + 1] ]

(* Five tokens that make one more look worth while: (1), a function of one *)
(* argument, and their like, after which the stack is cut to its bottom.   *)
FiveTokenCase ==
    LET type(i) == tokenvec[i].type
    IN  \/ /\ type(0) = "1" /\ type(1) \in {"o", ","} /\ type(2) = "("
           /\ type(3) = "1" /\ type(4) = ")"
        \/ /\ type(0) = "n" /\ type(1) = "o" /\ type(2) = "("
           /\ type(3) \in {"n", "1"} /\ type(4) = ")"
        \/ /\ type(0) = "1" /\ type(1) = ")" /\ type(2) = ","
           /\ type(3) = "(" /\ type(4) = "1"
        \/ /\ type(0) = "n" /\ type(1) = ")" /\ type(2) = "o"
           /\ type(3) = "(" /\ type(4) = "n"

(* The conditions on two tokens, in the order the code tries them.  A      *)
(* condition holds for a rule even if the rule then changes nothing.       *)
PairOrder_NoRightParens ==
    <<"strings", "semicolons", "operator unary", "paren unary", "phrase",
      "if statement", "function word", "in", "like", "sqltype", "collate",
      "backslash", "left parens", "brace word", "right brace">>
PairOrder ==
    <<"strings", "semicolons", "operator unary", "paren unary", "phrase",
      "if statement", "function word", "in", "like", "sqltype", "collate",
      "backslash", "left parens", "right parens", "brace word", "right brace">>
PairCondition(a, b) ==
    [r \in {PairOrder[i] : i \in DOMAIN PairOrder} |->
        CASE r = "strings"        -> a.type = "s" /\ b.type = "s"
          [] r = "semicolons"     -> a.type = ";" /\ b.type = ";"
          [] r = "operator unary" -> a.type \in {"o", "&"} /\ (st_is_unary_op(b) \/ b.type = "t")
          [] r = "paren unary"    -> a.type = "(" /\ st_is_unary_op(b)
          [] r = "phrase"         -> syntax_merge_words(a, b)
          [] r = "if statement"   -> a.type = ";" /\ b.type = "f" /\ b.val \in IfWords
          [] r = "function word"  -> a.type \in {"n", "v"} /\ a.val \in FunctionWords /\ b.type = "("
          [] r = "in"             -> a.type = "k" /\ a.val \in {"IN", "NOT IN"}
          [] r = "like"           -> a.type = "o" /\ a.val \in {"LIKE", "NOT LIKE"}
          [] r = "sqltype"        -> a.type = "t" /\ b.type \in {"n", "1", "t", "(", "f", "v", "s"}
          [] r = "collate"        -> a.type = "A" /\ b.type = "n"
          [] r = "backslash"      -> a.type = "\\"
          [] r = "left parens"    -> a.type = "(" /\ b.type = "("
          [] r = "right parens"   -> a.type = ")" /\ b.type = ")"
          [] r = "brace word"     -> a.type = "{" /\ b.type = "n"
          [] r = "right brace"    -> b.type = "}"]

(* The conditions on three tokens, in order. *)
Operand == {"1", "n", "v", "s"}
TripleOrder ==
    <<"arithmetic", "operators", "logic", "variable", "comparison", "cast", "list",
      "unary paren", "unary operand", "unary in list", "unary function",
      "dotted", "select dot", "user call">>
TripleCondition(a, b, c) ==
    [r \in {TripleOrder[i] : i \in DOMAIN TripleOrder} |->
        CASE r = "arithmetic"     -> a.type = "1" /\ b.type = "o" /\ c.type = "1"
          [] r = "operators"      -> a.type = "o" /\ b.type # "(" /\ c.type = "o"
          [] r = "logic"          -> a.type = "&" /\ c.type = "&"
          [] r = "variable"       -> a.type = "v" /\ b.type = "o" /\ c.type \in {"v", "1", "n"}
          [] r = "comparison"     -> a.type \in {"n", "1"} /\ b.type = "o" /\ c.type \in {"1", "n"}
          [] r = "cast"           -> a.type \in Operand /\ b.type = "o" /\ b.val = "::" /\ c.type = "t"
          [] r = "list"           -> a.type \in Operand /\ b.type = "," /\ c.type \in Operand
          [] r = "unary paren"    -> a.type \in {"E", "B", ","} /\ st_is_unary_op(b) /\ c.type = "("
          [] r = "unary operand"  -> a.type \in {"k", "E", "B"} /\ st_is_unary_op(b)
                                       /\ c.type \in Operand \cup {"f"}
          [] r = "unary in list"  -> a.type = "," /\ st_is_unary_op(b) /\ c.type \in Operand
          [] r = "unary function" -> a.type = "," /\ st_is_unary_op(b) /\ c.type = "f"
          [] r = "dotted"         -> a.type = "n" /\ b.type = "." /\ c.type = "n"
          [] r = "select dot"     -> a.type = "E" /\ b.type = "." /\ c.type = "n"
          [] r = "user call"      -> a.type = "f" /\ b.type = "(" /\ c.type # ")"]

(* The rule an else-if chain takes: the first whose condition holds. *)
FirstRule(order, condition) ==
    LET holds == {i \in DOMAIN order : condition[order[i]]}
    IN  IF holds = {} THEN "none" ELSE order[Min(holds)]

PairRule == FirstRule(PairOrder, PairCondition(tokenvec[left], tokenvec[left + 1]))
TripleRule ==
    FirstRule(TripleOrder,
              TripleCondition(tokenvec[left], tokenvec[left + 1], tokenvec[left + 2]))

-----------------------------------------------------------------------------
Init ==
    /\ pc = "skip"
    /\ tokenvec = [i \in Slots |-> NoToken]
    /\ pos = 0
    /\ left = 0
    /\ more = TRUE
    /\ last_comment = NoToken
    /\ read = 0
    /\ result = -1

(* libinjection_sqli_tokenize into a slot.  At the end of the input the    *)
(* slot has been cleared all the same.                                     *)
Tokenize(slot, t) ==
    /\ read < MaxRead
    /\ read' = read + 1
    /\ tokenvec' = [tokenvec EXCEPT ![slot] = t]
    /\ UNCHANGED more
TokenizeEnd(slot) ==
    /\ tokenvec' = [tokenvec EXCEPT ![slot] = NoToken]
    /\ more' = FALSE
    /\ UNCHANGED read

(* Initial comments, left parentheses, types and unary operators are       *)
(* overwritten by the token after them.                                    *)
Skip(t) ==
    /\ pc = "skip"
    /\ Tokenize(0, t)
    /\ \/ Skippable(t) /\ UNCHANGED <<pc, pos>>
       \/ ~ Skippable(t) /\ pc' = "top" /\ pos' = 1
    /\ UNCHANGED <<left, last_comment, result>>

SkipToEnd ==
    /\ pc = "skip"
    /\ TokenizeEnd(0)
    /\ pc' = "done"
    /\ result' = 0
    /\ UNCHANGED <<pos, left, last_comment>>

(* The head of the loop: the five-token cases, then the exits. *)
Top ==
    LET cut == pos >= MAX_TOKENS /\ FiveTokenCase
        newPos == IF cut THEN (IF pos > MAX_TOKENS THEN 2 ELSE 1) ELSE pos
        newLeft == IF cut THEN 0 ELSE left
    IN  /\ pc = "top"
        /\ tokenvec' = IF cut /\ pos > MAX_TOKENS
                       THEN [tokenvec EXCEPT ![1] = tokenvec[MAX_TOKENS]] ELSE tokenvec
        /\ pos' = newPos
        /\ \/ /\ ~ more \/ newLeft >= MAX_TOKENS
              /\ left' = newPos
              /\ pc' = "finish"
           \/ /\ more /\ newLeft < MAX_TOKENS
              /\ left' = newLeft
              /\ pc' = "two"
        /\ UNCHANGED <<more, last_comment, read, result>>

(* Reading until the window has the tokens the rules need. *)
Want == IF pc = "two" THEN 2 ELSE 3
Wanting_OneMore == /\ pc \in {"two", "three"}
                   /\ more /\ pos <= MAX_TOKENS + 1 /\ pos - left < Want
Wanting == /\ pc \in {"two", "three"}
           /\ more /\ pos <= MAX_TOKENS /\ pos - left < Want
Settled == pc \in {"two", "three"} /\ ~ Wanting

(* A comment is remembered, not stored; any other token forgets it. *)
Fetch_KeepsComments(t) ==
    /\ Wanting
    /\ Tokenize(pos, t)
    /\ pos' = pos + 1
    /\ UNCHANGED <<pc, left, last_comment, result>>
Fetch_OldComment(t) ==
    /\ Wanting
    /\ Tokenize(pos, t)
    /\ \/ t.type = "c" /\ last_comment' = t /\ UNCHANGED pos
       \/ t.type # "c" /\ pos' = pos + 1 /\ UNCHANGED last_comment
    /\ UNCHANGED <<pc, left, result>>
Fetch(t) ==
    /\ Wanting
    /\ Tokenize(pos, t)
    /\ \/ t.type = "c" /\ last_comment' = t /\ UNCHANGED pos
       \/ t.type # "c" /\ last_comment' = NoToken /\ pos' = pos + 1
    /\ UNCHANGED <<pc, left, result>>

FetchEnd_Counted ==
    /\ Wanting
    /\ TokenizeEnd(pos)
    /\ pos' = pos + 1
    /\ UNCHANGED <<pc, left, last_comment, result>>
FetchEnd ==
    /\ Wanting
    /\ TokenizeEnd(pos)
    /\ UNCHANGED <<pc, pos, left, last_comment, result>>

TooFew_FullWindow ==
    /\ Settled /\ pos - left < Want
    /\ left' = left + Want
    /\ pc' = "top"
    /\ UNCHANGED <<tokenvec, pos, more, last_comment, read, result>>
TooFew ==
    /\ Settled /\ pos - left < Want
    /\ left' = pos
    /\ pc' = "top"
    /\ UNCHANGED <<tokenvec, pos, more, last_comment, read, result>>

(* What a rule does: the array it leaves, how many tokens it takes off the *)
(* top, where it looks next and with how many tokens.                      *)
Rewrite(vec, dropped, newLeft, next) ==
    /\ tokenvec' = vec
    /\ pos' = pos - dropped
    /\ left' = newLeft
    /\ pc' = next
    /\ UNCHANGED <<more, last_comment, read, result>>

Retyped(slot, type) == [tokenvec EXCEPT ![slot].type = type]
Copied(to, from) == [tokenvec EXCEPT ![to] = tokenvec[from]]
BackOne_Unchecked == left - 1
BackOne == IF left > 0 THEN left - 1 ELSE 0

PairReady == pc = "two" /\ Settled /\ pos - left >= 2
TripleReady == pc = "three" /\ Settled /\ pos - left >= 3

DropRepeated ==
    /\ PairReady /\ PairRule \in {"strings", "semicolons"}
    /\ Rewrite(tokenvec, 1, left, "top")

DropAndRestart ==
    /\ PairReady
    /\ PairRule \in {"operator unary", "left parens", "right parens", "right brace"}
    /\ Rewrite(tokenvec, 1, 0, "top")

DropUnaryInParens ==
    /\ PairReady /\ PairRule = "paren unary"
    /\ Rewrite(tokenvec, 1, BackOne, "top")

MergeWords ==
    /\ PairReady /\ PairRule = "phrase"
    /\ Rewrite([tokenvec EXCEPT ![left] = Merged(tokenvec[left], tokenvec[left + 1])],
               1, BackOne, "top")

IfStatement_NotRetyped ==
    /\ PairReady /\ PairRule = "if statement"
    /\ Rewrite(tokenvec, 0, left, "top")
IfStatement ==
    /\ PairReady /\ PairRule = "if statement"
    /\ Rewrite(Retyped(left + 1, "T"), 0, left, "top")

WordIsFunction ==
    /\ PairReady /\ PairRule = "function word"
    /\ Rewrite(Retyped(left, "f"), 0, left, "top")

InIsOperator ==
    /\ PairReady /\ PairRule = "in"
    /\ Rewrite(Retyped(left, IF tokenvec[left + 1].type = "(" THEN "o" ELSE "n"),
               0, left, "top")

LikeIsFunction ==
    /\ PairReady /\ PairRule = "like"
    /\ Rewrite(IF tokenvec[left + 1].type = "(" THEN Retyped(left, "f") ELSE tokenvec,
               0, left, "three")

DropSqlType ==
    /\ PairReady /\ PairRule = "sqltype"
    /\ Rewrite(Copied(left, left + 1), 1, 0, "top")

Collation ==
    /\ PairReady /\ PairRule = "collate"
    /\ \/ /\ tokenvec[left + 1].val \in Underscored
          /\ Rewrite(Retyped(left + 1, "t"), 0, 0, "three")
       \/ /\ tokenvec[left + 1].val \notin Underscored
          /\ Rewrite(tokenvec, 0, left, "three")

Backslash ==
    /\ PairReady /\ PairRule = "backslash"
    /\ \/ /\ st_is_arithmetic_op(tokenvec[left + 1])
          /\ Rewrite(Retyped(left, "1"), 0, 0, "top")
       \/ /\ ~ st_is_arithmetic_op(tokenvec[left + 1])
          /\ Rewrite(Copied(left, left + 1), 1, 0, "top")

(* "{ foo" goes; an empty word in backquotes makes the input unparsable,   *)
(* and is the one return from inside the loop.                             *)
StripBrace ==
    /\ PairReady /\ PairRule = "brace word" /\ tokenvec[left + 1].val # ""
    /\ Rewrite(tokenvec, 2, 0, "top")

EvilBrace ==
    /\ PairReady /\ PairRule = "brace word" /\ tokenvec[left + 1].val = ""
    /\ tokenvec' = Retyped(left + 1, "X")
    /\ result' = left + 2
    /\ pc' = "done"
    /\ UNCHANGED <<pos, left, more, last_comment, read>>

NoPairRule ==
    /\ PairReady /\ PairRule = "none"
    /\ Rewrite(tokenvec, 0, left, "three")

DropTwo ==
    /\ TripleReady
    /\ TripleRule \in {"arithmetic", "operators", "logic", "variable", "comparison",
                       "cast", "list", "dotted"}
    /\ Rewrite(tokenvec, 2, 0, "top")

DropMiddle ==
    /\ TripleReady
    /\ TripleRule \in {"unary paren", "unary operand", "unary function", "select dot"}
    /\ Rewrite(Copied(left + 1, left + 2), 1, 0, "top")

DropListItem ==
    /\ TripleReady /\ TripleRule = "unary in list"
    /\ Rewrite(Copied(left + 1, left + 2), 3, 0, "top")

UserIsWord_Restarts ==
    /\ TripleReady /\ TripleRule = "user call"
    /\ Rewrite(IF tokenvec[left].val = "USER" THEN Retyped(left, "n") ELSE tokenvec,
               0, 0, "top")
UserIsWord ==
    /\ TripleReady /\ TripleRule = "user call"
    /\ Rewrite(IF tokenvec[left].val = "USER" THEN Retyped(left, "n") ELSE tokenvec,
               0, left + 1, "top")

NoTripleRule ==
    /\ TripleReady /\ TripleRule = "none"
    /\ Rewrite(tokenvec, 0, left + 1, "top")

(* A trailing comment is part of the fingerprint if there is room, and a   *)
(* sixth token, read only to settle the fifth, is not.                     *)
Finish ==
    LET comment == left < MAX_TOKENS /\ last_comment.type = "c"
        length  == IF comment THEN left + 1 ELSE left
    IN  /\ pc = "finish"
        /\ tokenvec' = IF comment THEN [tokenvec EXCEPT ![left] = last_comment] ELSE tokenvec
        /\ left' = IF length > MAX_TOKENS THEN MAX_TOKENS ELSE length
        /\ result' = left'
        /\ pc' = "done"
        /\ UNCHANGED <<pos, more, last_comment, read>>

Rule ==
    \/ DropRepeated \/ DropAndRestart \/ DropUnaryInParens \/ MergeWords
    \/ IfStatement \/ WordIsFunction \/ InIsOperator \/ LikeIsFunction
    \/ DropSqlType \/ Collation \/ Backslash \/ StripBrace \/ EvilBrace
    \/ NoPairRule
    \/ DropTwo \/ DropMiddle \/ DropListItem \/ UserIsWord \/ NoTripleRule

Next ==
    \/ \E t \in Tokens : Skip(t) \/ Fetch(t)
    \/ SkipToEnd \/ FetchEnd
    \/ Top \/ TooFew \/ Rule \/ Finish

Spec == Init /\ [][Next]_vars

(* One sequential function that runs until it returns. *)
FairSpec == Spec /\ WF_vars(Next)

-----------------------------------------------------------------------------
Pcs == {"skip", "top", "two", "three", "finish", "done"}

TypeOK ==
    /\ pc \in Pcs
    /\ tokenvec \in [Slots -> Token \cup {NoToken}]
    /\ pos \in Nat /\ left \in Nat /\ read \in Nat
    /\ more \in BOOLEAN
    /\ last_comment \in Token \cup {NoToken}
    /\ last_comment.type \in {"none", "c"}
    /\ result \in -1 .. MAX_TOKENS + 1

(* The stack stays inside its array and above its bottom: what a rule      *)
(* takes off is there to be taken, so the unsigned pos and left never wrap *)
(* around, at most one token beyond the five is held, and the fingerprint, *)
(* one character longer in the lookup, fits its eight bytes with the zero  *)
(* at its end.  It is about the lines that decrement pos and left, of      *)
(* which only two assert that there is enough to take (1813, 1836).        *)
WindowInBounds ==
    /\ 0 <= left
    /\ pc # "done" => left <= pos
    /\ 0 <= pos
    /\ pos <= MAX_TOKENS + 1
    /\ result < 7

(* Every token counted in the result is a token: a cleared slot would end  *)
(* the fingerprint early, and the lookups take its length with strlen.  It *)
(* is about slots cleared by the tokenizer at the end of the input and     *)
(* slots left over from before a fold.                                     *)
NoHoleInFingerprint ==
    /\ \A i \in Slots : i < pos => tokenvec[i].type # "none"
    /\ \A i \in Slots : i < result => tokenvec[i].type # "none"

(* A comment can only end a fingerprint.  It is about comments between     *)
(* tokens, which are kept outside the array, must be forgotten when a      *)
(* token follows and are put back at the end.                              *)
CommentEndsFingerprint ==
    \A i \in Slots : i < result - 1 => tokenvec[i].type # "c"

(* What the rules promise of the result: no repeated strings, semicolons   *)
(* or parentheses are left, wherever the folding went back and forth and   *)
(* whichever way it ended.  It is about pairs that become neighbours when  *)
(* what was between them is dropped, and about the rules that skip ahead.  *)
Twins(a, b) == a.type = b.type /\ a.type \in {"s", ";", "(", ")"}
NoTwinsLeft ==
    \A i \in Slots : i + 1 < result => ~ Twins(tokenvec[i], tokenvec[i + 1])

(* The function returns on every finite input.  It is about the rules that *)
(* move left back to the bottom, and those that change a type and back.    *)
Terminates == <>(pc = "done")

(* How far the folding is from its return: what stands earlier counts for  *)
(* more.  First what is left to read and to fold; then, since a rule that  *)
(* takes nothing off only changes types, the types that are given and not  *)
(* taken back, and how much of the stack has not been looked at.           *)
Phase == IF pc = "done" THEN 0 ELSE IF pc = "finish" THEN 1 ELSE 2
Stacked == {i \in Slots : i < pos}
Backslashes == {i \in Stacked : tokenvec[i].type = "\\"}
NotSqlTypes == {i \in Stacked : tokenvec[i].type # "t"}
Unlooked == IF left <= pos THEN pos - left ELSE 0
WillRetype ==
    pos - left >= 2 /\ PairRule \in {"if statement", "function word", "in"}
Stage == IF pc = "top" /\ more /\ left < MAX_TOKENS THEN 3
         ELSE IF pc = "two" THEN 2 ELSE IF pc = "three" THEN 1 ELSE 0
Remaining ==
    << Phase, MaxRead - read, IF more THEN 1 ELSE 0, pos,
       Cardinality(Backslashes), Cardinality(NotSqlTypes), Unlooked,
       IF WillRetype THEN 1 ELSE 0, Stage >>
Precedes(r, q) ==
    \E i \in 1 .. 9 : r[i] < q[i] /\ \A j \in 1 .. i - 1 : r[j] = q[j]

(* Every step brings the return nearer, by a measure that cannot decrease  *)
(* for ever: the loop ends for every input, whatever its length.  It is    *)
(* about the rules that go back to the bottom, those that change a type    *)
(* and look again, and the windows that cannot be filled.                  *)
FoldingAdvances ==
    [][ Remaining' \in [1 .. 9 -> Nat] /\ Precedes(Remaining', Remaining) ]_vars

(* libinjection_sqli.c:1675-1676, "for this rule we just strip away the    *)
(* '{ foo' part": the two tokens taken off are the brace and its word.     *)
StripsBraceAndWord ==
    [][ (PairReady /\ PairRule = "brace word" /\ pos' < pos) => pos = left + 2 ]_vars

=============================================================================
