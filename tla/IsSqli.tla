------------------------------- MODULE IsSqli -------------------------------
(***************************************************************************)
(* libinjection_is_sqli (libinjection_sqli.c, 1259-1290 and 1901-2310):    *)
(* the input is tokenized and folded as it is and, if that is not an       *)
(* injection, again in other contexts: as MySQL reads it, and as if it     *)
(* ended a string that was open before it began.  One state struct serves  *)
(* all of them and is reset in between.                                    *)
(*                                                                         *)
(* The tokenizer of Tokenizer takes the place of Fold's environment: each  *)
(* call the folding makes returns the next token of the input s.  Fold's   *)
(* read is stats_tokens; its pos is the stack's, the scan's is scan.       *)
(***************************************************************************)
EXTENDS Fold, Tokenizer

CONSTANTS
    Inputs,                 \* the texts to be inspected
    Fingerprints            \* the patterns in sql_keywords, such as "01&1"

VARIABLES
    s,                      \* the input
    flags,                  \* the context of this parse
    scan,                   \* sf->pos
    stats_comment_ddx,
    stats_comment_hash,
    fingerprint,            \* the types of the folded tokens
    phase,                  \* "parse", "lookup", then "sqli" or "benign"
    parses                  \* history: the parses made, and the tokens each read

stats == <<stats_comment_ddx, stats_comment_hash>>
sfVars == <<flags, scan, stats, fingerprint>>
detectVars == <<vars, s, sfVars, phase, parses>>

Contexts == [quote : {"none", "single", "double"}, dialect : {"ansi", "mysql"}]
Context(quote, dialect) == [quote |-> quote, dialect |-> dialect]

(* What the constants stand for: inputs are sequences of characters, words *)
(* and patterns strings, and no word is a comment or unparsable.           *)
ASSUME InputsAssumption ==
    /\ Inputs \subseteq Seq(STRING)
    /\ \A cs \in Inputs : \A i, j \in 0 .. Len(cs) :
          Spelling(SubSeq(cs, i + 1, j)) \in STRING
ASSUME WordsAssumption == \A w \in DOMAIN Words : Words[w] \in TokenTypes \ {"c", "X"}

Has(c) == \E i \in Offsets(s) : At(s, i) = c

-----------------------------------------------------------------------------
(* libinjection_sqli_check_fingerprint. *)

(* A fingerprint is looked up in upper case: some types share a letter.    *)
Pattern == Spelling(<<"0">> \o fingerprint)
blacklist == fingerprint # << >> /\ Pattern \in Fingerprints

(* The characters of the input, and the zero at its end. *)
CharAt(i) == IF i < Len(s) THEN At(s, i) ELSE "nul"
FirstChar(t) == IF t.text.len = 0 THEN "nul" ELSE CharAt(t.text.pos)

SpPassword == <<"s", "p", "_", "p", "a", "s", "s", "w", "o", "r", "d">>
HasSpPassword ==
    \E i \in Offsets(s) :
        /\ i + Len(SpPassword) <= Len(s)
        /\ \A k \in DOMAIN SpPassword : At(s, i + k - 1) = SpPassword[k]

(* What follows a number at which the input is read as "1c".  char is      *)
(* signed, so bytes above 127 are below 33.                                *)
EndsNumber(i) ==
    \/ CharAt(i) \in Unquoting
    \/ CharAt(i) = "/" /\ CharAt(i + 1) = "*"
    \/ CharAt(i) = "-" /\ CharAt(i + 1) = "-"
NumberAndComment(number, comment) ==
    \/ FirstChar(comment) = "/"
    \/ read > 2
    \/ EndsNumber(number.text.len)
TwoTokensCount(a, b) ==
    IF b.type = "U" THEN read # 2
    ELSE /\ FirstChar(b) # "#"
         /\ a.type = "n" /\ b.type = "c" => FirstChar(b) = "/"
         /\ a.type = "1" /\ b.type = "c" => NumberAndComment(a, b)
         /\ ~ (a.type = "1" /\ b.type = "c") => ~ (b.text.len > 2 /\ FirstChar(b) = "-")

(* "...foo' + 'bar...": the first string was open before the input, the    *)
(* last is open after it.                                                  *)
OpenStrings(a, c) ==
    /\ a.text.open = "none" /\ c.text.close = "none"
    /\ a.text.close = c.text.open
Into == <<"I", "N", "T", "O">>
IsInto(t) ==
    /\ t.text.len >= 5
    /\ \A k \in 1 .. 4 : UpperCase(CharAt(t.text.pos + k - 1)) = Into[k]
ThreeTokensCount(a, b, c) ==
    CASE fingerprint \in {<<"s", "o", "s">>, <<"s", "&", "s">>} -> OpenStrings(a, c)
      [] fingerprint \in {<<"s", "&", "n">>, <<"n", "&", "1">>, <<"1", "&", "1">>,
                          <<"1", "&", "v">>, <<"1", "&", "s">>} -> read # 3
      [] OTHER -> b.type = "k" => IsInto(b)

not_whitelist ==
    \/ Len(fingerprint) > 1 /\ fingerprint[Len(fingerprint)] = "c" /\ HasSpPassword
    \/ CASE Len(fingerprint) = 2 -> TwoTokensCount(tokenvec[0], tokenvec[1])
         [] Len(fingerprint) = 3 -> ThreeTokensCount(tokenvec[0], tokenvec[1], tokenvec[2])
         [] OTHER -> TRUE

check_fingerprint == blacklist /\ not_whitelist

-----------------------------------------------------------------------------
(* The parses. *)
DetectInit ==
    /\ Init
    /\ s \in Inputs
    /\ flags = Context("none", "ansi")
    /\ scan = 0
    /\ stats_comment_ddx = 0 /\ stats_comment_hash = 0
    /\ fingerprint = << >>
    /\ phase = IF s = << >> THEN "benign" ELSE "parse"
    /\ parses = {}

(* One call of the tokenizer, into the slot the folding gives it. *)
TokenIsRead ==
    /\ phase = "parse" /\ HasToken(s, scan, flags)
    /\ \E call \in {libinjection_sqli_tokenize(s, scan, flags)} :
           /\ Skip(call.token) \/ Fetch(call.token)
           /\ scan' = call.pos
    /\ stats_comment_ddx' = stats_comment_ddx
                              + (IF CountsDashes(s, scan, flags) THEN 1 ELSE 0)
    /\ stats_comment_hash' = stats_comment_hash
                               + (IF ~ CountsHash(s, scan, flags) THEN 0
                                  ELSE IF flags.dialect = "mysql" THEN 2 ELSE 1)
    /\ UNCHANGED <<s, flags, fingerprint, phase, parses>>

InputIsUsedUp ==
    /\ phase = "parse" /\ ~ HasToken(s, scan, flags)
    /\ SkipToEnd \/ FetchEnd
    /\ scan' = Len(s)
    /\ UNCHANGED <<s, flags, stats, fingerprint, phase, parses>>

TokensAreFolded ==
    /\ phase = "parse"
    /\ Top \/ TooFew \/ Rule \/ Finish
    /\ UNCHANGED <<s, sfVars, phase, parses>>

(* The end of libinjection_sqli_fingerprint: a last backquote that opens   *)
(* nothing is a comment, and one token that could not be parsed replaces   *)
(* them all.                                                               *)
EmptyTick(t) ==
    t.type = "n" /\ t.text.open = "tick" /\ t.text.len = 0 /\ t.text.close = "none"
FingerprintIsMade ==
    LET vec   == IF result > 2 /\ EmptyTick(tokenvec[result - 1])
                 THEN Retyped(result - 1, "c") ELSE tokenvec
        types == [i \in 1 .. result |-> vec[i - 1].type]
        evil  == \E i \in 1 .. result : types[i] = "X"
    IN  /\ phase = "parse" /\ pc = "done"
        /\ fingerprint' = IF evil THEN <<"X">> ELSE types
        /\ tokenvec' = IF evil THEN [vec EXCEPT ![0].type = "X", ![0].val = "X",
                                                ![1].type = "none"]
                       ELSE vec
        /\ phase' = "lookup"
        /\ parses' = parses \cup {[context |-> flags, read |-> read]}
        /\ UNCHANGED <<pc, pos, left, more, last_comment, read, result,
                       s, flags, scan, stats>>

reparse_as_mysql == stats_comment_ddx > 0 \/ stats_comment_hash > 0

(* libinjection_sqli_fingerprint begins with libinjection_sqli_reset, and  *)
(* the folding with nothing read.                                          *)
Cleared ==
    /\ pc' = "skip"
    /\ tokenvec' = [i \in Slots |-> NoToken]
    /\ pos' = 0
    /\ left' = 0
    /\ more' = TRUE
    /\ last_comment' = NoToken
    /\ read' = 0
    /\ result' = -1
Reset_CountersKept(context) ==
    /\ Cleared
    /\ flags' = context
    /\ scan' = 0
    /\ fingerprint' = << >>
    /\ phase' = "parse"
    /\ UNCHANGED <<s, stats, parses>>
Reset(context) ==
    /\ Cleared
    /\ flags' = context
    /\ scan' = 0
    /\ stats_comment_ddx' = 0 /\ stats_comment_hash' = 0
    /\ fingerprint' = << >>
    /\ phase' = "parse"
    /\ UNCHANGED <<s, parses>>

Declined == phase = "lookup" /\ ~ check_fingerprint
AgainAsMySQL_AnyDialect == reparse_as_mysql
AgainAsMySQL_WhenUnquoted ==
    flags = Context("none", "ansi") /\ reparse_as_mysql
AgainAsMySQL == flags.dialect = "ansi" /\ reparse_as_mysql

Positive ==
    /\ phase = "lookup" /\ check_fingerprint
    /\ phase' = "sqli"
    /\ UNCHANGED <<vars, s, sfVars, parses>>

ReparseAsMySQL ==
    /\ Declined /\ AgainAsMySQL
    /\ Reset([flags EXCEPT !.dialect = "mysql"])

ParseInSingleQuotes_Again ==
    /\ Declined /\ ~ AgainAsMySQL
    /\ Has("'")
    /\ Reset(Context("single", "ansi"))
ParseInSingleQuotes ==
    /\ Declined /\ ~ AgainAsMySQL
    /\ flags.quote = "none" /\ Has("'")
    /\ Reset(Context("single", "ansi"))

LastOfSingle == flags.quote = "single" \/ (flags.quote = "none" /\ ~ Has("'"))
ParseInDoubleQuotes ==
    /\ Declined /\ ~ AgainAsMySQL
    /\ LastOfSingle /\ Has("dquote")
    /\ Reset(Context("double", "mysql"))

Benign ==
    /\ Declined /\ ~ AgainAsMySQL
    /\ flags.quote = "double" \/ (LastOfSingle /\ ~ Has("dquote"))
    /\ phase' = "benign"
    /\ UNCHANGED <<vars, s, sfVars, parses>>

DetectNext ==
    \/ TokenIsRead \/ InputIsUsedUp \/ TokensAreFolded \/ FingerprintIsMade
    \/ Positive \/ ReparseAsMySQL \/ ParseInSingleQuotes \/ ParseInDoubleQuotes \/ Benign

DetectSpec == DetectInit /\ [][DetectNext]_detectVars

(* One sequential function that runs until it returns. *)
FairDetectSpec == DetectSpec /\ WF_detectVars(DetectNext)

-----------------------------------------------------------------------------
(* The next call of the tokenizer, when the folding is about to make it. *)
Asked == phase = "parse" /\ (pc = "skip" \/ Wanting) /\ HasToken(s, scan, flags)
Returned == libinjection_sqli_tokenize(s, scan, flags)
TokenStart == IF AtQuotedStart(scan, flags) THEN 0 ELSE NextChar(s, scan)

(* A slot holds a token, or none, or the one that could not be parsed. *)
Slot == [type : TokenTypes \cup {NoToken.type},
         val  : STRING \cup {NoToken.val, "X"},
         text : Text]

DetectTypeOK ==
    /\ phase = "parse" => TypeOK
    /\ tokenvec \in [Slots -> Slot]
    /\ s \in Inputs /\ flags \in Contexts
    /\ scan \in 0 .. Len(s)
    /\ stats_comment_ddx \in Nat /\ stats_comment_hash \in Nat
    /\ fingerprint \in Seq(TokenTypes)
    /\ phase \in {"parse", "lookup", "sqli", "benign"}
    /\ parses \subseteq [context : Contexts, read : Nat]

(* Each call moves the scan on and not beyond the end, and the token it    *)
(* returns stands between the two positions and fits its array with the    *)
(* zero at its end.  It is about the end tests of the character parsers,   *)
(* each of which looks ahead by a different number of characters.          *)
Advances(call) ==
    LET text == call.token.text
    IN  /\ scan < call.pos /\ call.pos <= Len(s)
        /\ scan <= text.pos /\ text.pos + text.len <= call.pos
        /\ text.len < TokenSize
ScanAdvances == Asked => Advances(Returned)

(* Reading from left to right: a backslash and what follows it, two quotes *)
(* and any other character are one unit each.                              *)
Double(i, delim) ==
    i + 1 < Len(s) /\ (At(s, i) = "\\" \/ (At(s, i) = delim /\ At(s, i + 1) = delim))
FirstLoneQuote(start, delim) ==
    LET unit[i \in start - 2 .. Len(s)] ==
            \/ i = start
            \/ i > start /\ unit[i - 1] /\ ~ Double(i - 1, delim)
            \/ i > start + 1 /\ unit[i - 2] /\ Double(i - 2, delim)
    IN  FirstOf(s, {i \in start .. Len(s) - 1 :
                       unit[i] /\ At(s, i) = delim /\ ~ Double(i, delim)})

(* A quoted text ends where a reader from left to right says it does, and  *)
(* is marked as closed if and only if it is.  It is about parse_string_core*)
(* which jumps from quote to quote and looks back for backslashes.         *)
StringEnds(call) ==
    LET text  == call.token.text
        delim == IF AtQuotedStart(scan, flags) THEN flag2delim(flags)
                 ELSE IF text.open = "u" THEN "'" ELSE text.open
        end   == FirstLoneQuote(text.pos, delim)
    IN  AtQuotedStart(scan, flags) \/ text.open \in {"'", "dquote", "tick", "u"} =>
            /\ call.pos = IF end = Len(s) THEN end ELSE end + 1
            /\ text.close # "none" <=> end < Len(s)
StringEndsAtItsQuote == Asked => StringEnds(Returned)

(* A comment ends at the first place it can and nowhere else, a nested or  *)
(* an executable one is not taken for a plain one, and two dashes before   *)
(* other text begin one in every dialect but MySQL's.  It is about         *)
(* parse_slash, parse_dash and parse_eol_comment, whose searches overlap   *)
(* the characters that open the comment.                                   *)
CommentEnds(call) ==
    LET start == TokenStart
        end   == call.pos
        PairAt(i, a, b) == At(s, i) = a /\ At(s, i + 1) = b
        Ends(i) == IF At(s, start) = "/" THEN i >= start + 4 /\ PairAt(i - 2, "*", "/")
                   ELSE At(s, i - 1) = "newline"
    IN  call.token.type \in {"c", "X"} =>
            /\ end = Len(s) \/ Ends(end)
            /\ \A i \in start + 1 .. end - 1 : ~ Ends(i)
            /\ At(s, start) = "/" =>
                  LET nested == Ends(end) /\ \E i \in start + 2 .. end - 3 : PairAt(i, "/", "*")
                  IN  call.token.type = "X" <=> nested \/ Is(s, start + 2, "!")
            /\ (At(s, start) = "-" /\ flags.dialect = "mysql") =>
                  start + 2 = Len(s) \/ At(s, start + 2) \in White
            /\ At(s, start) = "#" => flags.dialect = "mysql"
CommentIsWhole == Asked => CommentEnds(Returned)

(* libinjection_sqli.c:1068, "we have $foobar$ ... find it again": a       *)
(* string between two tags ends with the first tag after the one that      *)
(* opens it.  It is about parse_money, which looks for it from an offset   *)
(* of the input and over a length that is not counted from there.          *)
TaggedStringEnds(call) ==
    LET start == TokenStart
        text  == call.token.text
        tag   == text.pos - start
        TagAt(i) == \A k \in 0 .. tag - 1 : At(s, i + k) = At(s, start + k)
        end   == FirstOf(s, {i \in text.pos .. Len(s) - tag : TagAt(i)})
    IN  At(s, start) = "$" /\ call.token.type = "s" /\ tag > 2 =>
            /\ call.pos = IF end = Len(s) THEN end ELSE end + tag
            /\ text.close # "none" <=> end < Len(s)
TaggedStringEndsAtItsTag == Asked => TaggedStringEnds(Returned)

(* "Porting Notes: example the same as doing is_string_sqli(sql_state, "'" *)
(* + s, ...": the first token of a quoted context is the one the input has *)
(* with the quote put before it.  It is about the simulated quote of       *)
(* libinjection_sqli_tokenize, which has no character in the input.        *)
SameToken(call, prefixed) ==
    /\ call.pos = prefixed.pos - 1
    /\ call.token.type = prefixed.token.type
    /\ call.token.val = prefixed.token.val
    /\ call.token.text.close = prefixed.token.text.close
QuotedContextIsPrefixedInput ==
    Asked /\ AtQuotedStart(scan, flags) =>
        SameToken(Returned,
                  libinjection_sqli_tokenize(<<flag2delim(flags)>> \o s, 0,
                                             Context("none", flags.dialect)))

(* The scan of the input from its start in one context: the position after *)
(* each token, and what of it makes another parse worth while.             *)
After(context, n) ==
    LET after[k \in 0 .. n] ==
            IF k = 0 THEN 0
            ELSE libinjection_sqli_tokenize(s, after[k - 1], context).pos
    IN  after
DashesOrHash(context, n) ==
    LET after == After(context, n)
    IN  \E k \in 0 .. n - 1 :
           CountsDashes(s, after[k], context) \/ CountsHash(s, after[k], context)

(* What decides on another parse are the comments of the parse just made,  *)
(* not of an earlier one in another context.  It is about the counters in  *)
(* the struct all parses share and libinjection_sqli_reset.                *)
CountersAreOfThisParse ==
    phase = "lookup" => (reparse_as_mysql <=> DashesOrHash(flags, read))

(* An input is let go only after every context it calls for: as it is, in  *)
(* each kind of quotes it contains, and as MySQL reads it wherever ANSI    *)
(* found a comment MySQL may read otherwise.  It is about the nested       *)
(* conditions of libinjection_is_sqli.                                     *)
NothingLeftUntried ==
    LET tried == {p.context : p \in parses}
    IN  (phase = "benign" /\ s # << >>) =>
            /\ Context("none", "ansi") \in tried
            /\ Has("'") <=> Context("single", "ansi") \in tried
            /\ Has("dquote") <=> Context("double", "mysql") \in tried
            /\ \A p \in parses : p.context.dialect = "ansi" =>
                  ([p.context EXCEPT !.dialect = "mysql"] \in tried
                     <=> DashesOrHash(p.context, p.read))

(* The tokens behind a fingerprint stand in the input in its order, and it *)
(* was made of them in this parse.  It is about the array that all parses  *)
(* and all rules of the folding edit in place, and that the whitelist      *)
(* reads beside the fingerprint.  A token can stand there twice, side by   *)
(* side: the rule for SQL types copies the token after the type over it    *)
(* and takes one off the top, which may be another (1609-1610).            *)
InOrder(vec, n) ==
    \A i, j \in Slots : i < j /\ j < n => vec[i].text.pos <= vec[j].text.pos
FingerprintIsInOrder ==
    (phase = "lookup" /\ fingerprint # <<"X">>) =>
        /\ Len(fingerprint) <= MAX_TOKENS
        /\ \A i \in DOMAIN fingerprint : fingerprint[i] = tokenvec[i - 1].type
        /\ InOrder(tokenvec, Len(fingerprint))

(* Every input is decided.  It is about the loop of the tokenizer, the     *)
(* rules of the folding that go back, and the parses in other contexts.    *)
Decides == <>(phase \in {"sqli", "benign"})

(* How far the detection is from its verdict.  Contexts are tried in the   *)
(* order of their ranks; what is left of the input comes before the state  *)
(* of the folding.                                                         *)
Rank(c) == (CASE c.quote = "none" -> 0 [] c.quote = "single" -> 2 [] OTHER -> 4)
             + (IF c.dialect = "mysql" THEN 1 ELSE 0)
ContextsLeft == 5 - Rank(flags)
Undecided == IF phase = "parse" THEN 2 ELSE IF phase = "lookup" THEN 1 ELSE 0
Unscanned == Len(s) - scan

(* Every step brings the verdict nearer, by numbers that cannot decrease   *)
(* for ever: an input of any length is decided.  It is about contexts that *)
(* would be tried again, characters at which the tokenizer would stand     *)
(* still and, within a parse, what FoldingAdvances is about.               *)
DetectionAdvances ==
    [][ /\ {ContextsLeft', Undecided', Unscanned'} \subseteq Nat
        /\ \/ ContextsLeft' < ContextsLeft
           \/ UNCHANGED ContextsLeft /\ Undecided' < Undecided
           \/ UNCHANGED <<ContextsLeft, Undecided>> /\ Unscanned' < Unscanned
           \/ /\ UNCHANGED <<ContextsLeft, Undecided, Unscanned>>
              /\ Remaining' \in [1 .. 9 -> Nat] /\ Precedes(Remaining', Remaining)
      ]_detectVars

=============================================================================
