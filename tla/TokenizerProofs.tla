-------------------------- MODULE TokenizerProofs --------------------------
(***************************************************************************)
(* What holds of one call of the tokenizer for every input: it returns a   *)
(* token, the scan goes on and not beyond the end, and the token's text    *)
(* stands between the two positions and fits its array; a comment it       *)
(* returns and a quoted text end where they should; and a quoted context   *)
(* reads what the input with the quote before it would be read as.         *)
(*                                                                         *)
(* The argument, parser by parser: every search returns an offset from     *)
(* where it began to the end of the input, and each parser steps over what *)
(* it has found only if it is there.  Comments come from three parsers,    *)
(* and each stops at the first end mark.  Quoted texts come from one: it   *)
(* looks back from a quote and counts backslashes, and goes on two further *)
(* from a doubled quote; the definition it is held against reads the text  *)
(* forward by units, a character or an escaped one.  They agree because    *)
(* along a stretch of backslashes, or of quotes, every other character     *)
(* begins a unit.  That reading does not depend on where the text stands,  *)
(* so it is the same with a quote before it.                               *)
(***************************************************************************)
EXTENDS IsSqli, LeastTheorems

(* What each parser must do, called at pos. *)
Good(cs, pos0, r) ==
    /\ r \in [token : Token, pos : Nat]
    /\ pos0 < r.pos /\ r.pos <= Len(cs)
    /\ pos0 <= r.token.text.pos
    /\ r.token.text.pos + r.token.text.len <= r.pos
    /\ r.token.text.len < TokenSize

-----------------------------------------------------------------------------
(* Searching.  What FirstOf returns is one of the offsets, or the end.     *)
LEMMA FirstIsFound ==
    ASSUME NEW cs, Len(cs) \in Nat, NEW found \in SUBSET Nat,
           \A i \in found : i < Len(cs)
    PROVE  /\ FirstOf(cs, found) \in Nat /\ FirstOf(cs, found) <= Len(cs)
           /\ FirstOf(cs, found) < Len(cs) => FirstOf(cs, found) \in found
           /\ \A i \in found : FirstOf(cs, found) <= i
<1>1. CASE found = {}
    BY <1>1 DEF FirstOf
<1>2. CASE found # {}
    <2>1. Min(found) \in found /\ \A i \in found : Min(found) <= i
        BY <1>2, MinIsLeast
    <2>2. FirstOf(cs, found) = Min(found)
        BY <1>2 DEF FirstOf
    <2>3. Min(found) \in Nat /\ Min(found) < Len(cs)
        BY <2>1
    <2> QED BY <2>1, <2>2, <2>3
<1> QED BY <1>1, <1>2

(* memchr finds nothing before where it begins. *)
LEMMA MemchrBound ==
    ASSUME NEW cs \in Seq(STRING), NEW from \in Nat, from <= Len(cs), NEW c
    PROVE  /\ memchr(cs, from, c) \in Nat
           /\ from <= memchr(cs, from, c) /\ memchr(cs, from, c) <= Len(cs)
<1> DEFINE found == {i \in from .. Len(cs) - 1 : At(cs, i) = c}
<1>1. found \in SUBSET Nat /\ \A i \in found : i < Len(cs) /\ from <= i
    OBVIOUS
<1>2. memchr(cs, from, c) = FirstOf(cs, found)
    BY DEF memchr
<1> HIDE DEF found
<1>3. /\ FirstOf(cs, found) \in Nat /\ FirstOf(cs, found) <= Len(cs)
      /\ FirstOf(cs, found) < Len(cs) => FirstOf(cs, found) \in found
    BY <1>1, FirstIsFound
<1> QED BY <1>1, <1>2, <1>3

(* memchr2 finds two characters that both stand before to. *)
LEMMA Memchr2Bound ==
    ASSUME NEW cs \in Seq(STRING), NEW from \in Nat, NEW to \in Nat,
           to <= Len(cs), NEW c0, NEW c1
    PROVE  /\ memchr2(cs, from, to, c0, c1) \in Nat
           /\ \/ memchr2(cs, from, to, c0, c1) = Len(cs)
              \/ /\ from <= memchr2(cs, from, to, c0, c1)
                 /\ memchr2(cs, from, to, c0, c1) + 2 <= to
<1> DEFINE found == {i \in from .. to - 2 : At(cs, i) = c0 /\ At(cs, i + 1) = c1}
<1>1. found \in SUBSET Nat /\ \A i \in found : i < Len(cs) /\ from <= i /\ i + 2 <= to
    OBVIOUS
<1>2. memchr2(cs, from, to, c0, c1) = FirstOf(cs, found)
    BY DEF memchr2
<1> HIDE DEF found
<1>3. /\ FirstOf(cs, found) \in Nat /\ FirstOf(cs, found) <= Len(cs)
      /\ FirstOf(cs, found) < Len(cs) => FirstOf(cs, found) \in found
    BY <1>1, FirstIsFound
<1> QED BY <1>1, <1>2, <1>3

(* A span ends at the end of the input at the latest, and is empty only if *)
(* its first character is not accepted.                                    *)
LEMMA SpanBound ==
    ASSUME NEW cs \in Seq(STRING), NEW from \in Nat, from <= Len(cs), NEW accept
    PROVE  /\ strlenspn(cs, from, accept) \in Nat
           /\ from + strlenspn(cs, from, accept) <= Len(cs)
<1> DEFINE found == {i \in from .. Len(cs) - 1 : At(cs, i) \notin accept \cup {"nul"}}
<1>1. found \in SUBSET Nat /\ \A i \in found : i < Len(cs) /\ from <= i
    OBVIOUS
<1>2. strlenspn(cs, from, accept) = FirstOf(cs, found) - from
    BY DEF strlenspn
<1> HIDE DEF found
<1>3. /\ FirstOf(cs, found) \in Nat /\ FirstOf(cs, found) <= Len(cs)
      /\ FirstOf(cs, found) < Len(cs) => FirstOf(cs, found) \in found
    BY <1>1, FirstIsFound
<1> QED BY <1>1, <1>2, <1>3

(* The same for the span of what is not an end, which is not empty if the  *)
(* first character is none.                                                *)
LEMMA CSpanBound ==
    ASSUME NEW cs \in Seq(STRING), NEW from \in Nat, from <= Len(cs), NEW ends
    PROVE  /\ strlencspn(cs, from, ends) \in Nat
           /\ from + strlencspn(cs, from, ends) <= Len(cs)
           /\ (from < Len(cs) /\ At(cs, from) \notin ends \cup {"nul"}) =>
                 0 < strlencspn(cs, from, ends)
<1> DEFINE found == {i \in from .. Len(cs) - 1 : At(cs, i) \in ends \cup {"nul"}}
<1>1. found \in SUBSET Nat /\ \A i \in found : i < Len(cs) /\ from <= i
    OBVIOUS
<1>2. strlencspn(cs, from, ends) = FirstOf(cs, found) - from
    BY DEF strlencspn
<1>3. At(cs, from) \notin ends \cup {"nul"} => from \notin found
    OBVIOUS
<1> HIDE DEF found
<1>4. /\ FirstOf(cs, found) \in Nat /\ FirstOf(cs, found) <= Len(cs)
      /\ FirstOf(cs, found) < Len(cs) => FirstOf(cs, found) \in found
    BY <1>1, FirstIsFound
<1>5. ASSUME from < Len(cs), At(cs, from) \notin ends \cup {"nul"}
      PROVE  0 < strlencspn(cs, from, ends)
    <2>1. from \notin found
        BY <1>3, <1>5
    <2> QED BY <1>1, <1>2, <1>4, <1>5, <2>1
<1>6. strlencspn(cs, from, ends) \in Nat /\ from + strlencspn(cs, from, ends) <= Len(cs)
    BY <1>1, <1>2, <1>4
<1> QED BY <1>5, <1>6

-----------------------------------------------------------------------------
(* A token is made of any part of the input.                               *)
LEMMA QuotedIsToken ==
    ASSUME NEW cs \in Inputs, NEW type \in TokenTypes,
           NEW start \in Nat, NEW len \in Nat, start + len <= Len(cs),
           NEW open \in Quotes, NEW close \in Quotes
    PROVE  LET t == Quoted(cs, type, start, len, open, close)
           IN  /\ t \in Token /\ t.text.pos = start
               /\ t.text.len \in Nat /\ t.text.len <= len /\ t.text.len < TokenSize
<1>1. cs \in Seq(STRING) /\ Len(cs) \in Nat
    BY InputsAssumption
<1>2. Stored(len) \in Nat /\ Stored(len) <= len /\ Stored(len) < TokenSize
    BY TokenSizeAssumption DEF Stored
<1>3. Val(cs, start, Stored(len)) \in STRING
    <2>1. start \in 0 .. Len(cs) /\ start + Stored(len) \in 0 .. Len(cs)
        BY <1>1, <1>2
    <2>2. Spelling(SubSeq(cs, start + 1, start + Stored(len))) \in STRING
        BY <2>1, InputsAssumption
    <2> QED BY <2>2 DEF Val
<1>4. [pos |-> start, len |-> Stored(len), open |-> open, close |-> close] \in Text
    BY <1>2 DEF Text
<1> QED BY <1>2, <1>3, <1>4 DEF Quoted, Token

(* And a parser that makes one of what it has passed does what it must.    *)
LEMMA ReadIsGood ==
    ASSUME NEW cs \in Inputs, NEW type \in TokenTypes, NEW pos0 \in Nat,
           NEW start \in Nat, NEW len \in Nat, NEW next \in Nat,
           pos0 <= start, start + len <= next, pos0 < next, next <= Len(cs),
           NEW open \in Quotes, NEW close \in Quotes
    PROVE  Good(cs, pos0, Read(Quoted(cs, type, start, len, open, close), next))
<1> DEFINE t == Quoted(cs, type, start, len, open, close)
<1>1. Len(cs) \in Nat
    BY InputsAssumption
<1>2. start + len <= Len(cs)
    BY <1>1
<1>3. /\ t \in Token /\ t.text.pos = start
      /\ t.text.len \in Nat /\ t.text.len <= len /\ t.text.len < TokenSize
    BY <1>2, QuotedIsToken
<1> HIDE DEF t
<1>4. /\ Read(t, next) \in [token : Token, pos : Nat]
      /\ Read(t, next).token = t /\ Read(t, next).pos = next
    BY <1>3 DEF Read
<1>5. Good(cs, pos0, Read(t, next))
    BY <1>1, <1>3, <1>4 DEF Good
<1> QED BY <1>5 DEF t

(* One that takes len characters as they are.                              *)
LEMMA WordIsGood ==
    ASSUME NEW cs \in Inputs, NEW type \in TokenTypes, NEW pos0 \in Nat,
           NEW start \in Nat, NEW len \in Nat,
           pos0 <= start, pos0 < start + len, start + len <= Len(cs)
    PROVE  Good(cs, pos0, Word(cs, type, start, len))
<1>1. "none" \in Quotes /\ start + len \in Nat
    BY DEF Quotes
<1> QED BY <1>1, ReadIsGood DEF Word, st_assign

(* One that takes a single character.                                      *)
LEMMA SingleIsGood ==
    ASSUME NEW cs \in Inputs, NEW type \in TokenTypes, NEW pos0 \in Nat, pos0 < Len(cs)
    PROVE  Good(cs, pos0, Single(cs, pos0, type))
<1>1. "none" \in Quotes /\ Len(cs) \in Nat
    BY InputsAssumption DEF Quotes
<1> QED BY <1>1, ReadIsGood DEF Single, st_assign

(* What a parser called further on does, is good here.                     *)
LEMMA GoodFromBefore ==
    ASSUME NEW cs, NEW pos0 \in Nat, NEW start \in Nat, pos0 <= start,
           NEW r, Good(cs, start, r)
    PROVE  Good(cs, pos0, r)
<1>1. r.token.text.pos \in Nat
    BY DEF Good, Token, Text
<1> QED BY <1>1 DEF Good

(* A word of the table has a type.                                         *)
LEMMA LookupIsType ==
    ASSUME NEW w, lookup(w) # "none"
    PROVE  lookup(w) \in TokenTypes
BY WordsAssumption DEF lookup

-----------------------------------------------------------------------------
(* Operators and comments.                                                 *)
LEMMA Operator1IsGood ==
    ASSUME NEW cs \in Inputs, NEW pos0 \in Nat, pos0 < Len(cs)
    PROVE  Good(cs, pos0, parse_operator1(cs, pos0))
<1>1. "o" \in TokenTypes
    BY DEF TokenTypes
<1> QED BY <1>1, SingleIsGood DEF parse_operator1

(* A comment to the end of the line takes the line's end with it, if there *)
(* is one.                                                                 *)
LEMMA EolCommentIsGood ==
    ASSUME NEW cs \in Inputs, NEW pos0 \in Nat, pos0 < Len(cs)
    PROVE  Good(cs, pos0, parse_eol_comment(cs, pos0))
<1> DEFINE end == memchr(cs, pos0, "newline")
           next == IF end = Len(cs) THEN end ELSE end + 1
<1>1. cs \in Seq(STRING) /\ Len(cs) \in Nat /\ "none" \in Quotes /\ "c" \in TokenTypes
    BY InputsAssumption DEF Quotes, TokenTypes
<1>2. end \in Nat /\ pos0 <= end /\ end <= Len(cs)
    BY <1>1, MemchrBound
<1>3. parse_eol_comment(cs, pos0)
        = Read(Quoted(cs, "c", pos0, end - pos0, "none", "none"), next)
    BY DEF parse_eol_comment, st_assign
<1> HIDE DEF end
<1>4. end - pos0 \in Nat /\ next \in Nat /\ pos0 + (end - pos0) <= next
        /\ pos0 < next /\ next <= Len(cs)
    BY <1>1, <1>2
<1> HIDE DEF next
<1> QED BY <1>1, <1>3, <1>4, ReadIsGood

(* A hash and a dash begin a comment or are an operator.                   *)
LEMMA HashAndDashAreGood ==
    ASSUME NEW cs \in Inputs, NEW pos0 \in Nat, pos0 < Len(cs), NEW fl
    PROVE  Good(cs, pos0, parse_hash(cs, pos0, fl)) /\ Good(cs, pos0, parse_dash(cs, pos0, fl))
BY EolCommentIsGood, Operator1IsGood DEF parse_hash, parse_dash

(* A comment in the style of C ends two characters on or at the end.       *)
LEMMA SlashIsGood ==
    ASSUME NEW cs \in Inputs, NEW pos0 \in Nat, pos0 < Len(cs)
    PROVE  Good(cs, pos0, parse_slash(cs, pos0))
<1> DEFINE close == CommentEnd(cs, pos0)
           len == IF close < Len(cs) THEN close + 2 - pos0 ELSE Len(cs) - pos0
<1>1. cs \in Seq(STRING) /\ Len(cs) \in Nat /\ "c" \in TokenTypes /\ "X" \in TokenTypes
    BY InputsAssumption DEF TokenTypes
<1>2. CASE ~ Is(cs, pos0 + 1, "*")
    <2>1. parse_slash(cs, pos0) = parse_operator1(cs, pos0)
        BY <1>2 DEF parse_slash
    <2> QED BY <2>1, Operator1IsGood
<1>3. CASE Is(cs, pos0 + 1, "*")
    <2>1. close \in Nat /\ (close = Len(cs) \/ (pos0 + 2 <= close /\ close + 2 <= Len(cs)))
        BY <1>1, Memchr2Bound DEF CommentEnd
    <2>2. \E type \in {"c", "X"} : parse_slash(cs, pos0) = Word(cs, type, pos0, len)
        BY <1>3 DEF parse_slash
    <2> HIDE DEF close
    <2>3. len \in Nat /\ pos0 < pos0 + len /\ pos0 + len <= Len(cs)
        BY <1>1, <2>1
    <2> HIDE DEF len
    <2> QED BY <1>1, <2>2, <2>3, WordIsGood
<1> QED BY <1>2, <1>3

(* \N takes two characters only if the second is there.                    *)
LEMMA BackslashIsGood ==
    ASSUME NEW cs \in Inputs, NEW pos0 \in Nat, pos0 < Len(cs)
    PROVE  Good(cs, pos0, parse_backslash(cs, pos0))
<1>1. Len(cs) \in Nat /\ "1" \in TokenTypes /\ "\\" \in TokenTypes
    BY InputsAssumption DEF TokenTypes
<1>2. CASE Is(cs, pos0 + 1, "N")
    <2>1. pos0 + 2 <= Len(cs)
        BY <1>1, <1>2 DEF Is
    <2> QED BY <1>1, <1>2, <2>1, WordIsGood DEF parse_backslash
<1>3. CASE ~ Is(cs, pos0 + 1, "N")
    BY <1>1, <1>3, SingleIsGood DEF parse_backslash
<1> QED BY <1>2, <1>3

(* Operators of three, two and one character.                              *)
LEMMA Operator2IsGood ==
    ASSUME NEW cs \in Inputs, NEW pos0 \in Nat, pos0 < Len(cs)
    PROVE  Good(cs, pos0, parse_operator2(cs, pos0))
<1> DEFINE ch == lookup(Val(cs, pos0, 2))
<1>1. Len(cs) \in Nat /\ "o" \in TokenTypes /\ ":" \in TokenTypes
    BY InputsAssumption DEF TokenTypes
<1>2. CASE pos0 + 1 >= Len(cs)
    <2>1. parse_operator2(cs, pos0) = parse_operator1(cs, pos0)
        BY <1>1, <1>2 DEF parse_operator2, Is
    <2> QED BY <2>1, Operator1IsGood
<1>3. CASE pos0 + 1 < Len(cs)
    <2>1. \/ Is(cs, pos0 + 2, ">") /\ parse_operator2(cs, pos0) = Word(cs, "o", pos0, 3)
          \/ ch # "none" /\ parse_operator2(cs, pos0) = Word(cs, ch, pos0, 2)
          \/ parse_operator2(cs, pos0) = Single(cs, pos0, ":")
          \/ parse_operator2(cs, pos0) = parse_operator1(cs, pos0)
        BY <1>1, <1>3 DEF parse_operator2
    <2>2. ch # "none" => ch \in TokenTypes
        BY LookupIsType
    <2>3. Is(cs, pos0 + 2, ">") => pos0 + 3 <= Len(cs)
        BY <1>1 DEF Is
    <2> HIDE DEF ch
    <2>4. CASE Is(cs, pos0 + 2, ">") /\ parse_operator2(cs, pos0) = Word(cs, "o", pos0, 3)
        BY <1>1, <2>3, <2>4, WordIsGood
    <2>5. CASE ch # "none" /\ parse_operator2(cs, pos0) = Word(cs, ch, pos0, 2)
        BY <1>1, <1>3, <2>2, <2>5, WordIsGood
    <2> QED BY <1>1, <2>1, <2>4, <2>5, SingleIsGood, Operator1IsGood
<1> QED BY <1>1, <1>2, <1>3

-----------------------------------------------------------------------------
(* Strings.  The quote that closes one is in the text after it begins.     *)
LEMMA ClosingQuoteBound ==
    ASSUME NEW cs \in Seq(STRING), NEW start \in Nat, start <= Len(cs), NEW delim
    PROVE  /\ ClosingQuote(cs, start, delim) \in Nat
           /\ start <= ClosingQuote(cs, start, delim)
           /\ ClosingQuote(cs, start, delim) <= Len(cs)
<1> DEFINE found == {q \in start .. Len(cs) - 1 :
                        /\ At(cs, q) = delim
                        /\ ~ is_double_delim_escaped(cs, q)
                        /\ (q - RunOf(cs, start, q)) % 2 = 0}
<1>1. found \in SUBSET Nat /\ \A i \in found : i < Len(cs) /\ start <= i
    OBVIOUS
<1>2. ClosingQuote(cs, start, delim) = FirstOf(cs, found)
    BY DEF ClosingQuote
<1> HIDE DEF found
<1>3. /\ FirstOf(cs, found) \in Nat /\ FirstOf(cs, found) <= Len(cs)
      /\ FirstOf(cs, found) < Len(cs) => FirstOf(cs, found) \in found
    BY <1>1, FirstIsFound
<1> QED BY <1>1, <1>2, <1>3

(* A string between two quotes, a simulated one included, for which offset *)
(* is 0: the scan goes on because the text is not used up before it.       *)
LEMMA StringCoreIsGood ==
    ASSUME NEW cs \in Inputs, NEW pos0 \in Nat, pos0 < Len(cs),
           NEW delim \in {"'", "dquote", "tick"}, NEW offset \in Nat, pos0 + offset <= Len(cs)
    PROVE  Good(cs, pos0, parse_string_core(cs, pos0, delim, offset))
<1> DEFINE start == pos0 + offset
           close == ClosingQuote(cs, start, delim)
           open == IF offset > 0 THEN delim ELSE "none"
<1>1. cs \in Seq(STRING) /\ Len(cs) \in Nat /\ "s" \in TokenTypes
      /\ {"none", "'", "dquote", "tick"} \subseteq Quotes
    BY InputsAssumption DEF TokenTypes, Quotes
<1>2. close \in Nat /\ start <= close /\ close <= Len(cs)
    BY <1>1, ClosingQuoteBound
<1>3. open \in Quotes /\ delim \in Quotes /\ "none" \in Quotes
    BY <1>1
<1>4. parse_string_core(cs, pos0, delim, offset)
        = IF close = Len(cs)
          THEN Read(Quoted(cs, "s", start, close - start, open, "none"), close)
          ELSE Read(Quoted(cs, "s", start, close - start, open, delim), close + 1)
    BY DEF parse_string_core
<1> HIDE DEF close, open
<1>5. start \in Nat /\ close - start \in Nat /\ pos0 <= start /\ start + (close - start) = close
    BY <1>2
<1> HIDE DEF start
<1>6. CASE close = Len(cs)
    BY <1>1, <1>2, <1>3, <1>4, <1>5, <1>6, ReadIsGood
<1>7. CASE close # Len(cs)
    <2>1. close + 1 \in Nat /\ close + 1 <= Len(cs) /\ pos0 < close + 1
        BY <1>1, <1>2, <1>5, <1>7
    <2> QED BY <1>1, <1>2, <1>3, <1>4, <1>5, <1>7, <2>1, ReadIsGood
<1> QED BY <1>6, <1>7

(* One that begins with its quote.                                         *)
LEMMA StringIsGood ==
    ASSUME NEW cs \in Inputs, NEW pos0 \in Nat, pos0 < Len(cs),
           At(cs, pos0) \in {"'", "dquote", "tick"}
    PROVE  Good(cs, pos0, parse_string(cs, pos0))
<1>1. Len(cs) \in Nat
    BY InputsAssumption
<1> QED BY <1>1, StringCoreIsGood DEF parse_string

(* What a word can begin with: with it, a word is not empty.               *)
BeginsWord(cs, pos0) == At(cs, pos0) \notin WordEnds \cup {"nul", ".", "tick"}

(* A word ends where it has something that ends words, or at a dot or a    *)
(* backquote after a keyword; both come after its first character.         *)
LEMMA WordParserIsGood ==
    ASSUME NEW cs \in Inputs, NEW pos0 \in Nat, pos0 < Len(cs), BeginsWord(cs, pos0)
    PROVE  Good(cs, pos0, parse_word(cs, pos0))
<1> DEFINE wlen == strlencspn(cs, pos0, WordEnds)
           keywordBefore(i) == lookup(Val(cs, pos0, i)) \notin {"none", "n"}
           cuts == {i \in 0 .. Stored(wlen) - 1 :
                       At(cs, pos0 + i) \in {".", "tick"} /\ keywordBefore(i)}
           whole == lookup(Val(cs, pos0, wlen))
           type == IF wlen < TokenSize /\ whole # "none" THEN whole ELSE "n"
<1>1. cs \in Seq(STRING) /\ Len(cs) \in Nat /\ "n" \in TokenTypes
    BY InputsAssumption DEF TokenTypes
<1>2. wlen \in Nat /\ pos0 + wlen <= Len(cs) /\ 0 < wlen
    BY <1>1, CSpanBound DEF BeginsWord
<1>3. parse_word(cs, pos0) = IF cuts # {}
                             THEN Word(cs, lookup(Val(cs, pos0, Min(cuts))), pos0, Min(cuts))
                             ELSE Word(cs, type, pos0, wlen)
    BY DEF parse_word
<1>4. Stored(wlen) \in Nat /\ Stored(wlen) <= wlen
    BY <1>2, TokenSizeAssumption DEF Stored
<1>5. CASE cuts # {}
    <2>1. cuts \in SUBSET Nat
        BY <1>4
    <2>2. Min(cuts) \in cuts
        BY <1>5, <2>1, MinIsLeast
    <2> DEFINE n == Min(cuts)
    <2>3. /\ n \in Nat /\ n < Stored(wlen) /\ At(cs, pos0 + n) \in {".", "tick"}
          /\ lookup(Val(cs, pos0, n)) # "none"
        BY <1>4, <2>2
    <2>4. parse_word(cs, pos0) = Word(cs, lookup(Val(cs, pos0, n)), pos0, n)
        BY <1>3, <1>5
    <2> HIDE DEF n, cuts, wlen
    <2>5. n # 0
        BY <2>3 DEF BeginsWord
    <2>6. pos0 < pos0 + n /\ pos0 + n <= Len(cs)
        BY <1>1, <1>2, <1>4, <2>3, <2>5
    <2>7. lookup(Val(cs, pos0, n)) \in TokenTypes
        BY <2>3, LookupIsType
    <2> QED BY <2>3, <2>4, <2>6, <2>7, WordIsGood
<1>6. CASE cuts = {}
    <2>1. parse_word(cs, pos0) = Word(cs, type, pos0, wlen)
        BY <1>3, <1>6
    <2>2. type \in TokenTypes
        BY <1>1, LookupIsType
    <2> HIDE DEF type, wlen
    <2> QED BY <1>1, <1>2, <2>1, <2>2, WordIsGood
<1> QED BY <1>5, <1>6

-----------------------------------------------------------------------------
(* Prefixed strings are strings if the prefix is complete and words        *)
(* otherwise.                                                              *)
LEMMA EStringIsGood ==
    ASSUME NEW cs \in Inputs, NEW pos0 \in Nat, pos0 < Len(cs), BeginsWord(cs, pos0)
    PROVE  Good(cs, pos0, parse_estring(cs, pos0))
<1>1. Len(cs) \in Nat
    BY InputsAssumption
<1>2. CASE pos0 + 2 >= Len(cs) \/ ~ Is(cs, pos0 + 1, "'")
    BY <1>2, WordParserIsGood DEF parse_estring
<1>3. CASE ~ (pos0 + 2 >= Len(cs) \/ ~ Is(cs, pos0 + 1, "'"))
    BY <1>1, <1>3, StringCoreIsGood DEF parse_estring
<1> QED BY <1>2, <1>3

(* A string of Unicode escapes is the string after its prefix, under other *)
(* quotes.                                                                 *)
LEMMA UStringIsGood ==
    ASSUME NEW cs \in Inputs, NEW pos0 \in Nat, pos0 < Len(cs), BeginsWord(cs, pos0)
    PROVE  Good(cs, pos0, parse_ustring(cs, pos0))
<1> DEFINE string == parse_string(cs, pos0 + 2)
           u == [string EXCEPT !.token.text.open = "u",
                               !.token.text.close = IF @ = "'" THEN "u" ELSE @]
<1>1. Len(cs) \in Nat /\ "u" \in Quotes
    BY InputsAssumption DEF Quotes
<1>2. CASE Is(cs, pos0 + 1, "&") /\ Is(cs, pos0 + 2, "'")
    <2>1. pos0 + 2 < Len(cs) /\ At(cs, pos0 + 2) = "'"
        BY <1>2 DEF Is
    <2>2. Good(cs, pos0 + 2, string)
        BY <2>1, StringIsGood
    <2>3. parse_ustring(cs, pos0) = u
        BY <1>2 DEF parse_ustring
    <2> HIDE DEF string
    <2>4. Good(cs, pos0, string)
        BY <2>2, GoodFromBefore
    <2>5. /\ u \in [token : Token, pos : Nat] /\ u.pos = string.pos
          /\ u.token.text.pos = string.token.text.pos
          /\ u.token.text.len = string.token.text.len
        <3>1. string \in [token : Token, pos : Nat]
            BY <2>4 DEF Good
        <3> QED BY <1>1, <3>1 DEF Token, Text
    <2> HIDE DEF u
    <2>6. Good(cs, pos0, u)
        BY <2>4, <2>5 DEF Good
    <2> QED BY <2>3, <2>6
<1>3. CASE ~ (Is(cs, pos0 + 1, "&") /\ Is(cs, pos0 + 2, "'"))
    BY <1>3, WordParserIsGood DEF parse_ustring
<1> QED BY <1>2, <1>3

(* An Oracle string ends with its delimiter and a quote, both of which are *)
(* passed; wordPos is where the word begins if it is none.                 *)
LEMMA QStringCoreIsGood ==
    ASSUME NEW cs \in Inputs, NEW pos0 \in Nat, pos0 < Len(cs), BeginsWord(cs, pos0),
           NEW offset \in {0, 1}
    PROVE  Good(cs, pos0, parse_qstring_core(cs, pos0, offset))
<1> DEFINE p == pos0 + offset
           start == p + 3
           close == memchr2(cs, start, Len(cs), Matching(At(cs, p + 2)), "'")
           string == IF close = Len(cs)
                     THEN Read(Quoted(cs, "s", start, close - start, "q", "none"), close)
                     ELSE Read(Quoted(cs, "s", start, close - start, "q", "q"), close + 2)
<1>1. cs \in Seq(STRING) /\ Len(cs) \in Nat /\ "s" \in TokenTypes
      /\ "q" \in Quotes /\ "none" \in Quotes
    BY InputsAssumption DEF TokenTypes, Quotes
<1>2. \/ parse_qstring_core(cs, pos0, offset) = parse_word(cs, pos0)
      \/ p + 2 < Len(cs) /\ parse_qstring_core(cs, pos0, offset) = string
    BY <1>1 DEF parse_qstring_core
<1>3. CASE p + 2 < Len(cs) /\ parse_qstring_core(cs, pos0, offset) = string
    <2>1. start \in Nat /\ start <= Len(cs) /\ pos0 <= start
        BY <1>1, <1>3
    <2>2. close \in Nat /\ (close = Len(cs) \/ (start <= close /\ close + 2 <= Len(cs)))
        BY <1>1, <2>1, Memchr2Bound
    <2> HIDE DEF start, close
    <2>3. CASE close = Len(cs)
        <3>1. close - start \in Nat /\ start + (close - start) = close
            BY <1>1, <2>1, <2>3
        <3> QED BY <1>1, <1>3, <2>1, <2>2, <2>3, <3>1, ReadIsGood
    <2>4. CASE close # Len(cs)
        <3>1. /\ close - start \in Nat /\ start + (close - start) <= close + 2
              /\ close + 2 \in Nat /\ pos0 < close + 2 /\ close + 2 <= Len(cs)
            BY <1>1, <2>1, <2>2, <2>4
        <3> HIDE DEF p
        <3>2. Good(cs, pos0, Read(Quoted(cs, "s", start, close - start, "q", "q"), close + 2))
            BY <1>1, <2>1, <3>1, ReadIsGood
        <3> QED BY <1>3, <2>4, <3>2
    <2> QED BY <2>3, <2>4
<1> QED BY <1>2, <1>3, WordParserIsGood

(* The two prefixes of such a string.                                      *)
LEMMA QStringsAreGood ==
    ASSUME NEW cs \in Inputs, NEW pos0 \in Nat, pos0 < Len(cs), BeginsWord(cs, pos0)
    PROVE  Good(cs, pos0, parse_qstring(cs, pos0)) /\ Good(cs, pos0, parse_nqstring(cs, pos0))
BY QStringCoreIsGood, EStringIsGood DEF parse_qstring, parse_nqstring

(* b'..' and x'..' are passed whole, with their closing quote.             *)
LEMMA BitsAreGood ==
    ASSUME NEW cs \in Inputs, NEW pos0 \in Nat, pos0 < Len(cs), BeginsWord(cs, pos0),
           NEW accept
    PROVE  Good(cs, pos0, parse_bits(cs, pos0, accept))
<1> DEFINE wlen == strlenspn(cs, pos0 + 2, accept)
           complete == /\ pos0 + 2 < Len(cs) /\ Is(cs, pos0 + 1, "'")
                       /\ Is(cs, pos0 + 2 + wlen, "'")
<1>1. cs \in Seq(STRING) /\ Len(cs) \in Nat /\ "1" \in TokenTypes
    BY InputsAssumption DEF TokenTypes
<1>2. parse_bits(cs, pos0, accept) = IF complete THEN Word(cs, "1", pos0, wlen + 3)
                                     ELSE parse_word(cs, pos0)
    BY DEF parse_bits
<1>3. CASE complete
    <2>1. wlen \in Nat
        BY <1>1, <1>3, SpanBound
    <2>2. pos0 + 2 + wlen < Len(cs)
        BY <1>3 DEF Is
    <2>3. wlen + 3 \in Nat /\ pos0 < pos0 + (wlen + 3) /\ pos0 + (wlen + 3) <= Len(cs)
        BY <1>1, <2>1, <2>2
    <2>4. parse_bits(cs, pos0, accept) = Word(cs, "1", pos0, wlen + 3)
        BY <1>2, <1>3
    <2> HIDE DEF wlen, complete
    <2> QED BY <1>1, <2>3, <2>4, WordIsGood
<1>4. CASE ~ complete
    <2> HIDE DEF complete
    <2> QED BY <1>2, <1>4, WordParserIsGood
<1> QED BY <1>3, <1>4

(* A word in brackets ends with the bracket or with the input.             *)
LEMMA BWordIsGood ==
    ASSUME NEW cs \in Inputs, NEW pos0 \in Nat, pos0 < Len(cs)
    PROVE  Good(cs, pos0, parse_bword(cs, pos0))
<1> DEFINE end == memchr(cs, pos0, "]")
           len == IF end = Len(cs) THEN end - pos0 ELSE end - pos0 + 1
<1>1. cs \in Seq(STRING) /\ Len(cs) \in Nat /\ "n" \in TokenTypes
    BY InputsAssumption DEF TokenTypes
<1>2. end \in Nat /\ pos0 <= end /\ end <= Len(cs)
    BY <1>1, MemchrBound
<1>3. parse_bword(cs, pos0) = Word(cs, "n", pos0, len)
    BY DEF parse_bword
<1> HIDE DEF end
<1>4. len \in Nat /\ pos0 < pos0 + len /\ pos0 + len <= Len(cs)
    BY <1>1, <1>2
<1> HIDE DEF len
<1> QED BY <1>1, <1>3, <1>4, WordIsGood

(* A string under another type is as good.                                 *)
LEMMA RetypedIsGood ==
    ASSUME NEW cs, NEW pos0, NEW r, Good(cs, pos0, r), NEW type \in TokenTypes
    PROVE  Good(cs, pos0, [r EXCEPT !.token.type = type])
<1> DEFINE u == [r EXCEPT !.token.type = type]
<1>1. r \in [token : Token, pos : Nat]
    BY DEF Good
<1>2. /\ u \in [token : Token, pos : Nat] /\ u.pos = r.pos
      /\ u.token.text = r.token.text
    BY <1>1 DEF Token
<1> HIDE DEF u
<1>3. Good(cs, pos0, u)
    BY <1>2 DEF Good
<1> QED BY <1>3 DEF u

(* A word in backquotes.                                                   *)
LEMMA TickIsGood ==
    ASSUME NEW cs \in Inputs, NEW pos0 \in Nat, pos0 < Len(cs)
    PROVE  Good(cs, pos0, parse_tick(cs, pos0))
<1> DEFINE string == parse_string_core(cs, pos0, "tick", 1)
           type == IF lookup(string.token.val) = "f" THEN "f" ELSE "n"
<1>1. Len(cs) \in Nat /\ type \in TokenTypes
    BY InputsAssumption DEF TokenTypes
<1>2. Good(cs, pos0, string)
    BY <1>1, StringCoreIsGood
<1>3. parse_tick(cs, pos0) = [string EXCEPT !.token.type = type]
    BY DEF parse_tick
<1> HIDE DEF string, type
<1> QED BY <1>1, <1>2, <1>3, RetypedIsGood

(* A variable ends with its name, which may be empty: the sign before it   *)
(* is passed all the same.                                                 *)
LEMMA VarIsGood ==
    ASSUME NEW cs \in Inputs, NEW pos0 \in Nat, pos0 < Len(cs)
    PROVE  Good(cs, pos0, parse_var(cs, pos0))
<1> DEFINE name == IF Is(cs, pos0 + 1, "@") THEN pos0 + 2 ELSE pos0 + 1
           quoted == IF Is(cs, name, "tick") THEN parse_tick(cs, name) ELSE parse_string(cs, name)
           len == strlencspn(cs, name, VarEnds)
<1>1. cs \in Seq(STRING) /\ Len(cs) \in Nat /\ "v" \in TokenTypes
    BY InputsAssumption DEF TokenTypes
<1>2. name \in Nat /\ pos0 < name /\ name <= Len(cs)
    BY <1>1 DEF Is
<1>3. parse_var(cs, pos0) = IF IsIn(cs, name, {"tick", "'", "dquote"})
                            THEN [quoted EXCEPT !.token.type = "v"]
                            ELSE Word(cs, "v", name, len)
    BY DEF parse_var
<1>4. len \in Nat /\ name + len <= Len(cs)
    BY <1>1, <1>2, CSpanBound
<1>5. CASE IsIn(cs, name, {"tick", "'", "dquote"})
    <2>1. name < Len(cs) /\ At(cs, name) \in {"'", "dquote", "tick"}
        BY <1>5 DEF IsIn
    <2>2. Good(cs, name, quoted)
        BY <1>2, <2>1, TickIsGood, StringIsGood
    <2>3. parse_var(cs, pos0) = [quoted EXCEPT !.token.type = "v"]
        BY <1>3, <1>5
    <2> HIDE DEF name, quoted, len
    <2>4. Good(cs, pos0, quoted)
        BY <1>2, <2>2, GoodFromBefore
    <2> QED BY <1>1, <2>3, <2>4, RetypedIsGood
<1>6. CASE ~ IsIn(cs, name, {"tick", "'", "dquote"})
    <2>1. parse_var(cs, pos0) = Word(cs, "v", name, len)
        BY <1>3, <1>6
    <2> HIDE DEF name, len
    <2>2. pos0 <= name /\ pos0 < name + len
        BY <1>2, <1>4
    <2> QED BY <1>1, <1>2, <1>4, <2>1, <2>2, WordIsGood
<1> QED BY <1>5, <1>6

(* What a dollar opens ends where its second mark begins, skip characters  *)
(* before the scan goes on, or with the input.                             *)
LEMMA DollarStringIsGood ==
    ASSUME NEW cs \in Inputs, NEW pos0 \in Nat, NEW from \in Nat, NEW end \in Nat,
           NEW skip \in Nat, pos0 < from, from <= end,
           end = Len(cs) \/ end + skip <= Len(cs)
    PROVE  Good(cs, pos0,
                IF end = Len(cs) THEN Read(Quoted(cs, "s", from, Len(cs) - from, "$", "none"), Len(cs))
                ELSE Read(Quoted(cs, "s", from, end - from, "$", "$"), end + skip))
<1>1. Len(cs) \in Nat /\ "s" \in TokenTypes /\ "$" \in Quotes /\ "none" \in Quotes
    BY InputsAssumption DEF TokenTypes, Quotes
<1>2. CASE end = Len(cs)
    <2> DEFINE len == Len(cs) - from
    <2>1. len \in Nat /\ from + len <= Len(cs) /\ pos0 < Len(cs) /\ pos0 <= from
        BY <1>1, <1>2
    <2> HIDE DEF len
    <2>2. Good(cs, pos0, Read(Quoted(cs, "s", from, len, "$", "none"), Len(cs)))
        BY <1>1, <2>1, ReadIsGood
    <2> QED BY <1>2, <2>2 DEF len
<1>3. CASE end # Len(cs)
    <2>1. /\ end - from \in Nat /\ from + (end - from) <= end + skip
          /\ end + skip \in Nat /\ pos0 < end + skip /\ end + skip <= Len(cs)
        BY <1>3
    <2>2. Good(cs, pos0, Read(Quoted(cs, "s", from, end - from, "$", "$"), end + skip))
        BY <1>1, <2>1, ReadIsGood
    <2> QED BY <1>3, <2>2
<1> QED BY <1>2, <1>3

(* A dollar: wherever the closing tag is looked for, what is found is in   *)
(* the input and is not taken unless it comes after the opening one.       *)
LEMMA MoneyIsGood ==
    ASSUME NEW cs \in Inputs, NEW pos0 \in Nat, pos0 < Len(cs), BeginsWord(cs, pos0)
    PROVE  Good(cs, pos0, parse_money(cs, pos0))
<1> DEFINE slen    == Len(cs)
           amount  == strlenspn(cs, pos0 + 1, AmountChars)
           xlen    == strlenspn(cs, pos0 + 1, Letters)
           start   == pos0 + xlen + 2
           dollars == memchr2(cs, pos0 + 2, slen, "$", "$")
           tagAt(i) == \A k \in 0 .. xlen + 1 : At(cs, i + k) = At(cs, pos0 + k)
           found   == {i \in xlen + 2 .. slen - pos0 - (xlen + 2) : tagAt(i)}
           strend  == FirstOf(cs, found)
           tagged  == IF strend < start THEN slen ELSE strend
           String(from, end, skip) ==
               IF end = slen THEN Read(Quoted(cs, "s", from, slen - from, "$", "none"), slen)
               ELSE Read(Quoted(cs, "s", from, end - from, "$", "$"), end + skip)
<1>1. cs \in Seq(STRING) /\ slen \in Nat /\ "1" \in TokenTypes /\ "n" \in TokenTypes
    BY InputsAssumption DEF TokenTypes
<1>2. amount \in Nat /\ pos0 + 1 + amount <= slen /\ xlen \in Nat /\ pos0 + 1 + xlen <= slen
    <2>1. \A accept : /\ strlenspn(cs, pos0 + 1, accept) \in Nat
                      /\ pos0 + 1 + strlenspn(cs, pos0 + 1, accept) <= slen
        BY <1>1, SpanBound
    <2> QED BY <2>1
<1> HIDE DEF amount, xlen
<1>3. \/ parse_money(cs, pos0) = parse_word(cs, pos0)
      \/ amount > 0 /\ parse_money(cs, pos0) = Word(cs, "1", pos0, 1 + amount)
      \/ Is(cs, pos0 + 1, "$") /\ parse_money(cs, pos0) = String(pos0 + 2, dollars, 2)
      \/ parse_money(cs, pos0) = Single(cs, pos0, "n")
      \/ Is(cs, pos0 + xlen + 1, "$") /\ parse_money(cs, pos0) = String(start, tagged, xlen + 2)
    BY DEF parse_money, amount, xlen
<1>4. \A from, end, skip \in Nat :
         (/\ pos0 < from /\ from <= end
          /\ end = slen \/ end + skip <= slen) => Good(cs, pos0, String(from, end, skip))
    BY DollarStringIsGood
<1>5. found \in SUBSET Nat /\ \A i \in found : i < slen /\ i + (xlen + 2) <= slen
    BY <1>1, <1>2
<1>6. CASE amount > 0 /\ parse_money(cs, pos0) = Word(cs, "1", pos0, 1 + amount)
    BY <1>1, <1>2, <1>6, WordIsGood
<1>7. CASE Is(cs, pos0 + 1, "$") /\ parse_money(cs, pos0) = String(pos0 + 2, dollars, 2)
    <2>1. pos0 + 2 <= slen
        BY <1>1, <1>7 DEF Is
    <2>2. dollars \in Nat /\ (dollars = slen \/ (pos0 + 2 <= dollars /\ dollars + 2 <= slen))
        BY <1>1, Memchr2Bound
    <2> HIDE DEF dollars, String
    <2> QED BY <1>1, <1>4, <1>7, <2>1, <2>2
<1>8. CASE Is(cs, pos0 + xlen + 1, "$") /\ parse_money(cs, pos0) = String(start, tagged, xlen + 2)
    <2>1. start <= slen
        BY <1>1, <1>2, <1>8 DEF Is
    <2> HIDE DEF found
    <2>2. /\ strend \in Nat /\ strend <= slen
          /\ strend < slen => strend \in found
        BY <1>1, <1>5, FirstIsFound
    <2>3. start \in Nat /\ pos0 < start /\ xlen + 2 \in Nat
        BY <1>2
    <2> HIDE DEF strend, start
    <2>4. tagged \in Nat /\ start <= tagged /\ (tagged = slen \/ tagged + (xlen + 2) <= slen)
        <3>1. CASE strend < start
            BY <1>1, <2>1, <2>3, <3>1
        <3>2. CASE ~ (strend < start)
            <4>1. tagged = strend /\ start <= strend
                BY <2>2, <2>3, <3>2
            <4>2. strend < slen => strend + (xlen + 2) <= slen
                BY <1>5, <2>2
            <4> QED BY <1>1, <2>2, <4>1, <4>2
        <3> QED BY <3>1, <3>2
    <2> HIDE DEF tagged, String
    <2> QED BY <1>4, <1>8, <2>3, <2>4
<1> HIDE DEF String
<1> QED BY <1>1, <1>3, <1>6, <1>7, <1>8, WordParserIsGood, SingleIsGood

(* A number: each of its parts begins where the one before it ends, and    *)
(* what can begin one is a digit or a dot.                                 *)
LEMMA NumberIsGood ==
    ASSUME NEW cs \in Inputs, NEW pos0 \in Nat, pos0 < Len(cs),
           At(cs, pos0) \in Digits \cup {"."}
    PROVE  Good(cs, pos0, parse_number(cs, pos0))
<1> DEFINE slen   == Len(cs)
           digits == CASE IsIn(cs, pos0 + 1, {"x", "X"}) -> Hex
                       [] IsIn(cs, pos0 + 1, {"b", "B"}) -> {"0", "1"}
                       [] OTHER -> {}
           xlen   == strlenspn(cs, pos0 + 2, digits)
           EndOfDigits(i) == FirstOf(cs, {j \in i .. slen - 1 : At(cs, j) \notin Digits})
           whole  == EndOfDigits(pos0)
           dot    == Is(cs, whole, ".")
           fraction == IF dot THEN EndOfDigits(whole + 1) ELSE whole
           have_e == IsIn(cs, fraction, {"e", "E"})
           sign   == IF IsIn(cs, fraction + 1, {"+", "-"}) THEN fraction + 2 ELSE fraction + 1
           exponent == IF have_e THEN EndOfDigits(sign) ELSE fraction
           have_exp == have_e /\ exponent > sign
           suffix == /\ IsIn(cs, exponent, {"d", "D", "f", "F"})
                     /\ \/ exponent + 1 = slen
                        \/ IsIn(cs, exponent + 1, White \cup {";", "u", "U"})
           end    == IF suffix THEN exponent + 1 ELSE exponent
           type   == IF have_e /\ ~ have_exp THEN "n" ELSE "1"
           xtype  == IF xlen = 0 THEN "n" ELSE "1"
<1>1. cs \in Seq(STRING) /\ slen \in Nat /\ "1" \in TokenTypes /\ "n" \in TokenTypes
      /\ "." \in TokenTypes
    BY InputsAssumption DEF TokenTypes
<1>2. ASSUME NEW i \in Nat, i <= slen
      PROVE  /\ EndOfDigits(i) \in Nat /\ i <= EndOfDigits(i) /\ EndOfDigits(i) <= slen
             /\ (i < slen /\ At(cs, i) \in Digits) => i < EndOfDigits(i)
    <2> DEFINE found == {j \in i .. slen - 1 : At(cs, j) \notin Digits}
    <2>1. found \in SUBSET Nat /\ \A j \in found : j < slen /\ i <= j
        OBVIOUS
    <2>2. At(cs, i) \in Digits => i \notin found
        OBVIOUS
    <2>3. EndOfDigits(i) = FirstOf(cs, found)
        OBVIOUS
    <2> HIDE DEF found, EndOfDigits
    <2>4. /\ FirstOf(cs, found) \in Nat /\ FirstOf(cs, found) <= slen
          /\ FirstOf(cs, found) < slen => FirstOf(cs, found) \in found
        BY <1>1, <2>1, FirstIsFound
    <2>5. ASSUME i < slen, At(cs, i) \in Digits
          PROVE  i < FirstOf(cs, found)
        <3>1. i \notin found
            BY <2>2, <2>5
        <3> QED BY <2>1, <2>4, <2>5, <3>1
    <2>6. i <= FirstOf(cs, found)
        <3>1. CASE FirstOf(cs, found) < slen
            BY <2>1, <2>4, <3>1
        <3>2. CASE FirstOf(cs, found) = slen
            BY <1>2, <3>2
        <3> QED BY <1>1, <2>4, <3>1, <3>2
    <2> QED BY <2>3, <2>4, <2>5, <2>6
<1> HIDE DEF EndOfDigits
<1>3. /\ whole \in Nat /\ pos0 <= whole /\ whole <= slen
      /\ At(cs, pos0) \in Digits => pos0 < whole
    BY <1>2
<1>4. whole = pos0 => dot
    <2>1. whole = pos0 => At(cs, pos0) = "."
        BY <1>3
    <2> QED BY <2>1 DEF Is
<1> HIDE DEF whole
<1>5. dot => whole < slen
    BY DEF Is
<1>6. fraction \in Nat /\ pos0 < fraction /\ fraction <= slen
    <2>1. CASE dot
        <3>1. whole + 1 \in Nat /\ whole + 1 <= slen
            BY <1>1, <1>3, <1>5, <2>1
        <3> QED BY <1>2, <1>3, <2>1, <3>1
    <2>2. CASE ~ dot
        BY <1>3, <1>4, <2>2
    <2> QED BY <2>1, <2>2
<1> HIDE DEF dot, fraction
<1>7. exponent \in Nat /\ pos0 < exponent /\ exponent <= slen
    <2>1. CASE have_e
        <3>1. fraction < slen
            BY <2>1 DEF IsIn
        <3>2. sign \in Nat /\ pos0 < sign /\ sign <= slen
            BY <1>1, <1>6, <3>1 DEF IsIn
        <3> HIDE DEF sign
        <3> QED BY <1>2, <2>1, <3>2
    <2>2. CASE ~ have_e
        BY <1>6, <2>2
    <2> QED BY <2>1, <2>2
<1> HIDE DEF sign, have_e, exponent
<1>8. suffix => exponent < slen
    BY DEF IsIn
<1> HIDE DEF suffix
<1>9. end - pos0 \in Nat /\ pos0 < pos0 + (end - pos0) /\ pos0 + (end - pos0) <= slen
    BY <1>1, <1>7, <1>8
<1> HIDE DEF end, have_exp
<1>10. \/ digits # {} /\ parse_number(cs, pos0) = Word(cs, xtype, pos0, 2 + xlen)
       \/ parse_number(cs, pos0) = Single(cs, pos0, ".")
       \/ parse_number(cs, pos0) = Word(cs, type, pos0, end - pos0)
    BY DEF parse_number, whole, dot, fraction, have_e, sign, exponent, have_exp, suffix, end,
           EndOfDigits
<1>11. CASE digits # {} /\ parse_number(cs, pos0) = Word(cs, xtype, pos0, 2 + xlen)
    <2>1. pos0 + 2 <= slen
        BY <1>1, <1>11 DEF IsIn
    <2> HIDE DEF digits
    <2>2. xlen \in Nat /\ pos0 + 2 + xlen <= slen
        BY <1>1, <2>1, SpanBound
    <2> HIDE DEF xlen
    <2>3. 2 + xlen \in Nat /\ pos0 < pos0 + (2 + xlen) /\ pos0 + (2 + xlen) <= slen
        BY <2>2
    <2>4. xtype \in TokenTypes
        BY <1>1
    <2> QED BY <1>11, <2>3, <2>4, WordIsGood
<1>12. CASE parse_number(cs, pos0) = Word(cs, type, pos0, end - pos0)
    <2>1. type \in TokenTypes
        BY <1>1
    <2> HIDE DEF type
    <2> QED BY <1>9, <1>12, <2>1, WordIsGood
<1> QED BY <1>1, <1>10, <1>11, <1>12, SingleIsGood

-----------------------------------------------------------------------------
(* The characters.  Every one that a word does not begin with, and that    *)
(* the scan does not pass over, has a parser of its own.                   *)
OneOff == {"'", "dquote", "#", "$", "-", ".", "/", "?", "]", "@", "[", "\\", "tick"}
(* A character that ends a word is not given to the parser of words.       *)
LEMMA WordEndsAreParsed ==
    ASSUME NEW c \in WordEnds \cup {".", "tick"}, c \notin White
    PROVE  c \in OneOff \cup Operators1 \cup Operators2 \cup CharTokens
BY Zenon DEF WordEnds, OneOff, Operators1, Operators2, CharTokens

(* Letters with a parser of their own, and the dollar, can begin a word.   *)
Prefixing == {"$", "b", "B", "e", "E", "n", "N", "q", "Q", "u", "U", "x", "X"}
(* A character that may begin a prefixed string does not end a word.       *)
LEMMA PrefixesBeginWords ==
    ASSUME NEW c \in Prefixing
    PROVE  c \notin WordEnds \cup {"nul", ".", "tick"}
BY Zenon DEF WordEnds, White, Prefixing

(* A character that is a token is its own type.                            *)
LEMMA CharTokensAreTypes ==
    CharTokens \in SUBSET TokenTypes
BY Zenon DEF CharTokens, TokenTypes

(* Which parser is called: that of the character, or the one of words.     *)
LEMMA OneParser ==
    ASSUME NEW c, NEW cs, NEW pos0, NEW fl, NEW r, r = ParseBy(c, cs, pos0, fl)
    PROVE  \/ c \in {"'", "dquote"} /\ r = parse_string(cs, pos0)
           \/ c = "#" /\ r = parse_hash(cs, pos0, fl)
           \/ c = "$" /\ r = parse_money(cs, pos0)
           \/ c \in Operators1 /\ r = parse_operator1(cs, pos0)
           \/ c \in Operators2 /\ r = parse_operator2(cs, pos0)
           \/ c \in CharTokens /\ r = parse_char(cs, pos0)
           \/ c = "-" /\ r = parse_dash(cs, pos0, fl)
           \/ c \in Digits \cup {"."} /\ r = parse_number(cs, pos0)
           \/ c = "/" /\ r = parse_slash(cs, pos0)
           \/ c \in {"?", "]"} /\ r = parse_other(cs, pos0)
           \/ c = "@" /\ r = parse_var(cs, pos0)
           \/ c \in {"b", "B"} /\ r = parse_bstring(cs, pos0)
           \/ c \in {"e", "E"} /\ r = parse_estring(cs, pos0)
           \/ c \in {"n", "N"} /\ r = parse_nqstring(cs, pos0)
           \/ c \in {"q", "Q"} /\ r = parse_qstring(cs, pos0)
           \/ c \in {"u", "U"} /\ r = parse_ustring(cs, pos0)
           \/ c \in {"x", "X"} /\ r = parse_xstring(cs, pos0)
           \/ c = "[" /\ r = parse_bword(cs, pos0)
           \/ c = "\\" /\ r = parse_backslash(cs, pos0)
           \/ c = "tick" /\ r = parse_tick(cs, pos0)
           \/ /\ c \notin OneOff \cup Operators1 \cup Operators2 \cup CharTokens
              /\ r = parse_word(cs, pos0)
BY SMTT(30) DEF ParseBy, OneOff

(* Whatever the character, its parser moves the scan on.                   *)
LEMMA ParseByIsGood ==
    ASSUME NEW cs \in Inputs, NEW pos0 \in Nat, pos0 < Len(cs),
           NEW c, c = At(cs, pos0), c \notin Passed, NEW fl
    PROVE  Good(cs, pos0, ParseBy(c, cs, pos0, fl))
<1> DEFINE r == ParseBy(c, cs, pos0, fl)
<1>1. Len(cs) \in Nat
    BY InputsAssumption
<1>2. c \notin White /\ c # "nul"
    BY DEF Passed, White
<1> HIDE DEF r
<1>4. c \in Prefixing => BeginsWord(cs, pos0)
    BY PrefixesBeginWords DEF BeginsWord
<1>5. c \notin OneOff \cup Operators1 \cup Operators2 \cup CharTokens => BeginsWord(cs, pos0)
    BY <1>2, WordEndsAreParsed DEF BeginsWord
<1>6. "$" \in Prefixing
    BY DEF Prefixing
<1>7. (c \in {"'", "dquote"} /\ r = parse_string(cs, pos0)) => Good(cs, pos0, r)
    BY StringIsGood
<1>8. (c = "$" /\ r = parse_money(cs, pos0)) => Good(cs, pos0, r)
    BY <1>4, <1>6, MoneyIsGood
<1>9. (c \in CharTokens /\ r = parse_char(cs, pos0)) => Good(cs, pos0, r)
    BY CharTokensAreTypes, SingleIsGood DEF parse_char
<1>10. r = parse_other(cs, pos0) => Good(cs, pos0, r)
    <2>1. "?" \in TokenTypes
        BY DEF TokenTypes
    <2> QED BY <2>1, SingleIsGood DEF parse_other
<1>11. (c \in Digits \cup {"."} /\ r = parse_number(cs, pos0)) => Good(cs, pos0, r)
    BY NumberIsGood
<1>12. BeginsWord(cs, pos0) =>
          /\ r \in {parse_bstring(cs, pos0), parse_xstring(cs, pos0)} => Good(cs, pos0, r)
          /\ r \in {parse_estring(cs, pos0), parse_ustring(cs, pos0)} => Good(cs, pos0, r)
          /\ r \in {parse_nqstring(cs, pos0), parse_qstring(cs, pos0)} => Good(cs, pos0, r)
          /\ r = parse_word(cs, pos0) => Good(cs, pos0, r)
    BY BitsAreGood, EStringIsGood, UStringIsGood, QStringsAreGood, WordParserIsGood
       DEF parse_bstring, parse_xstring
<1>13. /\ r \in {parse_hash(cs, pos0, fl), parse_dash(cs, pos0, fl)} => Good(cs, pos0, r)
       /\ r \in {parse_operator1(cs, pos0), parse_operator2(cs, pos0)} => Good(cs, pos0, r)
       /\ r \in {parse_slash(cs, pos0), parse_backslash(cs, pos0)} => Good(cs, pos0, r)
       /\ r \in {parse_var(cs, pos0), parse_bword(cs, pos0)} => Good(cs, pos0, r)
       /\ r = parse_tick(cs, pos0) => Good(cs, pos0, r)
    BY HashAndDashAreGood, Operator1IsGood, Operator2IsGood, SlashIsGood, BackslashIsGood,
       VarIsGood, BWordIsGood, TickIsGood
<1>14. r = ParseBy(c, cs, pos0, fl)
    BY DEF r
<1>15. Good(cs, pos0, r)
    BY <1>4, <1>5, <1>7, <1>8, <1>9, <1>10, <1>11, <1>12, <1>13, <1>14, OneParser DEF Prefixing
<1> QED BY <1>14, <1>15

(* The next character is after the scan position, and not one passed over. *)
LEMMA NextCharBound ==
    ASSUME NEW cs \in Inputs, NEW from \in Nat, from <= Len(cs)
    PROVE  /\ NextChar(cs, from) \in Nat /\ from <= NextChar(cs, from)
           /\ NextChar(cs, from) <= Len(cs)
           /\ NextChar(cs, from) < Len(cs) => At(cs, NextChar(cs, from)) \notin Passed
<1> DEFINE found == {i \in from .. Len(cs) - 1 : At(cs, i) \notin Passed}
<1>1. cs \in Seq(STRING) /\ Len(cs) \in Nat
    BY InputsAssumption
<1>2. found \in SUBSET Nat /\ \A i \in found : i < Len(cs) /\ from <= i /\ At(cs, i) \notin Passed
    OBVIOUS
<1>3. NextChar(cs, from) = FirstOf(cs, found)
    BY DEF NextChar
<1> HIDE DEF found
<1>4. /\ FirstOf(cs, found) \in Nat /\ FirstOf(cs, found) <= Len(cs)
      /\ FirstOf(cs, found) < Len(cs) => FirstOf(cs, found) \in found
    BY <1>1, <1>2, FirstIsFound
<1> QED BY <1>1, <1>2, <1>3, <1>4

(* One call of the tokenizer, at any position, in any context: the token   *)
(* stands in the input from the scan position to the new one, which is     *)
(* further on.                                                             *)
THEOREM TokenizerIsGood ==
    ASSUME NEW cs \in Inputs, NEW from \in 0 .. Len(cs), NEW context \in Contexts,
           HasToken(cs, from, context)
    PROVE  Good(cs, from, libinjection_sqli_tokenize(cs, from, context))
<1>1. Len(cs) \in Nat /\ Len(cs) > 0 /\ from \in Nat /\ from <= Len(cs)
    BY InputsAssumption DEF HasToken
<1>2. CASE AtQuotedStart(from, context)
    <2>1. flag2delim(context) \in {"'", "dquote", "tick"}
        BY <1>2 DEF flag2delim, AtQuotedStart, Contexts
    <2>2. Good(cs, 0, parse_string_core(cs, 0, flag2delim(context), 0))
        BY <1>1, <2>1, StringCoreIsGood
    <2> QED BY <1>2, <2>2 DEF libinjection_sqli_tokenize, AtQuotedStart
<1>3. CASE ~ AtQuotedStart(from, context)
    <2> DEFINE next == NextChar(cs, from)
    <2>1. next \in Nat /\ from <= next /\ next < Len(cs) /\ At(cs, next) \notin Passed
        BY <1>1, <1>3, NextCharBound DEF HasToken
    <2>2. libinjection_sqli_tokenize(cs, from, context) = ParseBy(At(cs, next), cs, next, context)
        BY <1>3 DEF libinjection_sqli_tokenize
    <2> HIDE DEF next
    <2>3. Good(cs, next, ParseBy(At(cs, next), cs, next, context))
        BY <2>1, ParseByIsGood
    <2> QED BY <1>1, <2>1, <2>2, <2>3, GoodFromBefore
<1> QED BY <1>2, <1>3

-----------------------------------------------------------------------------
(* Comments.  What memchr returns is the first of its kind, or the end.    *)
LEMMA MemchrFirst ==
    ASSUME NEW cs, Len(cs) \in Nat, NEW from \in Nat, from <= Len(cs), NEW c
    PROVE  LET r == memchr(cs, from, c)
           IN  /\ r \in Nat /\ from <= r /\ r <= Len(cs)
               /\ r < Len(cs) => At(cs, r) = c
               /\ \A i \in from .. r - 1 : At(cs, i) # c
<1> DEFINE found == {i \in from .. Len(cs) - 1 : At(cs, i) = c}
           r == memchr(cs, from, c)
<1>1. found \in SUBSET Nat /\ \A i \in found : i < Len(cs) /\ from <= i /\ At(cs, i) = c
    OBVIOUS
<1>2. \A i \in from .. Len(cs) - 1 : At(cs, i) = c => i \in found
    OBVIOUS
<1>3. r = FirstOf(cs, found)
    BY DEF memchr
<1> HIDE DEF found, r
<1>4. /\ r \in Nat /\ r <= Len(cs) /\ (r < Len(cs) => r \in found)
      /\ \A i \in found : r <= i
    BY <1>1, <1>3, FirstIsFound
<1>5. \A i \in from .. r - 1 : At(cs, i) # c
    <2> SUFFICES ASSUME NEW i \in from .. r - 1, At(cs, i) = c PROVE FALSE
        OBVIOUS
    <2>1. i \in from .. Len(cs) - 1 /\ i < r
        BY <1>4
    <2> QED BY <1>2, <1>4, <2>1
<1>6. from <= r
    BY <1>1, <1>4
<1> QED BY <1>1, <1>4, <1>5, <1>6 DEF r

(* And what memchr2 returns is the first such pair.                        *)
LEMMA Memchr2First ==
    ASSUME NEW cs, Len(cs) \in Nat, NEW from \in Nat, NEW to \in Nat, to <= Len(cs), NEW a, NEW b
    PROVE  LET r == memchr2(cs, from, to, a, b)
               Pair(i) == At(cs, i) = a /\ At(cs, i + 1) = b
           IN  /\ r \in Nat /\ r <= Len(cs)
               /\ r < Len(cs) => r \in from .. to - 2 /\ Pair(r)
               /\ \A i \in from .. to - 2 : Pair(i) => r <= i
<1> DEFINE found == {i \in from .. to - 2 : At(cs, i) = a /\ At(cs, i + 1) = b}
           r == memchr2(cs, from, to, a, b)
<1>1. /\ found \in SUBSET Nat
      /\ \A i \in found : i < Len(cs) /\ i \in from .. to - 2
                          /\ At(cs, i) = a /\ At(cs, i + 1) = b
    OBVIOUS
<1>2. \A i \in from .. to - 2 : (At(cs, i) = a /\ At(cs, i + 1) = b) => i \in found
    OBVIOUS
<1>3. r = FirstOf(cs, found)
    BY DEF memchr2
<1> HIDE DEF found, r
<1>4. /\ r \in Nat /\ r <= Len(cs) /\ (r < Len(cs) => r \in found)
      /\ \A i \in found : r <= i
    BY <1>1, <1>3, FirstIsFound
<1> QED BY <1>1, <1>2, <1>4 DEF r

(* What a parser makes: of what type, and opened by which quote.           *)
QuoteMarks == {"'", "dquote", "tick", "u"}
IsComment(r) == r.token.type \in {"c", "X"}
IsQuoted(r) == r.token.text.open \in QuoteMarks
Plain(r) == ~ IsComment(r) /\ ~ IsQuoted(r)

(* What the record of one call holds.                                      *)
LEMMA WhatIsRead ==
    \A cs, type, start, len, open, close, next :
        LET r == Read(Quoted(cs, type, start, len, open, close), next)
        IN  /\ r.token.type = type /\ r.pos = next
            /\ r.token.text.pos = start
            /\ r.token.text.open = open /\ r.token.text.close = close
BY DEF Read, Quoted

(* A word and a single character are read in the same way, unquoted.       *)
LEMMA WordsAreRead ==
    \A cs, type, start, len :
        /\ Word(cs, type, start, len)
             = Read(Quoted(cs, type, start, len, "none", "none"), start + len)
        /\ Single(cs, start, type)
             = Read(Quoted(cs, type, start, 1, "none", "none"), start + 1)
BY DEF Word, Single, st_assign

(* Neither is quoted, and neither is a comment unless its type says so.    *)
LEMMA PlainWords ==
    \A cs, type, start, len :
        /\ ~ IsQuoted(Word(cs, type, start, len)) /\ ~ IsQuoted(Single(cs, start, type))
        /\ type \notin {"c", "X"} => /\ Plain(Word(cs, type, start, len))
                                     /\ Plain(Single(cs, start, type))
BY WhatIsRead, WordsAreRead DEF Plain, IsComment, IsQuoted, QuoteMarks

(* A string that does not open with a quote is plain too.                  *)
LEMMA PlainStrings ==
    \A cs, start, len, open, close, next :
        open \notin QuoteMarks => Plain(Read(Quoted(cs, "s", start, len, open, close), next))
BY WhatIsRead DEF Plain, IsComment, IsQuoted

(* Only three parsers make comments: no word of the table is one.          *)
LEMMA WordsAreNoComments ==
    \A w : lookup(w) \notin {"c", "X"}
BY WordsAssumption DEF lookup

(* A word is plain, whatever it is looked up as.                           *)
LEMMA WordParserIsPlain ==
    \A cs, p : Plain(parse_word(cs, p))
<1> SUFFICES ASSUME NEW cs, NEW p PROVE Plain(parse_word(cs, p))
    OBVIOUS
<1>1. \/ \E w, len : parse_word(cs, p) = Word(cs, lookup(w), p, len)
      \/ \E len : parse_word(cs, p) = Word(cs, "n", p, len)
    BY Zenon DEF parse_word
<1> QED BY <1>1, PlainWords, WordsAreNoComments

(* What a dollar begins.                                                   *)
LEMMA MoneyIsPlain ==
    \A cs, p : Plain(parse_money(cs, p))
<1> SUFFICES ASSUME NEW cs, NEW p PROVE Plain(parse_money(cs, p))
    OBVIOUS
<1> DEFINE slen    == Len(cs)
           amount  == strlenspn(cs, p + 1, AmountChars)
           xlen    == strlenspn(cs, p + 1, Letters)
           start   == p + xlen + 2
           dollars == memchr2(cs, p + 2, slen, "$", "$")
           tagAt(i) == \A k \in 0 .. xlen + 1 : At(cs, i + k) = At(cs, p + k)
           strend  == FirstOf(cs, {i \in xlen + 2 .. slen - p - (xlen + 2) : tagAt(i)})
           tagged  == IF strend < start THEN slen ELSE strend
           String(from, end, skip) ==
               IF end = slen THEN Read(Quoted(cs, "s", from, slen - from, "$", "none"), slen)
               ELSE Read(Quoted(cs, "s", from, end - from, "$", "$"), end + skip)
<1> HIDE DEF amount, xlen
<1>1. \/ parse_money(cs, p) = parse_word(cs, p)
      \/ parse_money(cs, p) = Word(cs, "1", p, 1 + amount)
      \/ parse_money(cs, p) = String(p + 2, dollars, 2)
      \/ parse_money(cs, p) = Single(cs, p, "n")
      \/ parse_money(cs, p) = String(start, tagged, xlen + 2)
    BY DEF parse_money, amount, xlen
<1>2. ASSUME NEW from, NEW end, NEW skip PROVE Plain(String(from, end, skip))
    BY PlainStrings DEF QuoteMarks
<1> HIDE DEF String, start, dollars, tagged
<1> QED BY <1>1, <1>2, PlainWords, WordParserIsPlain

(* So is a number, or the dot that is none.                                *)
LEMMA NumberIsPlain ==
    \A cs, p : Plain(parse_number(cs, p))
<1> SUFFICES ASSUME NEW cs, NEW p PROVE Plain(parse_number(cs, p))
    OBVIOUS
<1>1. \/ \E type \in {"n", "1"} : \E len : parse_number(cs, p) = Word(cs, type, p, len)
      \/ parse_number(cs, p) = Single(cs, p, ".")
    BY Zenon DEF parse_number
<1> QED BY <1>1, PlainWords

(* So are operators, a bracketed word, strings of bits and q strings.      *)
LEMMA OthersArePlain ==
    \A cs, p, accept, offset :
        /\ Plain(parse_operator1(cs, p)) /\ Plain(parse_operator2(cs, p))
        /\ Plain(parse_other(cs, p)) /\ Plain(parse_backslash(cs, p))
        /\ Plain(parse_bword(cs, p)) /\ Plain(parse_bits(cs, p, accept))
        /\ Plain(parse_qstring_core(cs, p, offset))
<1> SUFFICES ASSUME NEW cs, NEW p, NEW accept, NEW offset
    PROVE  /\ Plain(parse_operator1(cs, p)) /\ Plain(parse_operator2(cs, p))
           /\ Plain(parse_other(cs, p)) /\ Plain(parse_backslash(cs, p))
           /\ Plain(parse_bword(cs, p)) /\ Plain(parse_bits(cs, p, accept))
           /\ Plain(parse_qstring_core(cs, p, offset))
    OBVIOUS
<1>1. Plain(parse_operator1(cs, p))
    BY PlainWords DEF parse_operator1
<1>2. Plain(parse_operator2(cs, p))
    <2>1. \/ parse_operator2(cs, p) = Word(cs, "o", p, 3)
          \/ parse_operator2(cs, p) = Word(cs, lookup(Val(cs, p, 2)), p, 2)
          \/ parse_operator2(cs, p) = Single(cs, p, ":")
          \/ parse_operator2(cs, p) = parse_operator1(cs, p)
        BY DEF parse_operator2
    <2> QED BY <1>1, <2>1, PlainWords, WordsAreNoComments
<1>3. Plain(parse_other(cs, p)) /\ Plain(parse_backslash(cs, p)) /\ Plain(parse_bword(cs, p))
    BY PlainWords DEF parse_other, parse_backslash, parse_bword
<1>4. Plain(parse_bits(cs, p, accept))
    <2>1. \/ \E len : parse_bits(cs, p, accept) = Word(cs, "1", p, len)
          \/ parse_bits(cs, p, accept) = parse_word(cs, p)
        BY Zenon DEF parse_bits
    <2> QED BY <2>1, PlainWords, WordParserIsPlain
<1>5. Plain(parse_qstring_core(cs, p, offset))
    <2>1. \/ \E start, len, close, next :
                parse_qstring_core(cs, p, offset)
                   = Read(Quoted(cs, "s", start, len, "q", close), next)
          \/ parse_qstring_core(cs, p, offset) = parse_word(cs, p)
        BY Zenon DEF parse_qstring_core
    <2>2. "q" \notin QuoteMarks
        BY DEF QuoteMarks
    <2> QED BY <2>1, <2>2, PlainStrings, WordParserIsPlain
<1> QED BY <1>1, <1>2, <1>3, <1>4, <1>5

(* What a quote begins is a string, a name or a variable.                  *)
LEMMA CoreIsRead ==
    \A cs, p, delim, offset :
        \E start, len, open, close, next :
            parse_string_core(cs, p, delim, offset)
               = Read(Quoted(cs, "s", start, len, open, close), next)
<1> SUFFICES ASSUME NEW cs, NEW p, NEW delim, NEW offset
             PROVE  \E start, len, open, close, next :
                       parse_string_core(cs, p, delim, offset)
                          = Read(Quoted(cs, "s", start, len, open, close), next)
    OBVIOUS
<1> DEFINE start == p + offset
           close == ClosingQuote(cs, start, delim)
           open  == IF offset > 0 THEN delim ELSE "none"
           len   == close - start
           past  == close + 1
<1>1. \/ parse_string_core(cs, p, delim, offset)
           = Read(Quoted(cs, "s", start, len, open, "none"), close)
      \/ parse_string_core(cs, p, delim, offset)
           = Read(Quoted(cs, "s", start, len, open, delim), past)
    BY DEF parse_string_core
<1> HIDE DEF start, close, open, len, past
<1> QED BY <1>1

WithType(r, u) == [r EXCEPT !.token.type = u]
WithQuotes(r, a, b) == [r EXCEPT !.token.text.open = a, !.token.text.close = b]
(* Another type, or other quotes, of what was read.                        *)
LEMMA EditedReads ==
    \A cs, type, start, len, open, close, next, u, a, b :
        /\ WithType(Read(Quoted(cs, type, start, len, open, close), next), u)
             = Read(Quoted(cs, u, start, len, open, close), next)
        /\ WithQuotes(Read(Quoted(cs, type, start, len, open, close), next), a, b)
             = Read(Quoted(cs, type, start, len, a, b), next)
<1> SUFFICES ASSUME NEW cs, NEW type, NEW start, NEW len, NEW open, NEW close, NEW next,
                    NEW u, NEW a, NEW b
    PROVE  /\ WithType(Read(Quoted(cs, type, start, len, open, close), next), u)
                = Read(Quoted(cs, u, start, len, open, close), next)
           /\ WithQuotes(Read(Quoted(cs, type, start, len, open, close), next), a, b)
                = Read(Quoted(cs, type, start, len, a, b), next)
    OBVIOUS
<1> DEFINE val == Val(cs, start, Stored(len))
           n   == Stored(len)
           r   == [token |-> [type |-> type, val |-> val,
                              text |-> [pos |-> start, len |-> n, open |-> open, close |-> close]],
                   pos |-> next]
<1>1. Read(Quoted(cs, type, start, len, open, close), next) = r
    BY DEF Read, Quoted
<1>2. Read(Quoted(cs, u, start, len, open, close), next)
        = [token |-> [type |-> u, val |-> val,
                      text |-> [pos |-> start, len |-> n, open |-> open, close |-> close]],
           pos |-> next]
    BY DEF Read, Quoted
<1>3. Read(Quoted(cs, type, start, len, a, b), next)
        = [token |-> [type |-> type, val |-> val,
                      text |-> [pos |-> start, len |-> n, open |-> a, close |-> b]],
           pos |-> next]
    BY DEF Read, Quoted
<1> HIDE DEF val, n
<1>4. [r EXCEPT !.token.type = u]
        = [token |-> [type |-> u, val |-> val,
                      text |-> [pos |-> start, len |-> n, open |-> open, close |-> close]],
           pos |-> next]
    OBVIOUS
<1>5. [r EXCEPT !.token.text.open = a, !.token.text.close = b]
        = [token |-> [type |-> type, val |-> val,
                      text |-> [pos |-> start, len |-> n, open |-> a, close |-> b]],
           pos |-> next]
    <2>1. [r EXCEPT !.token.text.open = a, !.token.text.close = b]
            = [[r EXCEPT !.token.text.open = a] EXCEPT !.token.text.close = b]
        OBVIOUS
    <2>2. [r EXCEPT !.token.text.open = a]
            = [token |-> [type |-> type, val |-> val,
                          text |-> [pos |-> start, len |-> n, open |-> a, close |-> close]],
               pos |-> next]
        OBVIOUS
    <2>3. [[token |-> [type |-> type, val |-> val,
                       text |-> [pos |-> start, len |-> n, open |-> a, close |-> close]],
            pos |-> next] EXCEPT !.token.text.close = b]
            = [token |-> [type |-> type, val |-> val,
                          text |-> [pos |-> start, len |-> n, open |-> a, close |-> b]],
               pos |-> next]
        OBVIOUS
    <2> HIDE DEF r
    <2> QED BY <2>1, <2>2, <2>3
<1>6. /\ WithType(r, u) = [r EXCEPT !.token.type = u]
      /\ WithQuotes(r, a, b) = [r EXCEPT !.token.text.open = a, !.token.text.close = b]
    BY DEF WithType, WithQuotes
<1> HIDE DEF r
<1> QED BY <1>1, <1>2, <1>3, <1>4, <1>5, <1>6

(* What a quote begins is no comment, whatever type it is then given.      *)
LEMMA StringsAreNoComments ==
    \A cs, p : /\ ~ IsComment(parse_string(cs, p))
               /\ ~ IsComment(parse_tick(cs, p))
               /\ ~ IsComment(parse_var(cs, p))
               /\ ~ IsComment(parse_estring(cs, p))
               /\ ~ IsComment(parse_ustring(cs, p))
<1> SUFFICES ASSUME NEW cs, NEW p
             PROVE  /\ ~ IsComment(parse_string(cs, p))
                    /\ ~ IsComment(parse_tick(cs, p))
                    /\ ~ IsComment(parse_var(cs, p))
                    /\ ~ IsComment(parse_estring(cs, p))
                    /\ ~ IsComment(parse_ustring(cs, p))
    OBVIOUS
<1>1. ASSUME NEW r, NEW delim, NEW offset, NEW q, r = parse_string_core(cs, q, delim, offset)
      PROVE  /\ r.token.type = "s"
             /\ \A u : WithType(r, u).token.type = u
             /\ \A a, b : WithQuotes(r, a, b).token.type = "s"
    <2>1. PICK start, len, open, close, next :
             r = Read(Quoted(cs, "s", start, len, open, close), next)
        BY <1>1, CoreIsRead
    <2> QED BY <2>1, EditedReads, WhatIsRead
<1>2. \A q : /\ parse_string(cs, q).token.type = "s"
             /\ WithType(parse_string(cs, q), "v").token.type = "v"
             /\ \A a, b : WithQuotes(parse_string(cs, q), a, b).token.type = "s"
    BY <1>1 DEF parse_string
<1>3. ASSUME NEW q PROVE /\ parse_tick(cs, q).token.type \in {"f", "n"}
                         /\ WithType(parse_tick(cs, q), "v").token.type = "v"
    <2> DEFINE type == IF lookup(parse_string_core(cs, q, "tick", 1).token.val) = "f" THEN "f" ELSE "n"
    <2>1. PICK start, len, open, close, next :
             parse_string_core(cs, q, "tick", 1)
                = Read(Quoted(cs, "s", start, len, open, close), next)
        BY CoreIsRead
    <2>2. parse_tick(cs, q) = WithType(parse_string_core(cs, q, "tick", 1), type)
        BY DEF parse_tick, WithType
    <2>3. type \in {"f", "n"}
        OBVIOUS
    <2> HIDE DEF type
    <2>4. parse_tick(cs, q) = Read(Quoted(cs, type, start, len, open, close), next)
        BY <2>1, <2>2, EditedReads
    <2> QED BY <2>3, <2>4, EditedReads, WhatIsRead
<1>4. ~ IsComment(parse_estring(cs, p))
    BY <1>1, WordParserIsPlain DEF parse_estring, Plain, IsComment
<1>5. ~ IsComment(parse_var(cs, p))
    <2>1. \/ \E q : parse_var(cs, p) = WithType(parse_tick(cs, q), "v")
          \/ \E q : parse_var(cs, p) = WithType(parse_string(cs, q), "v")
          \/ \E q, len : parse_var(cs, p) = Word(cs, "v", q, len)
        BY Zenon DEF parse_var, WithType
    <2> QED BY <1>2, <1>3, <2>1, PlainWords DEF Plain, IsComment
<1>6. ~ IsComment(parse_ustring(cs, p))
    <2>1. \/ \E q, a, b : parse_ustring(cs, p) = WithQuotes(parse_string(cs, q), a, b)
          \/ parse_ustring(cs, p) = parse_word(cs, p)
        BY DEF parse_ustring, WithQuotes
    <2> QED BY <1>2, <2>1, WordParserIsPlain DEF Plain, IsComment
<1> QED BY <1>2, <1>3, <1>4, <1>5, <1>6 DEF IsComment

(* No character that is its own token is the type of a comment.            *)
LEMMA CharsAreNoComments == "c" \notin CharTokens /\ "X" \notin CharTokens
BY Zenon DEF CharTokens

(* So a comment was read from a hash, a dash or a slash.                   *)
LEMMA CommentParsers ==
    ASSUME NEW cs, NEW p, NEW fl, NEW r, r = ParseBy(At(cs, p), cs, p, fl), IsComment(r)
    PROVE  \/ At(cs, p) = "#" /\ r = parse_hash(cs, p, fl)
           \/ At(cs, p) = "-" /\ r = parse_dash(cs, p, fl)
           \/ At(cs, p) = "/" /\ r = parse_slash(cs, p)
<1> DEFINE c == At(cs, p)
<1>1. ASSUME c \in CharTokens, r = parse_char(cs, p) PROVE FALSE
    BY <1>1, PlainWords, CharsAreNoComments DEF parse_char, Plain
<1> HIDE DEF c
<1>2. r = ParseBy(c, cs, p, fl)
    BY DEF c
<1>3. \A q : ~ IsComment(parse_nqstring(cs, q))
    BY StringsAreNoComments, OthersArePlain DEF parse_nqstring, Plain
<1>4. \/ c = "#" /\ r = parse_hash(cs, p, fl)
      \/ c = "-" /\ r = parse_dash(cs, p, fl)
      \/ c = "/" /\ r = parse_slash(cs, p)
    BY <1>1, <1>2, <1>3, OneParser, WordParserIsPlain, MoneyIsPlain, NumberIsPlain, OthersArePlain,
       StringsAreNoComments DEF parse_bstring, parse_xstring, parse_qstring, Plain
<1> QED BY <1>4 DEF c

(* The same of any input, position and context: CommentEnds of one call.   *)
EndsComment(cs, start, i) ==
    IF At(cs, start) = "/" THEN /\ i >= start + 4
                                /\ At(cs, i - 2) = "*" /\ At(cs, i - 1) = "/"
    ELSE At(cs, i - 1) = "newline"
WholeComment(cs, start, fl, r) ==
    /\ r.pos = Len(cs) \/ EndsComment(cs, start, r.pos)
    /\ \A i \in start + 1 .. r.pos - 1 : ~ EndsComment(cs, start, i)
    /\ At(cs, start) = "/" =>
          (r.token.type = "X"
             <=> \/ /\ EndsComment(cs, start, r.pos)
                    /\ \E i \in start + 2 .. r.pos - 3 : At(cs, i) = "/" /\ At(cs, i + 1) = "*"
                 \/ Is(cs, start + 2, "!"))
    /\ (At(cs, start) = "-" /\ fl.dialect = "mysql") =>
          start + 2 = Len(cs) \/ At(cs, start + 2) \in White
    /\ At(cs, start) = "#" => fl.dialect = "mysql"

(* To the end of the line: the first one.                                  *)
LEMMA EolCommentIsWhole ==
    ASSUME NEW cs, Len(cs) \in Nat, NEW start \in Nat, start < Len(cs),
           At(cs, start) \in {"#", "-"}
    PROVE  LET r == parse_eol_comment(cs, start)
           IN  /\ r.pos = Len(cs) \/ EndsComment(cs, start, r.pos)
               /\ \A i \in start + 1 .. r.pos - 1 : ~ EndsComment(cs, start, i)
<1> DEFINE end == memchr(cs, start, "newline")
           r == parse_eol_comment(cs, start)
<1>1. /\ end \in Nat /\ start <= end /\ end <= Len(cs)
      /\ end < Len(cs) => At(cs, end) = "newline"
      /\ \A i \in start .. end - 1 : At(cs, i) # "newline"
    BY MemchrFirst
<1>2. r.pos = IF end = Len(cs) THEN end ELSE end + 1
    BY WhatIsRead DEF parse_eol_comment, st_assign
<1> HIDE DEF end, r
<1>3. \A i : EndsComment(cs, start, i) <=> At(cs, i - 1) = "newline"
    BY DEF EndsComment
<1>4. r.pos = Len(cs) \/ EndsComment(cs, start, r.pos)
    <2>1. CASE end < Len(cs)
        <3>1. r.pos = end + 1 /\ r.pos - 1 = end
            BY <1>1, <1>2, <2>1
        <3> QED BY <1>1, <1>3, <2>1, <3>1
    <2>2. CASE end = Len(cs)
        BY <1>2, <2>2
    <2> QED BY <1>1, <2>1, <2>2
<1>5. \A i \in start + 1 .. r.pos - 1 : ~ EndsComment(cs, start, i)
    <2> SUFFICES ASSUME NEW i \in start + 1 .. r.pos - 1 PROVE At(cs, i - 1) # "newline"
        BY <1>3
    <2>1. r.pos \in Nat /\ r.pos <= end + 1
        BY <1>1, <1>2
    <2>2. i - 1 \in start .. end - 1
        BY <1>1, <2>1
    <2> QED BY <1>1, <2>2
<1> QED BY <1>4, <1>5 DEF r

(* In the style of C: the first two characters that close it; nested if it *)
(* has closed and another has opened before.                               *)
LEMMA SlashIsWhole ==
    ASSUME NEW cs, Len(cs) \in Nat, NEW start \in Nat, start < Len(cs),
           At(cs, start) = "/", IsComment(parse_slash(cs, start)), NEW fl
    PROVE  WholeComment(cs, start, fl, parse_slash(cs, start))
<1> DEFINE close == CommentEnd(cs, start)
           inner == memchr2(cs, start + 2, close + 1, "/", "*")
           nested == close < Len(cs) /\ inner < Len(cs)
           r == parse_slash(cs, start)
           type == IF nested \/ is_mysql_comment(cs, start) THEN "X" ELSE "c"
           len == IF close < Len(cs) THEN close + 2 - start ELSE Len(cs) - start
<1>1. r = Word(cs, type, start, len)
    <2>1. Is(cs, start + 1, "*")
        BY OthersArePlain DEF parse_slash, Plain
    <2> QED BY <2>1 DEF parse_slash
<1>2. /\ close \in Nat /\ close <= Len(cs)
      /\ close < Len(cs) => /\ close \in start + 2 .. Len(cs) - 2
                            /\ At(cs, close) = "*" /\ At(cs, close + 1) = "/"
      /\ \A i \in start + 2 .. Len(cs) - 2 : (At(cs, i) = "*" /\ At(cs, i + 1) = "/") => close <= i
    <2>1. start + 2 \in Nat
        OBVIOUS
    <2> QED BY <2>1, Memchr2First DEF CommentEnd
<1> HIDE DEF close
<1>3. close < Len(cs) =>
         (inner < Len(cs) <=> \E i \in start + 2 .. close - 1 : At(cs, i) = "/" /\ At(cs, i + 1) = "*")
    <2> SUFFICES ASSUME close < Len(cs)
                 PROVE  inner < Len(cs)
                          <=> \E i \in start + 2 .. close - 1 : At(cs, i) = "/" /\ At(cs, i + 1) = "*"
        OBVIOUS
    <2>1. start + 2 \in Nat /\ close + 1 \in Nat /\ close + 1 <= Len(cs) /\ (close + 1) - 2 = close - 1
        BY <1>2
    <2>2. /\ inner < Len(cs) => /\ inner \in start + 2 .. (close + 1) - 2
                                /\ At(cs, inner) = "/" /\ At(cs, inner + 1) = "*"
          /\ \A i \in start + 2 .. (close + 1) - 2 :
                (At(cs, i) = "/" /\ At(cs, i + 1) = "*") => inner <= i
          /\ inner \in Nat
        BY <2>1, Memchr2First
    <2> HIDE DEF inner
    <2>3. \A i \in start + 2 .. close - 1 : i < Len(cs)
        BY <1>2
    <2> QED BY <2>1, <2>2, <2>3
<1> HIDE DEF inner
<1>4. r.pos = start + len /\ r.token.type = type
    BY <1>1, WordsAreRead, WhatIsRead
<1>5. r.pos = IF close < Len(cs) THEN close + 2 ELSE Len(cs)
    BY <1>2, <1>4
<1>6. \A i : EndsComment(cs, start, i)
                <=> (i >= start + 4 /\ At(cs, i - 2) = "*" /\ At(cs, i - 1) = "/")
    BY DEF EndsComment
<1>7. \A i \in start + 1 .. r.pos - 1 : ~ EndsComment(cs, start, i)
    <2> SUFFICES ASSUME NEW i \in start + 1 .. r.pos - 1, i >= start + 4,
                        At(cs, i - 2) = "*", At(cs, i - 1) = "/"
                 PROVE  FALSE
        BY <1>6
    <2>1. i - 2 \in start + 2 .. Len(cs) - 2 /\ (i - 2) + 1 = i - 1
        BY <1>2, <1>5
    <2>2. close <= i - 2
        BY <1>2, <2>1
    <2> QED BY <1>2, <1>5, <2>2
<1>8. EndsComment(cs, start, r.pos) <=> close < Len(cs)
    <2>1. CASE close < Len(cs)
        <3>1. r.pos = close + 2 /\ r.pos - 2 = close /\ r.pos - 1 = close + 1 /\ r.pos >= start + 4
            BY <1>2, <1>5, <2>1
        <3> QED BY <1>2, <1>6, <2>1, <3>1
    <2>2. ASSUME ~ (close < Len(cs)), EndsComment(cs, start, r.pos) PROVE FALSE
        <3>1. r.pos = Len(cs) /\ r.pos >= start + 4 /\ close = Len(cs)
            BY <1>2, <1>5, <1>6, <2>2
        <3>2. /\ Len(cs) - 2 \in start + 2 .. Len(cs) - 2 /\ (Len(cs) - 2) + 1 = Len(cs) - 1
              /\ At(cs, Len(cs) - 2) = "*" /\ At(cs, Len(cs) - 1) = "/"
            BY <1>6, <2>2, <3>1
        <3>3. close <= Len(cs) - 2
            BY <1>2, <3>2
        <3> QED BY <3>1, <3>3
    <2> QED BY <2>1, <2>2
<1>9. r.token.type = "X"
        <=> \/ /\ EndsComment(cs, start, r.pos)
               /\ \E i \in start + 2 .. r.pos - 3 : At(cs, i) = "/" /\ At(cs, i + 1) = "*"
            \/ Is(cs, start + 2, "!")
    <2>1. r.token.type = "X" <=> (nested \/ Is(cs, start + 2, "!"))
        BY <1>4 DEF is_mysql_comment
    <2>2. close < Len(cs) => r.pos - 3 = close - 1
        BY <1>2, <1>5
    <2>3. nested <=> /\ EndsComment(cs, start, r.pos)
                     /\ \E i \in start + 2 .. r.pos - 3 : At(cs, i) = "/" /\ At(cs, i + 1) = "*"
        BY <1>3, <1>8, <2>2
    <2> QED BY <2>1, <2>3
<1>10. r.pos = Len(cs) \/ EndsComment(cs, start, r.pos)
    BY <1>5, <1>8
<1> HIDE DEF r
<1>11. WholeComment(cs, start, fl, r)
    BY <1>7, <1>9, <1>10 DEF WholeComment
<1> QED BY <1>11 DEF r

(* Whichever it is.                                                        *)
LEMMA CommentsAreWhole ==
    ASSUME NEW cs, Len(cs) \in Nat, NEW start \in Nat, start < Len(cs), NEW fl,
           fl.dialect \in {"ansi", "mysql"},
           NEW r, r = ParseBy(At(cs, start), cs, start, fl), IsComment(r)
    PROVE  WholeComment(cs, start, fl, r)
<1>1. \/ At(cs, start) = "#" /\ r = parse_hash(cs, start, fl)
      \/ At(cs, start) = "-" /\ r = parse_dash(cs, start, fl)
      \/ At(cs, start) = "/" /\ r = parse_slash(cs, start)
    BY CommentParsers
<1>2. CASE At(cs, start) = "#" /\ r = parse_hash(cs, start, fl)
    <2>1. fl.dialect = "mysql" /\ r = parse_eol_comment(cs, start)
        BY <1>2, OthersArePlain DEF parse_hash, Plain
    <2> QED BY <1>2, <2>1, EolCommentIsWhole DEF WholeComment
<1>3. CASE At(cs, start) = "-" /\ r = parse_dash(cs, start, fl)
    <2>1. /\ PlainDashes(cs, start) \/ DashesBeforeText(cs, start, fl)
          /\ r = parse_eol_comment(cs, start)
        BY <1>3, OthersArePlain DEF parse_dash, Plain
    <2>2. fl.dialect = "mysql" => start + 2 = Len(cs) \/ At(cs, start + 2) \in White
        BY <2>1 DEF PlainDashes, DashesBeforeText, IsIn
    <2> QED BY <1>3, <2>1, <2>2, EolCommentIsWhole DEF WholeComment
<1>4. CASE At(cs, start) = "/" /\ r = parse_slash(cs, start)
    BY <1>4, SlashIsWhole
<1> QED BY <1>1, <1>2, <1>3, <1>4

(* One call: a comment it returns is whole.                                *)
LEMMA CallIsWhole ==
    ASSUME NEW cs \in Inputs, NEW from \in 0 .. Len(cs), NEW fl \in Contexts,
           HasToken(cs, from, fl),
           NEW r, r = libinjection_sqli_tokenize(cs, from, fl), IsComment(r)
    PROVE  ~ AtQuotedStart(from, fl) /\ WholeComment(cs, NextChar(cs, from), fl, r)
<1>1. Len(cs) \in Nat /\ from \in Nat /\ from <= Len(cs) /\ fl.dialect \in {"ansi", "mysql"}
    BY InputsAssumption DEF Contexts
<1>2. ~ AtQuotedStart(from, fl)
    <2> SUFFICES ASSUME AtQuotedStart(from, fl) PROVE FALSE
        OBVIOUS
    <2>1. r = parse_string_core(cs, 0, flag2delim(fl), 0)
        BY DEF libinjection_sqli_tokenize
    <2>2. r.token.type = "s"
        BY <2>1, CoreIsRead, WhatIsRead
    <2> QED BY <2>2 DEF IsComment
<1> DEFINE start == NextChar(cs, from)
<1>3. start \in Nat /\ start < Len(cs)
    BY <1>1, <1>2, NextCharBound DEF HasToken
<1>4. r = ParseBy(At(cs, start), cs, start, fl)
    BY <1>2 DEF libinjection_sqli_tokenize
<1> HIDE DEF start
<1>5. WholeComment(cs, start, fl, r)
    BY <1>1, <1>3, <1>4, CommentsAreWhole
<1> QED BY <1>2, <1>5 DEF start

(* The property of the detection, at one call.                             *)
LEMMA ReturnedIsWhole ==
    ASSUME s \in Inputs, scan \in 0 .. Len(s), flags \in Contexts, Asked
    PROVE  CommentEnds(Returned)
<1> SUFFICES ASSUME IsComment(Returned) PROVE CommentEnds(Returned)
    BY DEF CommentEnds, IsComment
<1> DEFINE r == Returned
           start == TokenStart
<1>1. Len(s) \in Nat /\ HasToken(s, scan, flags)
    BY InputsAssumption DEF Asked
<1>2. ~ AtQuotedStart(scan, flags) /\ WholeComment(s, NextChar(s, scan), flags, r)
    BY <1>1, CallIsWhole DEF Returned
<1>3. start = NextChar(s, scan)
    BY <1>2 DEF TokenStart
<1>4. start \in Nat /\ r.pos \in Nat
    BY <1>1, <1>3, NextCharBound, TokenizerIsGood DEF Returned, Good
<1> HIDE DEF start, r
<1>5. WholeComment(s, start, flags, r)
    BY <1>2, <1>3
<1> DEFINE Ends(i) == IF At(s, start) = "/"
                      THEN i >= start + 4 /\ At(s, i - 2) = "*" /\ At(s, i - 2 + 1) = "/"
                      ELSE At(s, i - 1) = "newline"
<1>6. \A i \in Int : Ends(i) <=> EndsComment(s, start, i)
    <2> SUFFICES ASSUME NEW i \in Int PROVE Ends(i) <=> EndsComment(s, start, i)
        OBVIOUS
    <2>1. i - 2 + 1 = i - 1
        OBVIOUS
    <2> QED BY <2>1 DEF EndsComment
<1> HIDE DEF Ends
<1>7. /\ r.pos = Len(s) \/ Ends(r.pos)
      /\ \A i \in start + 1 .. r.pos - 1 : ~ Ends(i)
      /\ At(s, start) = "/" =>
            (r.token.type = "X"
               <=> \/ /\ Ends(r.pos)
                      /\ \E i \in start + 2 .. r.pos - 3 : At(s, i) = "/" /\ At(s, i + 1) = "*"
                   \/ Is(s, start + 2, "!"))
      /\ (At(s, start) = "-" /\ flags.dialect = "mysql") =>
            start + 2 = Len(s) \/ At(s, start + 2) \in White
      /\ At(s, start) = "#" => flags.dialect = "mysql"
    BY <1>4, <1>5, <1>6 DEF WholeComment
<1> QED BY <1>7, Zenon DEF CommentEnds, Ends, start, r

-----------------------------------------------------------------------------
(* Strings, read from left to right.  What FirstLoneQuote reads by: where  *)
(* the units of a text begin.                                              *)
DoubleIn(cs, i, delim) ==
    i + 1 < Len(cs) /\ (At(cs, i) = "\\" \/ (At(cs, i) = delim /\ At(cs, i + 1) = delim))
Units(cs, start, delim) ==
    CHOOSE unit : unit =
        [i \in start - 2 .. Len(cs) |->
            \/ i = start
            \/ i > start /\ unit[i - 1] /\ ~ DoubleIn(cs, i - 1, delim)
            \/ i > start + 1 /\ unit[i - 2] /\ DoubleIn(cs, i - 2, delim)]
LoneQuotes(cs, start, delim) ==
    {i \in start .. Len(cs) - 1 :
        Units(cs, start, delim)[i] /\ At(cs, i) = delim /\ ~ DoubleIn(cs, i, delim)}

(* FirstLoneQuote reads the text by its units.                             *)
LEMMA FirstLoneQuoteIs ==
    \A start, delim : FirstLoneQuote(start, delim) = FirstOf(s, LoneQuotes(s, start, delim))
BY Zenon DEF FirstLoneQuote, LoneQuotes, Units, DoubleIn, Double

(* There is such a reading, and one unit follows another.                  *)
LEMMA UnitsDef ==
    ASSUME NEW cs, Len(cs) \in Nat, NEW start \in Nat, start <= Len(cs), NEW delim
    PROVE  LET u == Units(cs, start, delim)
           IN  /\ u[start] = TRUE
               /\ \A i \in start .. Len(cs) : u[i] \in BOOLEAN
               /\ \A i \in start .. Len(cs) - 1 :
                     u[i + 1] = ~ (u[i] /\ DoubleIn(cs, i, delim))
<1> DEFINE D == start - 2 .. Len(cs)
           double(i) == DoubleIn(cs, i, delim)
           Body(unit) == [i \in D |-> \/ i = start
                                      \/ i > start /\ unit[i - 1] /\ ~ double(i - 1)
                                      \/ i > start + 1 /\ unit[i - 2] /\ double(i - 2)]
           measure == [i \in D |-> i - (start - 2)]
           N == Len(cs) + 3
           step == [i \in D |-> [g \in [D -> BOOLEAN] |->
                       \/ i = start
                       \/ i > start /\ g[i - 1] /\ ~ double(i - 1)
                       \/ i > start + 1 /\ g[i - 2] /\ double(i - 2)]]
           u == CHOOSE unit : unit = Body(unit)
<1> HIDE DEF double
<1>1. N \in Nat /\ Measures(measure, D, N)
    BY DEF Measures
<1>2. LooksDown(step, measure, D, BOOLEAN)
    <2>1. step \in [D -> [[D -> BOOLEAN] -> BOOLEAN]]
        OBVIOUS
    <2>2. ASSUME NEW i \in D, NEW g \in [D -> BOOLEAN], NEW h \in [D -> BOOLEAN],
                 \A j \in D : measure[j] < measure[i] => g[j] = h[j]
          PROVE  step[i][g] = step[i][h]
        <3>1. i > start => i - 1 \in D /\ measure[i - 1] < measure[i]
            OBVIOUS
        <3>2. i > start + 1 => i - 2 \in D /\ measure[i - 2] < measure[i]
            OBVIOUS
        <3>3. (i > start => g[i - 1] = h[i - 1]) /\ (i > start + 1 => g[i - 2] = h[i - 2])
            BY <2>2, <3>1, <3>2
        <3> HIDE DEF measure, D
        <3> QED BY <3>3
    <2> HIDE DEF step, measure, D
    <2> QED BY <2>1, <2>2 DEF LooksDown
<1> HIDE DEF measure, N
<1>3. PICK g \in [D -> BOOLEAN] : IsFixed(g, step, D)
    <2> HIDE DEF D, step
    <2> QED BY <1>1, <1>2, Recursion
<1>4. g = Body(g)
    <2>1. \A i \in D : g[i] = step[i][g]
        BY <1>3 DEF IsFixed
    <2>2. \A i \in D : g[i] = Body(g)[i]
        BY <2>1
    <2>3. DOMAIN g = D /\ g = [i \in D |-> g[i]] /\ Body(g) = [i \in D |-> Body(g)[i]]
        OBVIOUS
    <2> HIDE DEF Body, D, step
    <2> QED BY <2>2, <2>3
<1>5. u = Body(u)
    <2> HIDE DEF Body
    <2> QED BY <1>4
<1>6. Units(cs, start, delim) = u
    BY DEF Units, double
<1> HIDE DEF u, step
<1>7. \A i \in D : u[i] = (\/ i = start
                           \/ i > start /\ u[i - 1] /\ ~ double(i - 1)
                           \/ i > start + 1 /\ u[i - 2] /\ double(i - 2))
    BY <1>5
<1>8. \A i \in D : u[i] \in BOOLEAN
    BY <1>7
<1>9. u[start] = TRUE
    <2>1. start \in D
        OBVIOUS
    <2> HIDE DEF D
    <2> QED BY <1>7, <2>1
<1> DEFINE S == {n \in Nat : (start <= n /\ n < Len(cs)) => u[n + 1] = ~ (u[n] /\ double(n))}
<1>10. ASSUME NEW n \in Nat, \A m \in Nat : m < n => m \in S PROVE n \in S
    <2> SUFFICES ASSUME start <= n, n < Len(cs) PROVE u[n + 1] = ~ (u[n] /\ double(n))
        OBVIOUS
    <2>1. /\ n + 1 \in D /\ n \in D /\ n + 1 # start /\ n + 1 > start
          /\ (n + 1) - 1 = n /\ (n + 1) - 2 = n - 1
        OBVIOUS
    <2>2. u[n + 1] = ((u[n] /\ ~ double(n)) \/ (n + 1 > start + 1 /\ u[n - 1] /\ double(n - 1)))
        <3> DEFINE m == n + 1
        <3>1. m \in D /\ m # start /\ m > start /\ m - 1 = n /\ m - 2 = n - 1
            BY <2>1
        <3> HIDE DEF m, D
        <3>2. u[m] = (\/ m = start
                      \/ m > start /\ u[m - 1] /\ ~ double(m - 1)
                      \/ m > start + 1 /\ u[m - 2] /\ double(m - 2))
            BY <1>7, <3>1
        <3>3. u[m] = ((u[n] /\ ~ double(n)) \/ (m > start + 1 /\ u[n - 1] /\ double(n - 1)))
            BY <3>1, <3>2
        <3> QED BY <3>3 DEF m
    <2>3. CASE n = start
        BY <1>9, <2>1, <2>2, <2>3
    <2>4. CASE n # start
        <3>1. n - 1 \in Nat /\ n - 1 < n /\ start <= n - 1 /\ n - 1 < Len(cs) /\ n + 1 > start + 1
            BY <2>4
        <3>2. n - 1 \in S /\ (n - 1) + 1 = n
            BY <1>10, <3>1
        <3>3. u[n] = ~ (u[n - 1] /\ double(n - 1))
            BY <3>1, <3>2
        <3>4. u[n] \in BOOLEAN /\ u[n - 1] \in BOOLEAN
            BY <1>8, <2>1, <3>1
        <3> QED BY <2>2, <3>1, <3>3, <3>4
    <2> QED BY <2>3, <2>4
<1> HIDE DEF S
<1>11. \A n \in Nat : n \in S
    BY <1>10, Induction
<1>12. \A i \in start .. Len(cs) - 1 : u[i + 1] = ~ (u[i] /\ double(i))
    BY <1>11 DEF S
<1> QED BY <1>6, <1>8, <1>9, <1>12 DEF double

(* Odd and even follow one another.                                        *)
LEMMA Parity ==
    \A n \in Int : /\ n % 2 \in {0, 1}
                   /\ (n + 1) % 2 = 1 - (n % 2)
                   /\ (n - 1) % 2 = 1 - (n % 2)
OBVIOUS

(* Along a stretch of doubles every other one begins a unit.               *)
LEMMA Alternates ==
    ASSUME NEW cs, Len(cs) \in Nat, NEW start \in Nat, start <= Len(cs), NEW delim,
           NEW a \in start .. Len(cs), NEW b \in a .. Len(cs),
           \A k \in a .. b - 1 : DoubleIn(cs, k, delim)
    PROVE  LET u == Units(cs, start, delim)
           IN  u[b] = (u[a] <=> (b - a) % 2 = 0)
<1> DEFINE u == Units(cs, start, delim)
           S == {n \in Nat : a + n <= b => u[a + n] = (u[a] <=> n % 2 = 0)}
<1>1. /\ \A i \in start .. Len(cs) : u[i] \in BOOLEAN
      /\ \A i \in start .. Len(cs) - 1 : u[i + 1] = ~ (u[i] /\ DoubleIn(cs, i, delim))
    BY UnitsDef
<1> HIDE DEF u
<1>2. ASSUME NEW n \in Nat, \A m \in Nat : m < n => m \in S PROVE n \in S
    <2> SUFFICES ASSUME a + n <= b PROVE u[a + n] = (u[a] <=> n % 2 = 0)
        OBVIOUS
    <2>1. CASE n = 0
        <3>1. a + n = a /\ n % 2 = 0 /\ u[a] \in BOOLEAN
            BY <1>1, <2>1
        <3> QED BY <3>1
    <2>2. CASE n # 0
        <3> DEFINE m == n - 1
                   i == a + m
        <3>1. /\ m \in Nat /\ m < n /\ n = m + 1 /\ i \in start .. Len(cs) - 1 /\ i + 1 = a + n
              /\ i \in a .. b - 1 /\ i <= b
            BY <2>2
        <3> HIDE DEF m
        <3>2. u[i] = (u[a] <=> m % 2 = 0)
            BY <1>2, <3>1
        <3> HIDE DEF i
        <3>3. u[i + 1] = ~ u[i] /\ u[i] \in BOOLEAN /\ u[a] \in BOOLEAN
            BY <1>1, <3>1
        <3>4. n % 2 = 0 <=> ~ (m % 2 = 0)
            BY <3>1, Parity
        <3> QED BY <3>1, <3>2, <3>3, <3>4
    <2> QED BY <2>1, <2>2
<1> HIDE DEF S
<1>3. \A n \in Nat : n \in S
    BY <1>2, Induction
<1>4. b - a \in Nat /\ a + (b - a) = b /\ a + (b - a) <= b
    OBVIOUS
<1>5. b - a \in S
    BY <1>3, <1>4
<1>6. u[a + (b - a)] = (u[a] <=> (b - a) % 2 = 0)
    BY <1>4, <1>5 DEF S
<1> QED BY <1>4, <1>6 DEF u

(* Where a run of quotes begins, and whether a backslash escapes it: the   *)
(* backslashes before it, from the last character that is none.            *)
FirstOfRun(cs, start, q) == Min({i \in start .. q : \A k \in i .. q : At(cs, k) = At(cs, q)})
(* It stands between the beginning and q, with the same character up to q. *)
LEMMA RunBegins ==
    ASSUME NEW cs, NEW start \in Nat, NEW q \in Nat, start <= q
    PROVE  LET first == FirstOfRun(cs, start, q)
           IN  /\ first \in start .. q
               /\ \A k \in first .. q : At(cs, k) = At(cs, q)
               /\ first = start \/ At(cs, first - 1) # At(cs, q)
<1> DEFINE run == {i \in start .. q : \A k \in i .. q : At(cs, k) = At(cs, q)}
           first == Min(run)
<1>1. run \in SUBSET Nat /\ q \in run
    OBVIOUS
<1>2. first \in run /\ \A j \in run : first <= j
    BY <1>1, MinIsLeast
<1>3. first \in start .. q /\ \A k \in first .. q : At(cs, k) = At(cs, q)
    BY <1>2
<1>4. ASSUME first # start, At(cs, first - 1) = At(cs, q) PROVE FALSE
    <2> DEFINE p == first - 1
    <2>1. p \in start .. q /\ ~ (first <= p)
        BY <1>3, <1>4
    <2>2. ASSUME NEW k \in p .. q PROVE At(cs, k) = At(cs, q)
        <3>1. CASE k = p
            BY <1>4, <3>1
        <3>2. CASE k # p
            <4>1. k \in first .. q
                BY <1>3, <3>2
            <4> QED BY <1>3, <4>1
        <3> QED BY <3>1, <3>2
    <2> HIDE DEF p, first
    <2>3. p \in run
        BY <2>1, <2>2
    <2> QED BY <1>2, <2>1, <2>3
<1>5. FirstOfRun(cs, start, q) = first
    BY DEF FirstOfRun
<1> HIDE DEF first, run
<1> QED BY <1>3, <1>4, <1>5

(* The stretch of backslashes before a quote, which escapes it when odd.   *)
LEMMA BackslashesBefore ==
    ASSUME NEW cs, NEW start \in Nat, NEW end \in Nat, start <= end
    PROVE  \E b \in start .. end :
              /\ \A k \in b .. end - 1 : At(cs, k) = "\\"
              /\ b = start \/ At(cs, b - 1) # "\\"
              /\ is_backslash_escaped(cs, end, start) <=> (end - b) % 2 = 1
<1> DEFINE others == {i \in start .. end - 1 : At(cs, i) # "\\"}
           last   == IF others = {} THEN start - 1 ELSE Max(others)
           b      == last + 1
<1>1. is_backslash_escaped(cs, end, start) <=> (end - 1 - last) % 2 = 1
    BY DEF is_backslash_escaped
<1>2. others \in SUBSET Nat /\ \A i \in others : i <= end /\ i \in start .. end - 1
    OBVIOUS
<1>3. \A k \in start .. end - 1 : k \notin others => At(cs, k) = "\\"
    OBVIOUS
<1>4. \A k \in others : At(cs, k) # "\\"
    OBVIOUS
<1>5. CASE others = {}
    <2>1. last = start - 1 /\ b = start
        BY <1>5
    <2> HIDE DEF others, last, b
    <2>2. (end - 1 - last) = end - b
        BY <2>1
    <2> QED BY <1>1, <1>3, <1>5, <2>1, <2>2
<1>6. CASE others # {}
    <2> HIDE DEF others
    <2>1. Max(others) \in others /\ \A j \in others : j <= Max(others)
        BY <1>2, <1>6, MaxIsGreatest
    <2>2. last = Max(others)
        BY <1>6
    <2> HIDE DEF last
    <2>3. /\ last \in start .. end - 1 /\ b - 1 = last /\ b \in start .. end
          /\ (end - 1 - last) = end - b
        <3>1. last \in others
            BY <2>1, <2>2
        <3>2. last \in start .. end - 1
            BY <1>2, <3>1
        <3> QED BY <3>2
    <2>4. \A k \in b .. end - 1 : k \notin others /\ k \in start .. end - 1
        BY <2>1, <2>2, <2>3
    <2>5. At(cs, b - 1) # "\\"
        BY <1>4, <2>1, <2>2, <2>3
    <2> HIDE DEF b
    <2>6. \A k \in b .. end - 1 : At(cs, k) = "\\"
        BY <1>3, <2>4
    <2> QED BY <1>1, <2>3, <2>5, <2>6
<1> QED BY <1>5, <1>6

(* A quote begins a unit if and only if it is an even number of quotes     *)
(* after the first of its run that is not escaped.                         *)
LEMMA RunsAreUnits ==
    ASSUME NEW cs, Len(cs) \in Nat, NEW start \in Nat, NEW delim, delim # "\\",
           NEW q \in start .. Len(cs) - 1
    PROVE  At(cs, q) = delim =>
              (Units(cs, start, delim)[q] <=> (q - RunOf(cs, start, q)) % 2 = 0)
<1> DEFINE u == Units(cs, start, delim)
           first == FirstOfRun(cs, start, q)
<1>1. /\ u[start] = TRUE
      /\ \A i \in start .. Len(cs) : u[i] \in BOOLEAN
      /\ \A i \in start .. Len(cs) - 1 : u[i + 1] = ~ (u[i] /\ DoubleIn(cs, i, delim))
    <2>1. start <= Len(cs)
        OBVIOUS
    <2> QED BY <2>1, UnitsDef
<1> SUFFICES ASSUME At(cs, q) = delim
             PROVE  u[q] <=> (q - RunOf(cs, start, q)) % 2 = 0
    OBVIOUS
<1>2. /\ first \in start .. q
      /\ \A k \in first .. q : At(cs, k) = delim
      /\ first = start \/ At(cs, first - 1) # delim
    BY RunBegins
<1>3. RunOf(cs, start, q) = IF is_backslash_escaped(cs, first, start) THEN first + 1 ELSE first
    BY DEF RunOf, FirstOfRun
<1> HIDE DEF u, first
<1>4. PICK b \in start .. first :
          /\ \A k \in b .. first - 1 : At(cs, k) = "\\"
          /\ b = start \/ At(cs, b - 1) # "\\"
          /\ is_backslash_escaped(cs, first, start) <=> (first - b) % 2 = 1
    <2>1. first \in Nat /\ start <= first
        BY <1>2
    <2> QED BY <2>1, BackslashesBefore
<1>5. u[b] = TRUE
    <2>1. CASE b = start
        BY <1>1, <2>1
    <2>2. CASE b # start
        <3> DEFINE p == b - 1
        <3>1. p \in start .. Len(cs) - 1 /\ p + 1 = b
            BY <1>2, <1>4, <2>2
        <3>2. At(cs, p) # "\\"
            BY <1>4, <2>2
        <3>3. ~ (At(cs, p) = delim /\ At(cs, p + 1) = delim)
            <4>1. CASE b = first
                BY <1>2, <1>4, <2>2, <3>1, <4>1
            <4>2. CASE b # first
                <5>1. b \in b .. first - 1
                    BY <1>2, <1>4, <4>2
                <5> QED BY <1>4, <3>1, <5>1
            <4> QED BY <4>1, <4>2
        <3> HIDE DEF p
        <3>4. ~ DoubleIn(cs, p, delim)
            BY <3>2, <3>3 DEF DoubleIn
        <3> QED BY <1>1, <3>1, <3>4
    <2> QED BY <2>1, <2>2
<1>6. \A k \in b .. first - 1 : DoubleIn(cs, k, delim)
    BY <1>2, <1>4 DEF DoubleIn
<1>7. u[first] = (u[b] <=> (first - b) % 2 = 0)
    <2>1. b \in start .. Len(cs) /\ first \in b .. Len(cs) /\ start <= Len(cs)
        BY <1>2, <1>4
    <2> QED BY <1>6, <2>1, Alternates DEF u
<1>8. \A k \in first .. q - 1 : DoubleIn(cs, k, delim)
    <2> SUFFICES ASSUME NEW k \in first .. q - 1 PROVE DoubleIn(cs, k, delim)
        OBVIOUS
    <2>1. k \in first .. q /\ k + 1 \in first .. q /\ k + 1 < Len(cs)
        BY <1>2
    <2> QED BY <1>2, <2>1 DEF DoubleIn
<1>9. u[q] = (u[first] <=> (q - first) % 2 = 0)
    <2>1. first \in start .. Len(cs) /\ q \in first .. Len(cs) /\ start <= Len(cs)
        BY <1>2
    <2> QED BY <1>8, <2>1, Alternates DEF u
<1>10. CASE is_backslash_escaped(cs, first, start)
    <2>1. RunOf(cs, start, q) = first + 1 /\ (first - b) % 2 = 1
        BY <1>3, <1>4, <1>10
    <2>2. u[first] = FALSE
        <3>1. ~ ((first - b) % 2 = 0)
            BY <2>1
        <3> QED BY <1>5, <1>7, <3>1
    <2>3. q - RunOf(cs, start, q) = (q - first) - 1 /\ q - first \in Int
        BY <1>2, <2>1
    <2>4. (q - RunOf(cs, start, q)) % 2 = 0 <=> ~ ((q - first) % 2 = 0)
        BY <2>3, Parity
    <2> QED BY <1>9, <2>2, <2>4 DEF u
<1>11. CASE ~ is_backslash_escaped(cs, first, start)
    <2>1. RunOf(cs, start, q) = first /\ ~ ((first - b) % 2 = 1) /\ first - b \in Int
        BY <1>2, <1>3, <1>4, <1>11
    <2>2. (first - b) % 2 = 0
        BY <2>1, Parity
    <2>3. u[first] = TRUE
        BY <1>5, <1>7, <2>2
    <2> QED BY <1>9, <2>1, <2>3 DEF u
<1> QED BY <1>10, <1>11

(* So the quote that closes a string is the one a reader from left to      *)
(* right takes for it.                                                     *)
LEMMA ClosingQuoteIsLone ==
    ASSUME NEW cs, Len(cs) \in Nat, NEW start \in Nat, NEW delim, delim # "\\"
    PROVE  ClosingQuote(cs, start, delim) = FirstOf(cs, LoneQuotes(cs, start, delim))
<1> DEFINE closing == {q \in start .. Len(cs) - 1 :
                          /\ At(cs, q) = delim
                          /\ ~ is_double_delim_escaped(cs, q)
                          /\ (q - RunOf(cs, start, q)) % 2 = 0}
<1>1. ASSUME NEW q \in start .. Len(cs) - 1, At(cs, q) = delim
      PROVE  /\ is_double_delim_escaped(cs, q) <=> DoubleIn(cs, q, delim)
             /\ Units(cs, start, delim)[q] <=> (q - RunOf(cs, start, q)) % 2 = 0
    BY <1>1, RunsAreUnits DEF is_double_delim_escaped, DoubleIn, Is
<1>2. \A q : q \in closing <=> q \in LoneQuotes(cs, start, delim)
    BY <1>1 DEF LoneQuotes
<1>3. closing = LoneQuotes(cs, start, delim)
    BY <1>2
<1> QED BY <1>3 DEF ClosingQuote

(* A string and what is made of one: it ends at the first lone quote, and  *)
(* is closed if there is one.                                              *)
Delims == {"'", "dquote", "tick"}
DelimOf(r) == IF r.token.text.open = "u" THEN "'" ELSE r.token.text.open
EndsString(cs, r, delim) ==
    LET end == FirstOf(cs, LoneQuotes(cs, r.token.text.pos, delim))
    IN  /\ r.pos = IF end = Len(cs) THEN end ELSE end + 1
        /\ r.token.text.close # "none" <=> end < Len(cs)
WholeString(cs, r) == IsQuoted(r) => EndsString(cs, r, DelimOf(r))

(* A quoted text ends at its lone quote, or with the input.                *)
LEMMA CoreEnds ==
    ASSUME NEW cs, Len(cs) \in Nat, NEW p \in Nat, NEW offset \in Nat, NEW delim \in Delims
    PROVE  LET r == parse_string_core(cs, p, delim, offset)
           IN  /\ EndsString(cs, r, delim) /\ r.token.text.pos = p + offset
               /\ r.token.text.open = IF offset > 0 THEN delim ELSE "none"
<1> DEFINE start == p + offset
           end == FirstOf(cs, LoneQuotes(cs, start, delim))
           open == IF offset > 0 THEN delim ELSE "none"
           len == end - start
           r == parse_string_core(cs, p, delim, offset)
<1>1. start \in Nat /\ delim # "\\" /\ delim # "none"
    BY DEF Delims
<1>2. ClosingQuote(cs, start, delim) = end
    BY <1>1, ClosingQuoteIsLone
<1>3. end \in Nat /\ end <= Len(cs)
    <2>1. \A i \in LoneQuotes(cs, start, delim) : i \in Nat /\ i < Len(cs)
        BY <1>1 DEF LoneQuotes
    <2> QED BY <2>1, FirstIsFound
<1>4. r = IF end = Len(cs) THEN Read(Quoted(cs, "s", start, len, open, "none"), end)
          ELSE Read(Quoted(cs, "s", start, len, open, delim), end + 1)
    BY <1>2 DEF parse_string_core
<1>5. r.token.text.pos = start /\ r.token.text.open = open
    BY <1>4, WhatIsRead
<1>6. /\ r.pos = IF end = Len(cs) THEN end ELSE end + 1
      /\ r.token.text.close = IF end = Len(cs) THEN "none" ELSE delim
    BY <1>4, WhatIsRead
<1> HIDE DEF r
<1>7. end = FirstOf(cs, LoneQuotes(cs, r.token.text.pos, delim))
    BY <1>5
<1> HIDE DEF end
<1>8. EndsString(cs, r, delim)
    BY <1>1, <1>3, <1>6, <1>7 DEF EndsString
<1> QED BY <1>5, <1>8 DEF r

(* Another type, or another mark, leaves the text where it is.             *)
IsRead(cs, r) ==
    \E type, start, len, open, close, next :
        r = Read(Quoted(cs, type, start, len, open, close), next)
(* Another type, or other quotes, leave the text where it stands.          *)
LEMMA EditsKeepTexts ==
    ASSUME NEW cs, NEW r, IsRead(cs, r), NEW u, NEW a, NEW b
    PROVE  /\ IsRead(cs, WithType(r, u))
           /\ WithType(r, u).pos = r.pos
           /\ WithType(r, u).token.text.pos = r.token.text.pos
           /\ WithType(r, u).token.text.open = r.token.text.open
           /\ WithType(r, u).token.text.close = r.token.text.close
           /\ WithQuotes(r, a, b).pos = r.pos
           /\ WithQuotes(r, a, b).token.text.pos = r.token.text.pos
           /\ WithQuotes(r, a, b).token.text.open = a
           /\ WithQuotes(r, a, b).token.text.close = b
<1>1. PICK type, start, len, open, close, next :
         r = Read(Quoted(cs, type, start, len, open, close), next)
    BY DEF IsRead
<1>2. /\ WithType(r, u) = Read(Quoted(cs, u, start, len, open, close), next)
      /\ WithQuotes(r, a, b) = Read(Quoted(cs, type, start, len, a, b), next)
    BY <1>1, EditedReads
<1>3. IsRead(cs, WithType(r, u))
    BY <1>2 DEF IsRead
<1> QED BY <1>1, <1>2, <1>3, WhatIsRead

(* A quoted text given another type still ends at its quote.               *)
LEMMA TypedIsWhole ==
    ASSUME NEW cs, NEW r, IsRead(cs, r), NEW u, WholeString(cs, r)
    PROVE  WholeString(cs, WithType(r, u))
<1> DEFINE v == WithType(r, u)
<1>1. /\ v.pos = r.pos /\ v.token.text.pos = r.token.text.pos
      /\ v.token.text.open = r.token.text.open /\ v.token.text.close = r.token.text.close
    BY EditsKeepTexts
<1> HIDE DEF v
<1>2. WholeString(cs, v)
    BY <1>1 DEF WholeString, IsQuoted, EndsString, DelimOf
<1> QED BY <1>2 DEF v

(* What parse_string_core returns ends at its quote.                       *)
LEMMA CoreIsWhole ==
    ASSUME NEW cs, Len(cs) \in Nat, NEW p \in Nat, NEW offset \in Nat, NEW delim \in Delims
    PROVE  LET r == parse_string_core(cs, p, delim, offset)
           IN  WholeString(cs, r) /\ IsRead(cs, r)
<1> DEFINE r == parse_string_core(cs, p, delim, offset)
<1>1. /\ EndsString(cs, r, delim)
      /\ r.token.text.open = IF offset > 0 THEN delim ELSE "none"
    BY CoreEnds
<1>2. IsRead(cs, r)
    BY CoreIsRead DEF IsRead
<1> HIDE DEF r
<1>3. delim # "u" /\ "none" \notin QuoteMarks
    BY DEF Delims, QuoteMarks
<1>4. WholeString(cs, r)
    BY <1>1, <1>3 DEF WholeString, IsQuoted, DelimOf
<1> QED BY <1>2, <1>4 DEF r

(* The parsers that read strings.                                          *)
LEMMA StringParsersAreWhole ==
    ASSUME NEW cs, Len(cs) \in Nat, NEW p \in Nat
    PROVE  /\ At(cs, p) \in Delims => WholeString(cs, parse_string(cs, p))
                                      /\ IsRead(cs, parse_string(cs, p))
           /\ WholeString(cs, parse_tick(cs, p)) /\ IsRead(cs, parse_tick(cs, p))
           /\ WholeString(cs, parse_estring(cs, p))
<1>1. 1 \in Nat /\ 2 \in Nat /\ "tick" \in Delims /\ "'" \in Delims
    BY DEF Delims
<1>2. At(cs, p) \in Delims => WholeString(cs, parse_string(cs, p))
                              /\ IsRead(cs, parse_string(cs, p))
    BY <1>1, CoreIsWhole DEF parse_string
<1>3. WholeString(cs, parse_tick(cs, p)) /\ IsRead(cs, parse_tick(cs, p))
    <2> DEFINE r == parse_string_core(cs, p, "tick", 1)
               type == IF lookup(r.token.val) = "f" THEN "f" ELSE "n"
    <2>1. WholeString(cs, r) /\ IsRead(cs, r)
        BY <1>1, CoreIsWhole
    <2>2. parse_tick(cs, p) = WithType(r, type)
        BY DEF parse_tick, WithType
    <2> HIDE DEF r, type
    <2> QED BY <2>1, <2>2, TypedIsWhole, EditsKeepTexts
<1>4. WholeString(cs, parse_estring(cs, p))
    <2>1. WholeString(cs, parse_string_core(cs, p, "'", 2))
        BY <1>1, CoreIsWhole
    <2>2. WholeString(cs, parse_word(cs, p))
        BY WordParserIsPlain DEF WholeString, Plain
    <2> QED BY <2>1, <2>2 DEF parse_estring
<1> QED BY <1>2, <1>3, <1>4

(* So does a string with U& before it.                                     *)
LEMMA UStringIsWhole ==
    ASSUME NEW cs, Len(cs) \in Nat, NEW p \in Nat
    PROVE  WholeString(cs, parse_ustring(cs, p))
<1> DEFINE q == p + 2
           r == parse_string(cs, q)
           close == IF r.token.text.close = "'" THEN "u" ELSE r.token.text.close
<1>1. CASE Is(cs, p + 1, "&") /\ Is(cs, p + 2, "'")
    <2>1. parse_ustring(cs, p) = WithQuotes(r, "u", close)
        <3>1. parse_ustring(cs, p)
                = [r EXCEPT !.token.text.open = "u",
                            !.token.text.close = IF @ = "'" THEN "u" ELSE @]
            BY <1>1 DEF parse_ustring
        <3> HIDE DEF r
        <3> QED BY <3>1 DEF WithQuotes
    <2>2. q \in Nat /\ At(cs, q) = "'" /\ "'" \in Delims /\ 1 \in Nat /\ "'" # "u"
        BY <1>1 DEF Is, Delims
    <2>3. EndsString(cs, r, "'") /\ IsRead(cs, r)
        BY <2>2, CoreEnds, CoreIsWhole DEF parse_string
    <2> DEFINE v == WithQuotes(r, "u", close)
    <2> HIDE DEF r, q
    <2>4. /\ v.pos = r.pos /\ v.token.text.pos = r.token.text.pos
          /\ v.token.text.open = "u" /\ v.token.text.close = close
        <3> HIDE DEF close
        <3> QED BY <2>3, EditsKeepTexts
    <2>5. close # "none" <=> r.token.text.close # "none"
        OBVIOUS
    <2> HIDE DEF v, close
    <2>6. WholeString(cs, v)
        BY <2>3, <2>4, <2>5 DEF WholeString, EndsString, DelimOf
    <2> QED BY <2>1, <2>6 DEF v
<1>2. CASE ~ (Is(cs, p + 1, "&") /\ Is(cs, p + 2, "'"))
    <2>1. parse_ustring(cs, p) = parse_word(cs, p)
        BY <1>2 DEF parse_ustring
    <2> QED BY <2>1, WordParserIsPlain DEF WholeString, Plain
<1> QED BY <1>1, <1>2

(* And a quoted name of a variable.                                        *)
LEMMA VarIsWhole ==
    ASSUME NEW cs, Len(cs) \in Nat, NEW p \in Nat
    PROVE  WholeString(cs, parse_var(cs, p))
<1> DEFINE name == IF Is(cs, p + 1, "@") THEN p + 2 ELSE p + 1
           quoted == IF Is(cs, name, "tick") THEN parse_tick(cs, name) ELSE parse_string(cs, name)
           len == strlencspn(cs, name, VarEnds)
<1>1. name \in Nat
    OBVIOUS
<1>2. parse_var(cs, p) = IF IsIn(cs, name, {"tick", "'", "dquote"})
                         THEN WithType(quoted, "v") ELSE Word(cs, "v", name, len)
    BY DEF parse_var, WithType
<1> HIDE DEF name, len
<1>3. ASSUME IsIn(cs, name, {"tick", "'", "dquote"})
      PROVE  WholeString(cs, quoted) /\ IsRead(cs, quoted)
    <2>1. At(cs, name) \in Delims
        BY <1>3 DEF IsIn, Delims
    <2> QED BY <1>1, <2>1, StringParsersAreWhole
<1>4. WholeString(cs, Word(cs, "v", name, len))
    BY PlainWords DEF WholeString
<1> HIDE DEF quoted
<1> QED BY <1>2, <1>3, <1>4, TypedIsWhole

(* Whichever it is.                                                        *)
LEMMA StringsAreWhole ==
    ASSUME NEW cs, Len(cs) \in Nat, NEW start \in Nat, NEW fl,
           NEW r, r = ParseBy(At(cs, start), cs, start, fl)
    PROVE  WholeString(cs, r)
<1> DEFINE c == At(cs, start)
<1>1. c \in {"'", "dquote"} => c \in Delims
    BY DEF Delims
<1>2. /\ c \in {"'", "dquote"} => WholeString(cs, parse_string(cs, start))
      /\ WholeString(cs, parse_tick(cs, start))
      /\ WholeString(cs, parse_estring(cs, start))
      /\ WholeString(cs, parse_ustring(cs, start))
      /\ WholeString(cs, parse_var(cs, start))
    BY <1>1, StringParsersAreWhole, UStringIsWhole, VarIsWhole
<1>3. /\ ~ IsQuoted(parse_char(cs, start))
      /\ ~ IsQuoted(parse_hash(cs, start, fl))
      /\ ~ IsQuoted(parse_dash(cs, start, fl))
      /\ ~ IsQuoted(parse_slash(cs, start))
    <2>1. ~ IsQuoted(parse_eol_comment(cs, start))
        BY WhatIsRead DEF parse_eol_comment, st_assign, IsQuoted, QuoteMarks
    <2>2. ~ IsQuoted(parse_operator1(cs, start))
        BY OthersArePlain DEF Plain
    <2>3. \/ \E type, len : parse_slash(cs, start) = Word(cs, type, start, len)
          \/ parse_slash(cs, start) = parse_operator1(cs, start)
        BY Zenon DEF parse_slash
    <2> QED BY <2>1, <2>2, <2>3, PlainWords DEF parse_char, parse_hash, parse_dash
<1>4. WholeString(cs, parse_nqstring(cs, start))
    BY <1>2, OthersArePlain DEF parse_nqstring, WholeString, Plain
<1> HIDE DEF c
<1>5. r = ParseBy(c, cs, start, fl)
    BY DEF c
<1>6. \A v : Plain(v) \/ ~ IsQuoted(v) => WholeString(cs, v)
    BY DEF WholeString, Plain
<1> QED BY <1>2, <1>3, <1>4, <1>5, <1>6, OneParser, WordParserIsPlain, MoneyIsPlain, NumberIsPlain,
           OthersArePlain DEF parse_bstring, parse_xstring, parse_qstring

(* The property of the detection, at one call.                             *)
LEMMA ReturnedEnds ==
    ASSUME s \in Inputs, scan \in 0 .. Len(s), flags \in Contexts, Asked
    PROVE  StringEnds(Returned)
<1> DEFINE r == Returned
           delim == IF AtQuotedStart(scan, flags) THEN flag2delim(flags)
                    ELSE IF r.token.text.open = "u" THEN "'" ELSE r.token.text.open
<1>1. Len(s) \in Nat /\ HasToken(s, scan, flags)
    BY InputsAssumption DEF Asked
<1>2. CASE AtQuotedStart(scan, flags)
    <2>1. r = parse_string_core(s, 0, flag2delim(flags), 0)
        BY <1>2 DEF Returned, libinjection_sqli_tokenize
    <2>2. flag2delim(flags) \in Delims /\ 0 \in Nat
        BY <1>2 DEF flag2delim, AtQuotedStart, Contexts, Delims
    <2>3. EndsString(s, r, flag2delim(flags)) /\ delim = flag2delim(flags)
        BY <1>1, <1>2, <2>1, <2>2, CoreEnds
    <2> HIDE DEF r, delim
    <2>4. EndsString(s, r, delim)
        BY <2>3
    <2> QED BY <2>4, FirstLoneQuoteIs DEF StringEnds, EndsString, r, delim
<1>3. CASE ~ AtQuotedStart(scan, flags)
    <2> SUFFICES ASSUME IsQuoted(r) PROVE StringEnds(r)
        BY <1>3 DEF StringEnds, IsQuoted, QuoteMarks
    <2> DEFINE start == NextChar(s, scan)
    <2>1. start \in Nat
        BY <1>1, NextCharBound
    <2>2. r = ParseBy(At(s, start), s, start, flags)
        BY <1>3 DEF Returned, libinjection_sqli_tokenize
    <2> HIDE DEF r, start
    <2>3. EndsString(s, r, DelimOf(r))
        BY <1>1, <2>1, <2>2, StringsAreWhole DEF WholeString
    <2>4. delim = DelimOf(r)
        BY <1>3 DEF DelimOf
    <2> HIDE DEF delim
    <2>5. EndsString(s, r, delim)
        BY <2>3, <2>4
    <2> QED BY <2>5, FirstLoneQuoteIs DEF StringEnds, EndsString, delim
<1> QED BY <1>2, <1>3

-----------------------------------------------------------------------------
(* A quoted context.  The input with the quote before it is longer by one, *)
(* and each of its characters stands one further on.                       *)
Prefixed(c, cs) == <<c>> \o cs
(* What it is made of.                                                     *)
LEMMA PrefixShifts ==
    ASSUME NEW cs \in Seq(STRING), NEW c
    PROVE  /\ Len(Prefixed(c, cs)) = Len(cs) + 1 /\ Len(cs) \in Nat
           /\ At(Prefixed(c, cs), 0) = c
           /\ \A i \in 0 .. Len(cs) - 1 : At(Prefixed(c, cs), i + 1) = At(cs, i)
           /\ \A n \in 0 .. Len(cs) :
                 SubSeq(Prefixed(c, cs), 2, n + 1) = SubSeq(cs, 1, n)
<1> DEFINE A == STRING \cup {c}
           p == Prefixed(c, cs)
<1>1. cs \in Seq(A) /\ <<c>> \in Seq(A) /\ Len(cs) \in Nat /\ Len(<<c>>) = 1 /\ <<c>>[1] = c
    OBVIOUS
<1>2. /\ p \in Seq(A) /\ Len(p) = 1 + Len(cs)
      /\ \A k \in 1 .. 1 + Len(cs) : p[k] = IF k <= 1 THEN <<c>>[k] ELSE cs[k - 1]
    BY <1>1 DEF Prefixed
<1> HIDE DEF p, A
<1>3. p[1] = c /\ \A k \in 1 .. Len(cs) : p[k + 1] = cs[k]
    <2>1. 1 \in 1 .. 1 + Len(cs)
        BY <1>1
    <2>2. \A k \in 1 .. Len(cs) : k + 1 \in 1 .. 1 + Len(cs) /\ ~ (k + 1 <= 1) /\ (k + 1) - 1 = k
        BY <1>1
    <2> QED BY <1>1, <1>2, <2>1, <2>2
<1>4. ASSUME NEW n \in 0 .. Len(cs) PROVE SubSeq(p, 2, n + 1) = SubSeq(cs, 1, n)
    <2> DEFINE a == SubSeq(p, 2, n + 1)
               b == SubSeq(cs, 1, n)
    <2>1. a \in Seq(A) /\ Len(a) = n /\ \A k \in 1 .. n : a[k] = p[k + 1]
        BY <1>1, <1>2
    <2>2. b \in Seq(A) /\ Len(b) = n /\ \A k \in 1 .. n : b[k] = cs[k]
        BY <1>1
    <2> HIDE DEF a, b
    <2>3. \A k \in 1 .. n : a[k] = b[k]
        <3>1. \A k \in 1 .. n : k \in 1 .. Len(cs)
            BY <1>1
        <3> QED BY <1>3, <2>1, <2>2, <3>1
    <2>4. a = b
        BY <2>1, <2>2, <2>3
    <2> QED BY <2>4 DEF a, b
<1>5. At(p, 0) = c /\ \A i \in 0 .. Len(cs) - 1 : At(p, i + 1) = At(cs, i)
    <2>1. \A i \in 0 .. Len(cs) - 1 : i + 1 \in 1 .. Len(cs)
        BY <1>1
    <2> QED BY <1>3, <2>1 DEF At
<1> QED BY <1>1, <1>2, <1>4, <1>5 DEF p

(* So is where its units begin, and the quote that closes it.              *)
LEMMA UnitsShift ==
    ASSUME NEW cs \in Seq(STRING), NEW c
    PROVE  \A i \in 0 .. Len(cs) : Units(Prefixed(c, cs), 1, c)[i + 1] = Units(cs, 0, c)[i]
<1> DEFINE p == Prefixed(c, cs)
           u == Units(cs, 0, c)
           v == Units(p, 1, c)
           S == {n \in Nat : n <= Len(cs) => v[n + 1] = u[n]}
<1>1. /\ Len(p) = Len(cs) + 1 /\ Len(cs) \in Nat
      /\ \A i \in 0 .. Len(cs) - 1 : At(p, i + 1) = At(cs, i)
    BY PrefixShifts
<1>2. u[0] = TRUE /\ \A i \in 0 .. Len(cs) - 1 : u[i + 1] = ~ (u[i] /\ DoubleIn(cs, i, c))
    <2>1. 0 \in Nat /\ 0 <= Len(cs)
        BY <1>1
    <2> HIDE DEF p
    <2> QED BY <1>1, <2>1, UnitsDef, ZenonT(30)
<1>3. v[1] = TRUE /\ \A i \in 1 .. Len(p) - 1 : v[i + 1] = ~ (v[i] /\ DoubleIn(p, i, c))
    <2>1. 1 \in Nat /\ 1 <= Len(p) /\ Len(p) \in Nat
        BY <1>1
    <2> HIDE DEF p, u
    <2> QED BY <2>1, UnitsDef, ZenonT(30)
<1> HIDE DEF p, u, v
<1>4. ASSUME NEW i \in 0 .. Len(cs) - 1 PROVE DoubleIn(p, i + 1, c) <=> DoubleIn(cs, i, c)
    <2>1. At(p, i + 1) = At(cs, i) /\ ((i + 1) + 1 < Len(p) <=> i + 1 < Len(cs))
        BY <1>1
    <2>2. i + 1 < Len(cs) => At(p, (i + 1) + 1) = At(cs, i + 1)
        <3>1. i + 1 < Len(cs) => i + 1 \in 0 .. Len(cs) - 1
            BY <1>1
        <3> QED BY <1>1, <3>1
    <2> QED BY <2>1, <2>2 DEF DoubleIn
<1>5. ASSUME NEW n \in Nat, \A m \in Nat : m < n => m \in S PROVE n \in S
    <2> SUFFICES ASSUME n <= Len(cs) PROVE v[n + 1] = u[n]
        OBVIOUS
    <2>1. CASE n = 0
        <3>1. n + 1 = 1
            BY <2>1
        <3>2. v[n + 1] = TRUE /\ u[n] = TRUE
            BY <1>2, <1>3, <2>1, <3>1, Zenon
        <3> QED BY <3>2, Zenon
    <2>2. CASE n # 0
        <3> DEFINE m == n - 1
        <3>1. /\ m \in Nat /\ m < n /\ n = m + 1 /\ m \in 0 .. Len(cs) - 1 /\ m <= Len(cs)
              /\ m + 1 \in 1 .. Len(p) - 1
            BY <1>1, <2>2
        <3> HIDE DEF m
        <3>2. v[m + 1] = u[m]
            BY <1>5, <3>1
        <3>3. u[m + 1] = ~ (u[m] /\ DoubleIn(cs, m, c))
            BY <1>2, <3>1
        <3>4. v[(m + 1) + 1] = ~ (v[m + 1] /\ DoubleIn(p, m + 1, c))
            BY <1>3, <3>1
        <3>5. v[(m + 1) + 1] = u[m + 1]
            BY <1>4, <3>1, <3>2, <3>3, <3>4
        <3> QED BY <3>1, <3>5
    <2> QED BY <2>1, <2>2
<1> HIDE DEF S
<1>6. \A n \in Nat : n \in S
    BY <1>5, Induction
<1>7. \A i \in 0 .. Len(cs) : v[i + 1] = u[i]
    BY <1>6 DEF S
<1> QED BY <1>7 DEF u, v, p

(* And the closing quote stands one further on as well.                    *)
LEMMA ClosingShifts ==
    ASSUME NEW cs \in Seq(STRING), NEW c, c # "\\"
    PROVE  /\ ClosingQuote(Prefixed(c, cs), 1, c) = ClosingQuote(cs, 0, c) + 1
           /\ ClosingQuote(cs, 0, c) \in 0 .. Len(cs)
<1> DEFINE p == Prefixed(c, cs)
           A == LoneQuotes(cs, 0, c)
           B == LoneQuotes(p, 1, c)
           a == FirstOf(cs, A)
           b == FirstOf(p, B)
<1>1. /\ Len(p) = Len(cs) + 1 /\ Len(cs) \in Nat
      /\ \A i \in 0 .. Len(cs) - 1 : At(p, i + 1) = At(cs, i)
    BY PrefixShifts
<1>2. \A i \in 0 .. Len(cs) : Units(p, 1, c)[i + 1] = Units(cs, 0, c)[i]
    BY UnitsShift
<1> HIDE DEF p
<1>3. ASSUME NEW i \in 0 .. Len(cs) - 1 PROVE DoubleIn(p, i + 1, c) <=> DoubleIn(cs, i, c)
    <2>1. At(p, i + 1) = At(cs, i) /\ ((i + 1) + 1 < Len(p) <=> i + 1 < Len(cs))
        BY <1>1
    <2>2. i + 1 < Len(cs) => At(p, (i + 1) + 1) = At(cs, i + 1)
        <3>1. i + 1 < Len(cs) => i + 1 \in 0 .. Len(cs) - 1
            BY <1>1
        <3> QED BY <1>1, <3>1
    <2> QED BY <2>1, <2>2 DEF DoubleIn
<1>4. \A i \in 0 .. Len(cs) - 1 : i + 1 \in B <=> i \in A
    <2> TAKE i \in 0 .. Len(cs) - 1
    <2>1. i + 1 \in 1 .. Len(p) - 1 /\ i \in 0 .. Len(cs)
        BY <1>1
    <2>2. /\ At(p, i + 1) = At(cs, i) /\ Units(p, 1, c)[i + 1] = Units(cs, 0, c)[i]
          /\ DoubleIn(p, i + 1, c) <=> DoubleIn(cs, i, c)
        BY <1>1, <1>2, <1>3, <2>1
    <2> QED BY <2>1, <2>2 DEF LoneQuotes
<1>5. /\ A \in SUBSET Nat /\ \A i \in A : i < Len(cs) /\ i \in 0 .. Len(cs) - 1
      /\ B \in SUBSET Nat /\ \A j \in B : j < Len(p) /\ j - 1 \in 0 .. Len(cs) - 1
    BY <1>1 DEF LoneQuotes
<1> HIDE DEF A, B
<1>6. /\ a \in Nat /\ a <= Len(cs) /\ (a < Len(cs) => a \in A)
      /\ \A i \in A : a <= i
    BY <1>1, <1>5, FirstIsFound
<1>7. /\ b \in Nat /\ b <= Len(p) /\ (b < Len(p) => b \in B)
      /\ \A i \in B : b <= i
    <2>1. Len(p) \in Nat
        BY <1>1
    <2> QED BY <1>5, <2>1, FirstIsFound
<1> HIDE DEF a, b
<1>8. a < Len(cs) => b <= a + 1
    BY <1>4, <1>5, <1>6, <1>7
<1>9. b < Len(p) => a <= b - 1
    <2> SUFFICES ASSUME b < Len(p) PROVE a <= b - 1
        OBVIOUS
    <2>1. b \in B /\ b - 1 \in 0 .. Len(cs) - 1
        BY <1>5, <1>7
    <2>2. (b - 1) + 1 = b
        BY <1>7
    <2>3. b - 1 \in A
        BY <1>4, <2>1, <2>2
    <2> QED BY <1>6, <2>3
<1>10. b = a + 1
    BY <1>1, <1>6, <1>7, <1>8, <1>9
<1>11. ClosingQuote(cs, 0, c) = a /\ ClosingQuote(p, 1, c) = b
    <2>1. 0 \in Nat /\ 1 \in Nat /\ Len(p) \in Nat
        BY <1>1
    <2> QED BY <1>1, <2>1, ClosingQuoteIsLone DEF a, b, A, B
<1> QED BY <1>6, <1>10, <1>11 DEF p

(* The first call in a quoted context reads what the first call reads of   *)
(* the input with the quote before it.                                     *)
LEMMA QuotedStartIsPrefixed ==
    ASSUME NEW cs \in Seq(STRING), NEW fl \in Contexts, AtQuotedStart(0, fl)
    PROVE  SameToken(libinjection_sqli_tokenize(cs, 0, fl),
                     libinjection_sqli_tokenize(Prefixed(flag2delim(fl), cs), 0,
                                                Context("none", fl.dialect)))
<1> DEFINE c == flag2delim(fl)
           p == Prefixed(c, cs)
           end == ClosingQuote(cs, 0, c)
           call == libinjection_sqli_tokenize(cs, 0, fl)
           prefixed == libinjection_sqli_tokenize(p, 0, Context("none", fl.dialect))
<1>1. c \in {"'", "dquote"}
    BY DEF flag2delim, AtQuotedStart, Contexts
<1> HIDE DEF c
<1>2. /\ Len(p) = Len(cs) + 1 /\ Len(cs) \in Nat /\ At(p, 0) = c
      /\ \A n \in 0 .. Len(cs) : SubSeq(p, 2, n + 1) = SubSeq(cs, 1, n)
    BY PrefixShifts
<1>3. c # "\\" /\ c # "none"
    BY <1>1
<1>4. end \in 0 .. Len(cs) /\ ClosingQuote(p, 1, c) = end + 1
    BY <1>3, ClosingShifts
<1> HIDE DEF end, p
<1>5. call = IF end = Len(cs) THEN Read(Quoted(cs, "s", 0, end, "none", "none"), end)
             ELSE Read(Quoted(cs, "s", 0, end, "none", c), end + 1)
    <2>1. call = parse_string_core(cs, 0, c, 0)
        BY DEF libinjection_sqli_tokenize, c
    <2>2. end - 0 = end
        BY <1>4
    <2>3. parse_string_core(cs, 0, c, 0)
            = IF end = Len(cs) THEN Read(Quoted(cs, "s", 0, end - 0, "none", "none"), end)
              ELSE Read(Quoted(cs, "s", 0, end - 0, "none", c), end + 1)
        BY DEF parse_string_core, end
    <2> QED BY <2>1, <2>2, <2>3
<1>6. prefixed = parse_string_core(p, 0, c, 1)
    <2>1. NextChar(p, 0) = 0
        <3> DEFINE found == {i \in 0 .. Len(p) - 1 : At(p, i) \notin Passed}
        <3>1. c \notin Passed
            BY <1>1, Zenon DEF Passed, White
        <3>2. 0 \in found
            BY <1>2, <3>1
        <3>3. found \in SUBSET Nat /\ \A i \in found : i < Len(p)
            BY <1>2
        <3>4. NextChar(p, 0) = FirstOf(p, found)
            BY DEF NextChar
        <3> HIDE DEF found
        <3>5. FirstOf(p, found) \in Nat /\ FirstOf(p, found) <= 0
            BY <1>2, <3>2, <3>3, FirstIsFound
        <3> QED BY <3>4, <3>5
    <2>2. ~ AtQuotedStart(0, Context("none", fl.dialect))
        BY DEF AtQuotedStart, Context
    <2>3. prefixed = ParseBy(c, p, 0, Context("none", fl.dialect))
        BY <1>2, <2>1, <2>2 DEF libinjection_sqli_tokenize
    <2>4. ParseBy(c, p, 0, Context("none", fl.dialect)) = parse_string(p, 0)
        <3>1. c \notin Operators1 \cup Operators2 \cup CharTokens
            BY <1>1, Zenon DEF Operators1, Operators2, CharTokens
        <3>2. c \notin OneOff \/ c \in {"'", "dquote"}
            BY <1>1
        <3>3. c \notin Digits \cup {"."}
            BY <1>1 DEF Digits
        <3>4. c \in OneOff
            BY <1>1 DEF OneOff
        <3> HIDE DEF c
        <3>5. PICK r : r = ParseBy(c, p, 0, Context("none", fl.dialect))
            OBVIOUS
        <3>6. r = parse_string(p, 0)
            BY <1>1, <3>1, <3>3, <3>4, <3>5, OneParser
        <3> QED BY <3>5, <3>6
    <2>5. parse_string(p, 0) = parse_string_core(p, 0, c, 1)
        BY <1>2 DEF parse_string
    <2> QED BY <2>3, <2>4, <2>5
<1>7. prefixed = IF end = Len(cs) THEN Read(Quoted(p, "s", 1, end, c, "none"), end + 1)
                 ELSE Read(Quoted(p, "s", 1, end, c, c), end + 2)
    <2> DEFINE e == end + 1
    <2>1. e = Len(p) <=> end = Len(cs)
        BY <1>2, <1>4
    <2>2. e - (0 + 1) = end /\ e + 1 = end + 2 /\ 0 + 1 = 1
        BY <1>4
    <2>3. ClosingQuote(p, 1, c) = e
        BY <1>4
    <2> HIDE DEF e
    <2>4. parse_string_core(p, 0, c, 1)
            = IF e = Len(p) THEN Read(Quoted(p, "s", 0 + 1, e - (0 + 1), c, "none"), e)
              ELSE Read(Quoted(p, "s", 0 + 1, e - (0 + 1), c, c), e + 1)
        <3>1. 1 > 0 /\ ClosingQuote(p, 0 + 1, c) = e
            BY <2>2, <2>3
        <3> QED BY <3>1, Zenon DEF parse_string_core
    <2> QED BY <1>6, <2>1, <2>2, <2>4 DEF e
<1>8. Val(p, 1, Stored(end)) = Val(cs, 0, Stored(end))
    <2> DEFINE n == Stored(end)
    <2>1. n \in 0 .. Len(cs)
        BY <1>2, <1>4, TokenSizeAssumption DEF Stored
    <2> HIDE DEF n
    <2>2. SubSeq(p, 1 + 1, 1 + n) = SubSeq(cs, 0 + 1, 0 + n)
        <3>1. 1 + 1 = 2 /\ 1 + n = n + 1 /\ 0 + 1 = 1 /\ 0 + n = n
            BY <2>1
        <3> QED BY <1>2, <2>1, <3>1
    <2>3. Val(p, 1, n) = Val(cs, 0, n)
        BY <2>2 DEF Val
    <2> QED BY <2>3 DEF n
<1>9. /\ call.token.val = Val(cs, 0, Stored(end)) /\ call.token.type = "s"
      /\ prefixed.token.val = Val(p, 1, Stored(end)) /\ prefixed.token.type = "s"
    BY <1>5, <1>7 DEF Read, Quoted
<1>10. /\ call.token.text.close = prefixed.token.text.close
       /\ call.pos = prefixed.pos - 1
    <2>1. CASE end = Len(cs)
        <3>1. call.pos = end /\ prefixed.pos = end + 1
            BY <1>5, <1>7, <2>1, WhatIsRead
        <3>2. call.token.text.close = "none" /\ prefixed.token.text.close = "none"
            BY <1>5, <1>7, <2>1, WhatIsRead
        <3> QED BY <1>4, <3>1, <3>2
    <2>2. CASE end # Len(cs)
        <3>1. call.pos = end + 1 /\ prefixed.pos = end + 2
            BY <1>5, <1>7, <2>2, WhatIsRead
        <3>2. call.token.text.close = c /\ prefixed.token.text.close = c
            BY <1>5, <1>7, <2>2, WhatIsRead
        <3> QED BY <1>4, <3>1, <3>2
    <2> QED BY <2>1, <2>2
<1> HIDE DEF call, prefixed
<1>11. SameToken(call, prefixed)
    BY <1>8, <1>9, <1>10 DEF SameToken
<1> QED BY <1>11 DEF call, prefixed, p, c

=============================================================================
