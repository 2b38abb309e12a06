----------------------------- MODULE Tokenizer -----------------------------
(***************************************************************************)
(* libinjection_sqli_tokenize and the parsers it dispatches to by the      *)
(* character at the scan position (libinjection_sqli.c, 85-1257): where    *)
(* the next token of an input begins, where it ends and what it is.        *)
(*                                                                         *)
(* An input is a sequence of characters, each a string; the ones that have *)
(* no graphic are named ("newline"), and so are the two quotes that would  *)
(* need escaping ("tick", "dquote").  Offsets are those of the code, from  *)
(* 0.  Where the code has a pointer that may be NULL, the position Len(cs) *)
(* stands for "not found".                                                 *)
(***************************************************************************)
EXTENDS Integers, Sequences, FiniteSetsExt

CONSTANTS
    Words,                  \* sql_keywords: from words in upper case to types
    Spelling(_),            \* characters as one string in upper case
    TokenSize               \* LIBINJECTION_SQLI_TOKEN_SIZE, 32 in the code

ASSUME TokenSizeAssumption == TokenSize \in Nat \ {0, 1}

At(cs, i) == cs[i + 1]
Offsets(cs) == 0 .. Len(cs) - 1

-----------------------------------------------------------------------------
(* Characters.  "nul" ends every C string of accepted characters, so that  *)
(* strchr finds it in all of them; "control" is any other one below 32.    *)
White == {" ", "tab", "newline", "nul", "nbsp"}
Digits == {"0", "1", "2", "3", "4", "5", "6", "7", "8", "9"}
Lower == <<"a", "b", "c", "d", "e", "f", "g", "h", "i", "j", "k", "l", "m",
           "n", "o", "p", "q", "r", "s", "t", "u", "v", "w", "x", "y", "z">>
Upper == <<"A", "B", "C", "D", "E", "F", "G", "H", "I", "J", "K", "L", "M",
           "N", "O", "P", "Q", "R", "S", "T", "U", "V", "W", "X", "Y", "Z">>
Letters == {Lower[i] : i \in 1 .. 26} \cup {Upper[i] : i \in 1 .. 26}
Hex == Digits \cup {"a", "b", "c", "d", "e", "f", "A", "B", "C", "D", "E", "F"}
Capital == [c \in {Lower[i] : i \in 1 .. 26} |-> Upper[CHOOSE i \in 1 .. 26 : Lower[i] = c]]
UpperCase(c) == IF c \in DOMAIN Capital THEN Capital[c] ELSE c

(* What else an amount is made of, and the characters that are tokens.     *)
AmountChars == Digits \cup {".", ","}
Operators1 == {"%", "+", "^", "~"}
Operators2 == {"!", "&", "*", ":", "<", "=", ">", "|"}
CharTokens == {"(", ")", ",", ";", "{", "}"}

(* What ends a word, and what ends a variable's name. *)
WordEnds == White \cup {"[", "]", "{", "}", "<", ">", ":", "\\", "?", "=", "@", "!",
                        "#", "~", "+", "-", "*", "/", "&", "|", "^", "%", "(", ")",
                        ",", "'", ";", "dquote"}
VarEnds == (WordEnds \ {"[", "]", "{", "}", "nbsp"}) \cup {"tick"}

-----------------------------------------------------------------------------
(* Searching.  Each returns the offset of what it finds. *)
FirstOf(cs, found) == IF found = {} THEN Len(cs) ELSE Min(found)
memchr(cs, from, c) == FirstOf(cs, {i \in from .. Len(cs) - 1 : At(cs, i) = c})
memchr2(cs, from, to, c0, c1) ==
    FirstOf(cs, {i \in from .. to - 2 : At(cs, i) = c0 /\ At(cs, i + 1) = c1})
strlenspn(cs, from, accept) ==
    FirstOf(cs, {i \in from .. Len(cs) - 1 : At(cs, i) \notin accept \cup {"nul"}}) - from
strlencspn(cs, from, ends) ==
    FirstOf(cs, {i \in from .. Len(cs) - 1 : At(cs, i) \in ends \cup {"nul"}}) - from

Is(cs, i, c) == i < Len(cs) /\ At(cs, i) = c
IsIn(cs, i, set) == i < Len(cs) /\ At(cs, i) \in set

(* The text of a token, in upper case as every comparison takes it. *)
Val(cs, pos, len) == Spelling(SubSeq(cs, pos + 1, pos + len))
lookup(word) == IF word \in DOMAIN Words THEN Words[word] ELSE "none"

(* st_assign: a token keeps what fits in its array. *)
Stored_NoRoomForZero(len) == IF len <= TokenSize THEN len ELSE TokenSize
Stored(len) == IF len < TokenSize THEN len ELSE TokenSize - 1
Quoted(cs, type, pos, len, open, close) ==
    [type |-> type, val |-> Val(cs, pos, Stored(len)),
     text |-> [pos |-> pos, len |-> Stored(len), open |-> open, close |-> close]]
st_assign(cs, type, pos, len) == Quoted(cs, type, pos, len, "none", "none")

(* What a parser leaves in the slot, and the position it returns. *)
Read(token, next) == [token |-> token, pos |-> next]
Single(cs, pos, type) == Read(st_assign(cs, type, pos, 1), pos + 1)
Word(cs, type, pos, len) == Read(st_assign(cs, type, pos, len), pos + len)

parse_operator1(cs, pos) == Single(cs, pos, "o")
parse_other(cs, pos) == Single(cs, pos, "?")
parse_char(cs, pos) == Single(cs, pos, At(cs, pos))

-----------------------------------------------------------------------------
(* Comments. *)
parse_eol_comment_PastEnd(cs, pos) ==
    LET end == memchr(cs, pos, "newline")
    IN  Read(st_assign(cs, "c", pos, end - pos), end + 1)
parse_eol_comment(cs, pos) ==
    LET end == memchr(cs, pos, "newline")
    IN  Read(st_assign(cs, "c", pos, end - pos), IF end = Len(cs) THEN end ELSE end + 1)

parse_hash(cs, pos, flags) ==
    IF flags.dialect = "mysql" THEN parse_eol_comment(cs, pos) ELSE parse_operator1(cs, pos)

(* Two dashes are a comment before white space and at the end, and before  *)
(* anything else in every dialect but MySQL's.                             *)
TwoDashes(cs, pos) == Is(cs, pos, "-") /\ Is(cs, pos + 1, "-")
PlainDashes(cs, pos) ==
    TwoDashes(cs, pos) /\ (pos + 2 = Len(cs) \/ IsIn(cs, pos + 2, White))
DashesBeforeText(cs, pos, flags) ==
    TwoDashes(cs, pos) /\ ~ PlainDashes(cs, pos) /\ flags.dialect = "ansi"
parse_dash(cs, pos, flags) ==
    IF PlainDashes(cs, pos) \/ DashesBeforeText(cs, pos, flags)
    THEN parse_eol_comment(cs, pos) ELSE parse_operator1(cs, pos)

is_mysql_comment(cs, pos) == Is(cs, pos + 2, "!")

(* A comment with another inside, or one MySQL executes, is not parsed.    *)
(* For a comment that is not closed the length of the inner search, from a *)
(* NULL pointer, wraps round and its last position is address 0: nothing   *)
(* is found.                                                               *)
CommentEnd_FromSlash(cs, pos) == memchr2(cs, pos + 1, Len(cs), "*", "/")
CommentEnd(cs, pos) == memchr2(cs, pos + 2, Len(cs), "*", "/")
parse_slash(cs, pos) ==
    LET close  == CommentEnd(cs, pos)
        closed == close < Len(cs)
        nested == closed /\ memchr2(cs, pos + 2, close + 1, "/", "*") < Len(cs)
        ctype  == IF nested \/ is_mysql_comment(cs, pos) THEN "X" ELSE "c"
    IN  IF ~ Is(cs, pos + 1, "*") THEN parse_operator1(cs, pos)
        ELSE Word(cs, ctype, pos, IF closed THEN close + 2 - pos ELSE Len(cs) - pos)

-----------------------------------------------------------------------------
(* Operators. *)
parse_backslash(cs, pos) ==
    IF Is(cs, pos + 1, "N") THEN Word(cs, "1", pos, 2) ELSE Single(cs, pos, "\\")

parse_operator2(cs, pos) ==
    LET ch == lookup(Val(cs, pos, 2))
    IN  CASE pos + 1 >= Len(cs) -> parse_operator1(cs, pos)
          [] Is(cs, pos, "<") /\ Is(cs, pos + 1, "=") /\ Is(cs, pos + 2, ">") ->
               Word(cs, "o", pos, 3)
          [] OTHER ->
               IF ch # "none" THEN Word(cs, ch, pos, 2)
               ELSE IF At(cs, pos) = ":" THEN Single(cs, pos, ":")
               ELSE parse_operator1(cs, pos)

-----------------------------------------------------------------------------
(* Strings. *)

(* An odd number of backslashes before end, none of them before start. *)
is_backslash_escaped_OneOnly(cs, end, start) ==
    end > start /\ At(cs, end - 1) = "\\"
is_backslash_escaped(cs, end, start) ==
    LET others == {i \in start .. end - 1 : At(cs, i) # "\\"}
        last   == IF others = {} THEN start - 1 ELSE Max(others)
    IN  (end - 1 - last) % 2 = 1
is_double_delim_escaped(cs, cur) == Is(cs, cur + 1, At(cs, cur))

(* The quote that closes a string whose text begins at start.  The code    *)
(* goes from quote to quote, one on when a backslash escapes it, two when  *)
(* another follows: in a run of quotes they pair up from the first that is *)
(* not escaped, and one left over at the end of the run closes.            *)
RunOf(cs, start, q) ==
    LET first == Min({i \in start .. q : \A k \in i .. q : At(cs, k) = At(cs, q)})
    IN  IF is_backslash_escaped(cs, first, start) THEN first + 1 ELSE first
ClosingQuote(cs, start, delim) ==
    FirstOf(cs, {q \in start .. Len(cs) - 1 :
                    /\ At(cs, q) = delim
                    /\ ~ is_double_delim_escaped(cs, q)
                    /\ (q - RunOf(cs, start, q)) % 2 = 0})

(* A string whose quote is simulated (offset 0) was not opened in the text.*)
parse_string_core_AlwaysOffset(cs, pos, delim, offset) ==
    LET start == pos + 1
        close == ClosingQuote(cs, start, delim)
        open  == IF offset > 0 THEN delim ELSE "none"
    IN  IF close = Len(cs)
        THEN Read(Quoted(cs, "s", start, close - start, open, "none"), close)
        ELSE Read(Quoted(cs, "s", start, close - start, open, delim), close + 1)
parse_string_core(cs, pos, delim, offset) ==
    LET start == pos + offset
        close == ClosingQuote(cs, start, delim)
        open  == IF offset > 0 THEN delim ELSE "none"
    IN  IF close = Len(cs)
        THEN Read(Quoted(cs, "s", start, close - start, open, "none"), close)
        ELSE Read(Quoted(cs, "s", start, close - start, open, delim), close + 1)

parse_string(cs, pos) == parse_string_core(cs, pos, At(cs, pos), 1)

(* A word, looked up; also looked up is what stands before a dot or a      *)
(* backquote in it, and if that is a keyword the word ends there.          *)
parse_word(cs, pos) ==
    LET wlen == strlencspn(cs, pos, WordEnds)
        keywordBefore(i) == lookup(Val(cs, pos, i)) \notin {"none", "n"}
        cuts == {i \in 0 .. Stored(wlen) - 1 :
                    At(cs, pos + i) \in {".", "tick"} /\ keywordBefore(i)}
        whole == lookup(Val(cs, pos, wlen))
    IN  IF cuts # {} THEN Word(cs, lookup(Val(cs, pos, Min(cuts))), pos, Min(cuts))
        ELSE Word(cs, IF wlen < TokenSize /\ whole # "none" THEN whole ELSE "n", pos, wlen)

(* Prefixed strings: e'..', n'..', u&'..', q'(..)', nq'(..)', b'..', x'..'.*)
parse_estring(cs, pos) ==
    IF pos + 2 >= Len(cs) \/ ~ Is(cs, pos + 1, "'") THEN parse_word(cs, pos)
    ELSE parse_string_core(cs, pos, "'", 2)

parse_ustring(cs, pos) ==
    LET string == parse_string(cs, pos + 2)
    IN  IF Is(cs, pos + 1, "&") /\ Is(cs, pos + 2, "'")
        THEN [string EXCEPT !.token.text.open = "u",
                            !.token.text.close = IF @ = "'" THEN "u" ELSE @]
        ELSE parse_word(cs, pos)

(* A delimiter below 33, or above 127 (char is signed), opens no q string. *)
Unquoting == White \cup {"control", "high"}
Matching(c) == CASE c = "(" -> ")" [] c = "[" -> "]" [] c = "{" -> "}" [] c = "<" -> ">"
                 [] OTHER -> c
parse_qstring_core(cs, wordPos, offset) ==
    LET pos   == wordPos + offset
        start == pos + 3
        close == memchr2(cs, start, Len(cs), Matching(At(cs, pos + 2)), "'")
    IN  IF ~ IsIn(cs, pos, {"q", "Q"}) \/ ~ Is(cs, pos + 1, "'") \/ pos + 2 >= Len(cs)
        THEN parse_word(cs, wordPos)
        ELSE IF At(cs, pos + 2) \in Unquoting THEN parse_word(cs, wordPos)
        ELSE IF close = Len(cs)
        THEN Read(Quoted(cs, "s", start, close - start, "q", "none"), close)
        ELSE Read(Quoted(cs, "s", start, close - start, "q", "q"), close + 2)

parse_qstring(cs, pos) == parse_qstring_core(cs, pos, 0)
parse_nqstring(cs, pos) ==
    IF pos + 2 < Len(cs) /\ Is(cs, pos + 1, "'") THEN parse_estring(cs, pos)
    ELSE parse_qstring_core(cs, pos, 1)

parse_bits(cs, pos, accept) ==
    LET wlen == strlenspn(cs, pos + 2, accept)
    IN  IF /\ pos + 2 < Len(cs) /\ Is(cs, pos + 1, "'")
           /\ Is(cs, pos + 2 + wlen, "'")
        THEN Word(cs, "1", pos, wlen + 3)
        ELSE parse_word(cs, pos)
parse_bstring(cs, pos) == parse_bits(cs, pos, {"0", "1"})
parse_xstring(cs, pos) == parse_bits(cs, pos, Hex)

parse_bword(cs, pos) ==
    LET end == memchr(cs, pos, "]")
    IN  Word(cs, "n", pos, IF end = Len(cs) THEN end - pos ELSE end - pos + 1)

(* A word in backquotes is a function or a name, whatever else it is. *)
parse_tick(cs, pos) ==
    LET string == parse_string_core(cs, pos, "tick", 1)
    IN  [string EXCEPT !.token.type = IF lookup(string.token.val) = "f" THEN "f" ELSE "n"]

(* @name, @@name, and either with the name in quotes. *)
parse_var(cs, pos) ==
    LET name   == IF Is(cs, pos + 1, "@") THEN pos + 2 ELSE pos + 1
        quoted == IF Is(cs, name, "tick") THEN parse_tick(cs, name) ELSE parse_string(cs, name)
    IN  IF IsIn(cs, name, {"tick", "'", "dquote"})
        THEN [quoted EXCEPT !.token.type = "v"]
        ELSE Word(cs, "v", name, strlencspn(cs, name, VarEnds))

(* A dollar begins an amount, a string between two $$, or one between two  *)
(* tags, $tag$.  The closing tag is looked for from offset xlen + 2 of the *)
(* input, whatever pos is, over the length that is left after the tag.     *)
parse_money(cs, pos) ==
    LET slen    == Len(cs)
        amount  == strlenspn(cs, pos + 1, AmountChars)
        xlen    == strlenspn(cs, pos + 1, Letters)
        start   == pos + xlen + 2
        dollars == memchr2(cs, pos + 2, slen, "$", "$")
        tagAt(i) == \A k \in 0 .. xlen + 1 : At(cs, i + k) = At(cs, pos + k)
        strend  == FirstOf(cs, {i \in xlen + 2 .. slen - pos - (xlen + 2) : tagAt(i)})
        String(from, end, skip) ==
            IF end = slen THEN Read(Quoted(cs, "s", from, slen - from, "$", "none"), slen)
            ELSE Read(Quoted(cs, "s", from, end - from, "$", "$"), end + skip)
    IN  CASE amount = 1 /\ Is(cs, pos + 1, ".") -> parse_word(cs, pos)
          [] amount > 0 /\ ~ (amount = 1 /\ Is(cs, pos + 1, ".")) ->
               Word(cs, "1", pos, 1 + amount)
          [] amount = 0 /\ Is(cs, pos + 1, "$") -> String(pos + 2, dollars, 2)
          [] OTHER ->
               IF xlen = 0 \/ ~ Is(cs, pos + xlen + 1, "$") THEN Single(cs, pos, "n")
               ELSE String(start, IF strend < start THEN slen ELSE strend, xlen + 2)

(* Numbers: 0x.., 0b.., or digits with a fraction, an exponent and the     *)
(* suffix of a float or a double.  An exponent without digits makes a word.*)
parse_number(cs, pos) ==
    LET slen   == Len(cs)
        digits == CASE IsIn(cs, pos + 1, {"x", "X"}) -> Hex
                    [] IsIn(cs, pos + 1, {"b", "B"}) -> {"0", "1"}
                    [] OTHER -> {}
        xlen   == strlenspn(cs, pos + 2, digits)
        EndOfDigits(i) == FirstOf(cs, {j \in i .. slen - 1 : At(cs, j) \notin Digits})
        whole  == EndOfDigits(pos)
        dot    == Is(cs, whole, ".")
        fraction == IF dot THEN EndOfDigits(whole + 1) ELSE whole
        have_e == IsIn(cs, fraction, {"e", "E"})
        sign   == IF IsIn(cs, fraction + 1, {"+", "-"}) THEN fraction + 2 ELSE fraction + 1
        exponent == IF have_e THEN EndOfDigits(sign) ELSE fraction
        have_exp == have_e /\ exponent > sign
        suffix == /\ IsIn(cs, exponent, {"d", "D", "f", "F"})
                  /\ \/ exponent + 1 = slen
                     \/ IsIn(cs, exponent + 1, White \cup {";", "u", "U"})
        end    == IF suffix THEN exponent + 1 ELSE exponent
    IN  IF At(cs, pos) = "0" /\ digits # {}
        THEN Word(cs, IF xlen = 0 THEN "n" ELSE "1", pos, 2 + xlen)
        ELSE IF dot /\ fraction - pos = 1 THEN Single(cs, pos, ".")
        ELSE Word(cs, IF have_e /\ ~ have_exp THEN "n" ELSE "1", pos, end - pos)

-----------------------------------------------------------------------------
(* char_parse_map: the parser of each character. *)
ParseBy(c, cs, pos, flags) ==
    CASE c \in {"'", "dquote"}   -> parse_string(cs, pos)
      [] c = "#"                 -> parse_hash(cs, pos, flags)
      [] c = "$"                 -> parse_money(cs, pos)
      [] c \in Operators1        -> parse_operator1(cs, pos)
      [] c \in Operators2        -> parse_operator2(cs, pos)
      [] c \in CharTokens        -> parse_char(cs, pos)
      [] c = "-"                 -> parse_dash(cs, pos, flags)
      [] c \in Digits \cup {"."} -> parse_number(cs, pos)
      [] c = "/"                 -> parse_slash(cs, pos)
      [] c \in {"?", "]"}        -> parse_other(cs, pos)
      [] c = "@"                 -> parse_var(cs, pos)
      [] c \in {"b", "B"}        -> parse_bstring(cs, pos)
      [] c \in {"e", "E"}        -> parse_estring(cs, pos)
      [] c \in {"n", "N"}        -> parse_nqstring(cs, pos)
      [] c \in {"q", "Q"}        -> parse_qstring(cs, pos)
      [] c \in {"u", "U"}        -> parse_ustring(cs, pos)
      [] c \in {"x", "X"}        -> parse_xstring(cs, pos)
      [] c = "["                 -> parse_bword(cs, pos)
      [] c = "\\"                -> parse_backslash(cs, pos)
      [] c = "tick"              -> parse_tick(cs, pos)
      [] OTHER                   -> parse_word(cs, pos)

(* parse_white: these characters are passed over. *)
Passed == White \cup {"control"}
NextChar(cs, scan) == FirstOf(cs, {i \in scan .. Len(cs) - 1 : At(cs, i) \notin Passed})

flag2delim(flags) ==
    CASE flags.quote = "single" -> "'" [] flags.quote = "double" -> "dquote" [] OTHER -> "none"

(* One call: is there a token, which, and where the scan goes on.  In a    *)
(* quoted context the first is the string the input is taken to end.       *)
AtQuotedStart(scan, flags) == scan = 0 /\ flags.quote # "none"
HasToken(cs, scan, flags) ==
    Len(cs) > 0 /\ (AtQuotedStart(scan, flags) \/ NextChar(cs, scan) < Len(cs))
libinjection_sqli_tokenize(cs, scan, flags) ==
    IF AtQuotedStart(scan, flags) THEN parse_string_core(cs, 0, flag2delim(flags), 0)
    ELSE LET next == NextChar(cs, scan) IN ParseBy(At(cs, next), cs, next, flags)

(* What the call adds to stats_comment_ddx and stats_comment_hash. *)
CountsDashes(cs, scan, flags) ==
    ~ AtQuotedStart(scan, flags) /\ DashesBeforeText(cs, NextChar(cs, scan), flags)
CountsHash(cs, scan, flags) ==
    ~ AtQuotedStart(scan, flags) /\ Is(cs, NextChar(cs, scan), "#")

=============================================================================
