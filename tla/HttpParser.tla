----------------------------- MODULE HttpParser -----------------------------
(***************************************************************************)
(* utility/http_parser.cc: percent-decoding and the splitting of a query   *)
(* string, a form body or a cookie header into named parameters.  Indices  *)
(* are those of TLA+ sequences, one above the ones in the code; Len + 1    *)
(* stands for std::string::npos.                                           *)
(***************************************************************************)
EXTENDS Params, SequencesExt

Plus == 43      Space == 32     Percent == 37   Quote == 34
Ampersand == 38 Semicolon == 59 Equals == 61    Question == 63

(* data.find(c, start) *)
Find(data, c, start) ==
    LET at == {i \in start .. Len(data) : data[i] = c}
    IN  IF at = {} THEN Len(data) + 1 ELSE Min(at)

(* data.find_first_not_of(" ", start) *)
SkipSpaces_NotSkipping(data, start) == Min({start, Len(data) + 1})
SkipSpaces(data, start) ==
    LET at == {i \in start .. Len(data) : data[i] # Space}
    IN  IF at = {} THEN Len(data) + 1 ELSE Min(at)

(* The value the decoder gives a digit: isdigit, else a letter of either   *)
(* case counted from 'A'.  Nothing checks that it is a hexadecimal digit.  *)
HexValue_CaseSensitive(c) == IF c \in 48 .. 57 THEN c - 48 ELSE c - 65 + 10
HexValue(c) ==
    IF c \in 48 .. 57 THEN c - 48
    ELSE (IF c \in 97 .. 122 THEN c - 32 ELSE c) - 65 + 10

(* char arithmetic: ch *= 16; ch += ..., in eight bits. *)
Byte(hi, lo) == (HexValue(hi) * 16 + HexValue(lo)) % 256

(* A '%' with two characters after it starts an escape; one closer to the  *)
(* end stays as it is.                                                     *)
IsEscape_ShortOfEnd(encoded, i) == encoded[i] = Percent /\ i + 2 < Len(encoded)
IsEscape(encoded, i) == encoded[i] = Percent /\ i + 2 <= Len(encoded)

(* percentDecode: an escape becomes one byte, a '+' a space. *)
percentDecode(encoded) ==
    LET decoded[i \in 1 .. Len(encoded) + 3] ==
            CASE i > Len(encoded) -> << >>
              [] i <= Len(encoded) /\ IsEscape(encoded, i) ->
                   <<Byte(encoded[i + 1], encoded[i + 2])>> \o decoded[i + 3]
              [] OTHER ->
                   <<IF encoded[i] = Plus THEN Space ELSE encoded[i]>> \o decoded[i + 1]
    IN  decoded[1]

(* A cookie value loses one pair of enclosing quotes, after decoding. *)
Unquote(val) ==
    IF Len(val) >= 2 /\ val[1] = Quote /\ val[Len(val)] = Quote
    THEN SubSeq(val, 2, Len(val) - 1)
    ELSE val

(* One parameter, the text between two delimiters, as the emplaced pair.   *)
(* It is split at its first '=' before either side is decoded.             *)
KeyOf(param) == percentDecode(SubSeq(param, 1, Find(param, Equals, 1) - 1))
ValueOf_UnquotedFirst(param, cookie) ==
    LET val == SubSeq(param, Find(param, Equals, 1) + 1, Len(param))
    IN  percentDecode(IF cookie THEN Unquote(val) ELSE val)
ValueOf(param, cookie) ==
    LET val == percentDecode(SubSeq(param, Find(param, Equals, 1) + 1, Len(param)))
    IN  IF cookie THEN Unquote(val) ELSE val

(* params.emplace(key, val), which keeps the value of a name that is there *)
(* already: the parameters that come later never replace this one.         *)
emplace(key, val, later) ==
    [k \in {key} \cup DOMAIN later |-> IF k = key THEN val ELSE later[k]]

(* The while loop of parseParameters from position start.                  *)
parseParameters(data, first, cookie) ==
    LET delim == IF cookie THEN Semicolon ELSE Ampersand
        from[start \in 1 .. Len(data) + 2] ==
            IF start > Len(data) THEN NoParams
            ELSE LET end   == Find(data, delim, start)
                     param == SubSeq(data, start, end - 1)
                     next  == IF cookie THEN SkipSpaces(data, end + 1) ELSE end + 1
                 IN  emplace(KeyOf(param), ValueOf(param, cookie), from[next])
    IN  from[first]

(* Everything after the first '?'. *)
parsePath_MarkKept(path) == parseParameters(path, Find(path, Question, 1), FALSE)
parsePath(path) ==
    LET question == Find(path, Question, 1)
    IN  IF question > Len(path) THEN NoParams
                                ELSE parseParameters(path, question + 1, FALSE)

parseBody_AsCookie(body) == parseParameters(body, 1, TRUE)
parseBody(body) == parseParameters(body, 1, FALSE)
parseCookie(cookie) == parseParameters(cookie, 1, TRUE)

=============================================================================
