---------------------------- MODULE MCHttpParser ----------------------------
(***************************************************************************)
(* Every text over an alphabet up to a length, grown one character at a    *)
(* time, with the parser compared against definitions that do not scan.    *)
(***************************************************************************)
EXTENDS HttpParser

CONSTANTS
    Alphabet,               \* character codes
    MaxLength,              \* bound: characters in a text
    MaxEncoded              \* bound: characters before an arbitrary byte

(* Characters are bytes. *)
ASSUME AlphabetAssumption == Alphabet \subseteq 0 .. 255

VARIABLE text

Init == text = << >>
Extend(c) == Len(text) < MaxLength /\ text' = Append(text, c)
Next == \E c \in Alphabet : Extend(c)
Spec == Init /\ [][Next]_text

(* What a client does before it sends a name or a value. *)
Hex(n, lower) == IF n < 10 THEN 48 + n ELSE (IF lower THEN 87 ELSE 55) + n
EncodeByte(c, lower) ==
    IF c = Space THEN <<Plus>>
    ELSE <<Percent, Hex(c \div 16, lower), Hex(c % 16, lower)>>
Encode(s, lower) == FlattenSeq([i \in DOMAIN s |-> EncodeByte(s[i], lower)])

(* Decoding undoes encoding, byte for byte, for either case of hexadecimal *)
(* digit and for bytes above 127, after any text.  It is about             *)
(* percentDecode's arithmetic in eight bits and its index, which skips two *)
(* characters per escape.                                                  *)
DecodeInvertsEncode ==
    Len(text) <= MaxEncoded =>
        \A c \in 0 .. 255, lower \in BOOLEAN :
            LET plain == Append(text, c)
            IN  percentDecode(Encode(plain, lower)) = plain

(* Decoding may be cut anywhere but inside an escape.  It is about the     *)
(* lookahead of percentDecode, which reads up to two characters beyond the *)
(* current one and must neither lose nor reread them.                      *)
DecodeIsLocal ==
    \A i \in 0 .. Len(text) :
        (\A j \in {i - 1, i} \cap DOMAIN text : text[j] # Percent) =>
            percentDecode(text) = percentDecode(SubSeq(text, 1, i))
                                    \o percentDecode(SubSeq(text, i + 1, Len(text)))

(* Positions at which a parameter begins: the first character, and after   *)
(* each delimiter; in a cookie the spaces after a semicolon are skipped.   *)
Begins(data, cookie) ==
    {k \in DOMAIN data :
        \/ k = 1
        \/ ~ cookie /\ data[k - 1] = Ampersand
        \/ /\ cookie /\ data[k] # Space
           /\ \E j \in 1 .. k - 1 :
                 data[j] = Semicolon /\ \A i \in j + 1 .. k - 1 : data[i] = Space}
ParamAt(data, k, cookie) ==
    LET delim == IF cookie THEN Semicolon ELSE Ampersand
        end   == CHOOSE e \in k - 1 .. Len(data) :
                    /\ \A i \in k .. e : data[i] # delim
                    /\ e = Len(data) \/ data[e + 1] = delim
    IN  SubSeq(data, k, end)
FirstOfEachName(params, data, cookie) ==
    LET Name(k) == KeyOf(ParamAt(data, k, cookie))
        B == Begins(data, cookie)
    IN  /\ DOMAIN params = {Name(k) : k \in B}
        /\ \A k \in B : (\A j \in B : j < k => Name(j) # Name(k)) =>
              params[Name(k)] = ValueOf(ParamAt(data, k, cookie), cookie)

(* Each parameter of a text is found, none is invented, and of several     *)
(* with one decoded name the first is kept.  It is about the loop of       *)
(* parseParameters: its end index, its start index and emplace.            *)
FirstOccurrenceWins ==
    /\ FirstOfEachName(parseBody(text), text, FALSE)
    /\ FirstOfEachName(parseCookie(text), text, TRUE)

(* A path is parsed as its query string is, and a path with none has no    *)
(* parameters.  It is about parsePath handing its offset to the loop.      *)
PathIsItsQuery ==
    \A i \in 0 .. Len(text) :
        LET before == SubSeq(text, 1, i)
        IN  Question \notin ToSet(before) =>
              /\ parsePath(before \o <<Question>> \o text) = parseBody(text)
              /\ parsePath(before) = NoParams

(* Names and values survive the form encoding whatever they contain, the   *)
(* delimiters included, and a quoted cookie value loses exactly its        *)
(* quotes.  It is about splitting before decoding, and decoding before     *)
(* removing quotes.                                                        *)
PairSurvives ==
    \A i \in 0 .. Len(text) :
        LET name  == SubSeq(text, 1, i)
            value == SubSeq(text, i + 1, Len(text))
            body  == Encode(name, TRUE) \o <<Equals>> \o Encode(value, FALSE)
            quoted == Encode(name, TRUE) \o <<Equals>>
                        \o Encode(<<Quote>> \o value \o <<Quote>>, FALSE)
        IN  /\ parseBody(body \o <<Ampersand>> \o body) = [n \in {name} |-> value]
            /\ parseCookie(quoted \o <<Semicolon, Space>>) = [n \in {name} |-> value]

(* The parameters of two texts, those of the earlier taking precedence.    *)
Over(earlier, later) ==
    [k \in DOMAIN earlier \cup DOMAIN later |->
        IF k \in DOMAIN earlier THEN earlier[k] ELSE later[k]]

(* A body may be cut at an ampersand and its halves parsed apart, the      *)
(* earlier half taking precedence.  It is what makes the parameters of a   *)
(* body that arrives in several buffers, each cut between parameters, the  *)
(* parameters of the body.                                                 *)
CutAtDelimiter ==
    \A i \in DOMAIN text :
        (i > 1 /\ text[i] = Ampersand /\ text[i - 1] # Ampersand) =>
            parseBody(text) = Over(parseBody(SubSeq(text, 1, i - 1)),
                                   parseBody(SubSeq(text, i + 1, Len(text))))

=============================================================================
