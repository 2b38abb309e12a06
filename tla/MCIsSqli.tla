------------------------------ MODULE MCIsSqli ------------------------------
(***************************************************************************)
(* Inputs for IsSqli: short texts over small alphabets, one for each group *)
(* of character parsers, and texts of words.                               *)
(***************************************************************************)
EXTENDS IsSqli, SequencesExt

Joined(chars) ==
    LET joined[n \in 0 .. Len(chars)] ==
            IF n = 0 THEN "" ELSE joined[n - 1] \o UpperCase(chars[n])
    IN  joined[Len(chars)]

Texts(alphabet, length) == UNION {[1 .. n -> alphabet] : n \in 0 .. length}
Phrased(words, length) == {FlattenSeq(t) : t \in Texts(words, length)}

MCWords ==
    [ w \in {"OR", "UNION", "SELECT", "INTO", "INTO OUTFILE", "USER", "INT",
             "||", "::", "*=", "-="} |->
        CASE w \in {"OR", "||"}               -> "&"
          [] w = "UNION"                      -> "U"
          [] w = "SELECT"                     -> "E"
          [] w \in {"INTO", "INTO OUTFILE"}   -> "k"
          [] w = "USER"                       -> "n"
          [] w = "INT"                        -> "t"
          [] w \in {"::", "*=", "-="}         -> "o" ]
MCPhrases == [ w \in {<<"INTO", "OUTFILE">>} |-> [type |-> "k", val |-> "INTO OUTFILE"] ]

(* Patterns of sql_keywords, those the inputs reach among them. *)
MCFingerprints ==
    {"01&1", "01C", "01U", "0NC", "0SC", "0X", "0S&1", "0S&S", "0SOS", "0N&1", "01&S",
     "01UE", "0SUE", "0SKN", "01KN", "0S&1C", "01&1C", "01OSC", "0SO1C"}

Quoting   == Texts({"'", "\\", "a"}, 6)
Slashes   == Texts({"/", "*", "!"}, 6)
Dashes    == Texts({"-", "#", "newline", "1"}, 4)
Numbers   == Texts({"0", "x", "1", ".", "e", "+"}, 3)
Dollars   == Phrased({<<"$">>, <<"$", "a", "$">>, <<"1">>, <<"@">>}, 3)
Ticks     == Texts({"tick", "1", "dquote", " "}, 4)
Literals  == Phrased({<<"n">>, <<"q", "'">>, <<"u", "&", "'">>, <<"(">>, <<")", "'">>}, 3)
Sentences == Phrased({<<"1">>, <<" ">>, <<"o", "r">>, <<"'">>, <<"-", "-">>,
                      <<"/", "*", "*", "/">>, <<"u", "n", "i", "o", "n", " ">>}, 4)
(* Types that a later change of the token after them gives a rule. *)
Types     == Phrased({<<"1", " ">>, <<"i", "n", "t", " ">>, <<"\\", " ">>, <<"-", " ">>}, 4)
(* Texts of each of the five-token cases and what may follow, and texts    *)
(* with more tokens than the folding keeps.                                *)
FiveTokens ==
    {<<"1", ",", "(", "1", ")">>, <<"1", "+", "(", "1", ")">>, <<"a", "+", "(", "a", ")">>,
     <<"1", ")", ",", "(", "1">>, <<"a", ")", "+", "(", "a">>}
Long ==
    {five \o rest : five \in FiveTokens, rest \in Texts({"1", ",", "("}, 3)}
      \cup [1 .. 7 -> {"1", "("}]

MCInputs ==
    Quoting \cup Slashes \cup Dashes \cup Numbers \cup Dollars
      \cup Ticks \cup Literals \cup Sentences \cup Types \cup Long
MCUnderscored == {}

(* Strings between tags, not at the start of the input. *)
TaggedInputs == Phrased({<<" ">>, <<"$", "a", "$">>, <<"1">>}, 4)

=============================================================================
