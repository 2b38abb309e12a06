------------------------------- MODULE MCFold -------------------------------
(***************************************************************************)
(* Token streams for Fold: every kind of token the rules tell apart, in    *)
(* short streams.                                                          *)
(***************************************************************************)
EXTENDS Fold, Sequences

T(type, val) == [type |-> type, val |-> val, text |-> NoText]
P(type, val) == [type |-> type, val |-> val]

MCPhrases ==
    [ words \in {<<"NOT", "IN">>, <<"NOT", "LIKE">>, <<"UNION", "ALL">>} |->
        CASE words = <<"NOT", "IN">>    -> P("k", "NOT IN")
          [] words = <<"NOT", "LIKE">>  -> P("o", "NOT LIKE")
          [] words = <<"UNION", "ALL">> -> P("U", "UNION ALL") ]

MCUnderscored == {"a_b"}

EveryKind ==
    { T("1", "1"), T("n", "x"), T("n", ""), T("n", "a_b"), T("n", "USER"),
      T("s", "x"), T("v", "x"), T("o", "="), T("o", "-"), T("o", "NOT"),
      T("o", "LIKE"), T("o", "::"), T("&", "AND"), T("(", "("), T(")", ")"),
      T(",", ","), T(";", ";"), T(".", "."), T("{", "{"), T("}", "}"),
      T("\\", "\\"), T("t", "INT"), T("f", "SIN"), T("f", "IF"), T("k", "IN"),
      T("k", "ALL"), T("A", "COLLATE"), T("E", "SELECT"), T("B", "LIMIT"),
      T("U", "UNION"), T("X", "X"), T("c", "--") }

BraceStreams == { T("1", "1"), T("o", "="), T("{", "{"), T("n", ""), T("k", "IN") }

=============================================================================
