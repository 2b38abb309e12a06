----------------------------- MODULE HttpProofs -----------------------------
(***************************************************************************)
(* What holds of the parser for texts of any length, over any characters.  *)
(*                                                                         *)
(* The argument: both loops are recursive functions of an index, so the    *)
(* claims are proved of all indices at once, from the end of the text      *)
(* back.  What the decoder makes of a text is what it makes of the first   *)
(* part and then of the second, unless an escape stands across the cut; so *)
(* an escaped character decodes to itself, and an encoded text to the      *)
(* text.  What the loop over parameters finds from an index is the first   *)
(* parameter of each name among those that begin there or later; the       *)
(* parameters are those a definition by positions gives, and where they    *)
(* stand does not depend on what stands before them or behind the next     *)
(* delimiter.                                                              *)
(***************************************************************************)
EXTENDS MCHttpParser, LeastTheorems, SequenceTheorems

(* The characters; what texts are made of matters to few steps.            *)
Char == 0 .. 255

(* A text is a sequence of characters.                                     *)
LEMMA TextIs ==
    ASSUME NEW e \in Str
    PROVE  /\ e \in Seq(Char) /\ Len(e) \in Nat /\ DOMAIN e = 1 .. Len(e)
           /\ \A k \in 1 .. Len(e) : e[k] \in Char
<1>1. e \in Seq(Char)
    BY DEF Str, Char
<1> QED BY <1>1, LenProperties, ElementOfSeq

(* Parts of a text are texts.                                              *)
LEMMA PartIsText ==
    ASSUME NEW e \in Str, NEW i \in Nat, NEW j \in Nat, 1 <= i, j <= Len(e)
    PROVE  /\ SubSeq(e, i, j) \in Str
           /\ Len(SubSeq(e, i, j)) = IF i <= j THEN j - i + 1 ELSE 0
           /\ \A k \in 1 .. j - i + 1 : SubSeq(e, i, j)[k] = e[i + k - 1]
<1>1. Len(e) \in Nat /\ \A k \in 1 .. Len(e) : e[k] \in Char
    BY TextIs
<1>2. i \in Int /\ j \in Int /\ \A k \in i .. j : e[k] \in Char
    BY <1>1
<1>3. /\ SubSeq(e, i, j) \in Seq(Char)
      /\ Len(SubSeq(e, i, j)) = IF i <= j THEN j - i + 1 ELSE 0
      /\ \A k \in 1 .. j - i + 1 : SubSeq(e, i, j)[k] = e[i + k - 1]
    BY <1>2, SubSeqProperties
<1> QED BY <1>3 DEF Str, Char

(* Texts one after the other are a text.                                   *)
LEMMA ConcatIsText ==
    ASSUME NEW s \in Str, NEW t \in Str
    PROVE  /\ s \o t \in Str /\ Len(s \o t) = Len(s) + Len(t)
           /\ \A k \in 1 .. Len(s) + Len(t) :
                 (s \o t)[k] = IF k <= Len(s) THEN s[k] ELSE t[k - Len(s)]
<1>1. s \in Seq(Char) /\ t \in Seq(Char)
    BY TextIs
<1>2. /\ s \o t \in Seq(Char) /\ Len(s \o t) = Len(s) + Len(t)
      /\ \A k \in 1 .. Len(s) + Len(t) :
                 (s \o t)[k] = IF k <= Len(s) THEN s[k] ELSE t[k - Len(s)]
    BY <1>1, ConcatProperties
<1> QED BY <1>2 DEF Str, Char

(* So is a single character.                                               *)
One(c) == <<c>>

(* One character is a text.                                                *)
LEMMA OneIsText ==
    ASSUME NEW c \in Char
    PROVE  One(c) \in Str /\ Len(One(c)) = 1 /\ One(c)[1] = c
BY DEF Str, One, Char

(* And so is nothing.                                                      *)
LEMMA NothingIsText == << >> \in Str /\ Len(<< >>) = 0
BY EmptySeq DEF Str

-----------------------------------------------------------------------------
(* A byte made of two digits is a character.                               *)
LEMMA ByteIsChar ==
    ASSUME NEW hi \in Char, NEW lo \in Char
    PROVE  Byte(hi, lo) \in Char
<1>1. HexValue(hi) \in Int /\ HexValue(lo) \in Int
    BY DEF HexValue, Char
<1> QED BY <1>1 DEF Byte, Char

(* What the decoder does at i, given what it makes of the rest: the body   *)
(* of the function in percentDecode.                                       *)
DecodeStep(encoded, i, d) ==
    IF i > Len(encoded) THEN << >>
    ELSE IF IsEscape(encoded, i)
         THEN One(Byte(encoded[i + 1], encoded[i + 2])) \o d[i + 3]
         ELSE One(IF encoded[i] = Plus THEN Space ELSE encoded[i]) \o d[i + 1]

Decodes(d, encoded) ==
    /\ d \in [1 .. Len(encoded) + 3 -> Str]
    /\ \A i \in 1 .. Len(encoded) + 3 : d[i] = DecodeStep(encoded, i, d)

(* The step makes a text of a text.                                        *)
LEMMA DecodeStepIsText ==
    ASSUME NEW e \in Str, NEW d, NEW i \in 1 .. Len(e) + 3,
           \A j \in 1 .. Len(e) + 3 : i < j => d[j] \in Str
    PROVE  DecodeStep(e, i, d) \in Str
<1>0. Len(e) \in Nat /\ \A k \in 1 .. Len(e) : e[k] \in Char
    BY TextIs
<1>1. CASE i > Len(e)
    BY <1>1, NothingIsText DEF DecodeStep
<1>2. CASE i <= Len(e) /\ IsEscape(e, i)
    <2>1. i + 2 <= Len(e)
        BY <1>2 DEF IsEscape
    <2>2. Byte(e[i + 1], e[i + 2]) \in Char /\ d[i + 3] \in Str
        BY <1>0, <2>1, ByteIsChar
    <2>3. DecodeStep(e, i, d) = One(Byte(e[i + 1], e[i + 2])) \o d[i + 3]
        <3>1. ~ (i > Len(e))
            BY <1>0, <1>2
        <3> QED BY <1>2, <3>1, Zenon DEF DecodeStep
    <2> QED BY <2>2, <2>3, OneIsText, ConcatIsText
<1>3. CASE i <= Len(e) /\ ~ IsEscape(e, i)
    <2> DEFINE c == IF e[i] = Plus THEN Space ELSE e[i]
    <2>1. c \in Char /\ d[i + 1] \in Str
        <3>1. i \in 1 .. Len(e) /\ i + 1 \in 1 .. Len(e) + 3 /\ i < i + 1
            BY <1>0, <1>3
        <3>2. Space \in Char
            BY DEF Space, Char
        <3> QED BY <1>0, <3>1, <3>2
    <2>2. DecodeStep(e, i, d) = One(c) \o d[i + 1]
        <3>1. ~ (i > Len(e))
            BY <1>0, <1>3
        <3> QED BY <1>3, <3>1, Zenon DEF DecodeStep
    <2> HIDE DEF c
    <2> QED BY <2>1, <2>2, OneIsText, ConcatIsText
<1> QED BY <1>0, <1>1, <1>2, <1>3

(* The step looks only further on.                                         *)
LEMMA DecodeStepLooksOn ==
    ASSUME NEW e \in Str, NEW d, NEW f, NEW i \in 1 .. Len(e) + 3,
           \A j \in 1 .. Len(e) + 3 : i < j => d[j] = f[j]
    PROVE  DecodeStep(e, i, d) = DecodeStep(e, i, f)
<1>1. Len(e) \in Nat
    BY DEF Str
<1>2. CASE i > Len(e)
    BY <1>2 DEF DecodeStep
<1>3. CASE i <= Len(e)
    <2>1. d[i + 1] = f[i + 1] /\ d[i + 3] = f[i + 3]
        BY <1>1, <1>3
    <2> QED BY <2>1 DEF DecodeStep
<1> QED BY <1>1, <1>2, <1>3

(* The function in percentDecode exists and satisfies its equation.        *)
LEMMA DecodeDef ==
    ASSUME NEW e \in Str
    PROVE  \E d : Decodes(d, e) /\ percentDecode(e) = d[1]
<1> DEFINE N == Len(e) + 3
           D == 1 .. N
           measure == [i \in D |-> N - i]
           step == [i \in D |-> [g \in [D -> Str] |-> DecodeStep(e, i, g)]]
<1>1. N \in Nat
    BY TextIs
<1>2. \E d \in [D -> Str] : \A i \in D : d[i] = DecodeStep(e, i, d)
    <2>1. Str # {}
        BY NothingIsText
    <2>2. Measures(measure, D, N)
        BY <1>1 DEF Measures
    <2>3. \A i \in D, g \in [D -> Str] : step[i][g] = DecodeStep(e, i, g)
        OBVIOUS
    <2>4. step \in [D -> [[D -> Str] -> Str]]
        BY DecodeStepIsText
    <2>5. ASSUME NEW i \in D, NEW g \in [D -> Str], NEW h \in [D -> Str],
                 \A j \in D : measure[j] < measure[i] => g[j] = h[j]
          PROVE  step[i][g] = step[i][h]
        <3>1. \A j \in D : i < j => g[j] = h[j]
            BY <1>1, <2>5
        <3>2. DecodeStep(e, i, g) = DecodeStep(e, i, h)
            BY <3>1, DecodeStepLooksOn
        <3> QED BY <2>3, <3>2
    <2> HIDE DEF measure, step, D, N
    <2>6. LooksDown(step, measure, D, Str)
        BY <2>4, <2>5 DEF LooksDown
    <2>7. \E d \in [D -> Str] : IsFixed(d, step, D)
        BY <1>1, <2>1, <2>2, <2>6, Recursion
    <2> QED BY <2>3, <2>7 DEF IsFixed
<1> DEFINE Body(f) == [i \in D |->
                    CASE i > Len(e) -> << >>
                      [] i <= Len(e) /\ IsEscape(e, i) ->
                           <<Byte(e[i + 1], e[i + 2])>> \o f[i + 3]
                      [] OTHER ->
                           <<IF e[i] = Plus THEN Space ELSE e[i]>> \o f[i + 1]]
<1>4. ASSUME NEW f, NEW i \in D PROVE Body(f)[i] = DecodeStep(e, i, f)
    <2>1. i > Len(e) <=> ~ (i <= Len(e))
        BY <1>1, TextIs
    <2>2. Body(f)[i] = DecodeStep(e, i, f)
        BY <2>1, Zenon DEF DecodeStep, One
    <2> QED BY <2>2
<1>5. ASSUME NEW f PROVE Body(f) = [i \in D |-> DecodeStep(e, i, f)]
    BY <1>4
<1> DEFINE d == CHOOSE f : f = Body(f)
<1>3. percentDecode(e) = d[1]
    BY DEF percentDecode
<1> HIDE DEF Body
<1>6. d = Body(d)
    <2>1. PICK f \in [D -> Str] : \A i \in D : f[i] = DecodeStep(e, i, f)
        BY <1>2
    <2>2. f = Body(f)
        BY <1>5, <2>1
    <2> QED BY <2>2
<1> HIDE DEF d, D, N
<1>7. \A i \in D : d[i] = DecodeStep(e, i, d)
    BY <1>4, <1>6
<1> USE DEF D
<1>8. \A i \in D : d[i] \in Str
    <2> DEFINE S == {i \in D : d[i] \in Str}
    <2>1. ASSUME NEW i \in 1 .. N, \A j \in 1 .. N : i < j => j \in S PROVE i \in S
        <3>1. DecodeStep(e, i, d) \in Str
            BY <2>1, DecodeStepIsText DEF N
        <3> QED BY <1>7, <3>1
    <2> HIDE DEF S
    <2>2. \A i \in 1 .. N : i \in S
        BY <1>1, <2>1, InductionDown
    <2> QED BY <2>2 DEF S
<1>9. d = [i \in D |-> DecodeStep(e, i, d)]
    BY <1>5, <1>6
<1>10. d \in [D -> Str]
    BY <1>7, <1>8, <1>9
<1>11. Decodes(d, e)
    BY <1>7, <1>10 DEF Decodes, N
<1> QED BY <1>3, <1>11

(* The step on the end of a text is the step on the text, further on.      *)
LEMMA DecodeStepShifts ==
    ASSUME NEW e \in Str, NEW t \in Str, NEW m \in Nat, Len(e) = m + Len(t),
           \A i \in 1 .. Len(t) : t[i] = e[m + i],
           NEW d, NEW f, NEW i \in 1 .. Len(t) + 3,
           \A j \in 1 .. Len(t) + 3 : i < j => f[j] = d[m + j]
    PROVE  DecodeStep(t, i, f) = DecodeStep(e, m + i, d)
<1>1. Len(t) \in Nat /\ Len(e) \in Nat
    BY TextIs
<1>2. CASE i > Len(t)
    <2>1. m + i > Len(e)
        BY <1>1, <1>2
    <2> QED BY <1>2, <2>1 DEF DecodeStep
<1>3. CASE i <= Len(t)
    <2>1. /\ ~ (i > Len(t)) /\ ~ (m + i > Len(e)) /\ t[i] = e[m + i]
          /\ i + 2 <= Len(t) <=> m + i + 2 <= Len(e)
        BY <1>1, <1>3
    <2>2. IsEscape(t, i) <=> IsEscape(e, m + i)
        BY <2>1 DEF IsEscape
    <2>3. f[i + 1] = d[m + i + 1] /\ f[i + 3] = d[m + i + 3]
        <3>1. /\ i + 1 \in 1 .. Len(t) + 3 /\ i < i + 1 /\ m + (i + 1) = m + i + 1
              /\ i + 3 \in 1 .. Len(t) + 3 /\ i < i + 3 /\ m + (i + 3) = m + i + 3
            BY <1>1, <1>3
        <3>2. f[i + 1] = d[m + (i + 1)] /\ f[i + 3] = d[m + (i + 3)]
            BY <3>1
        <3> QED BY <3>1, <3>2
    <2>4. CASE IsEscape(t, i)
        <3>1. t[i + 1] = e[m + i + 1] /\ t[i + 2] = e[m + i + 2]
            BY <1>1, <2>4 DEF IsEscape
        <3> QED BY <2>1, <2>2, <2>3, <2>4, <3>1 DEF DecodeStep
    <2>5. CASE ~ IsEscape(t, i)
        BY <2>1, <2>2, <2>3, <2>5 DEF DecodeStep
    <2> QED BY <2>4, <2>5
<1> QED BY <1>1, <1>2, <1>3

(* So the function holds at k what the text from k on is decoded to.       *)
LEMMA DecodeSuffix ==
    ASSUME NEW e \in Str, NEW k \in 1 .. Len(e) + 1, NEW d, Decodes(d, e)
    PROVE  percentDecode(SubSeq(e, k, Len(e))) = d[k]
<1> DEFINE t == SubSeq(e, k, Len(e))
           m == k - 1
           N == Len(t) + 3
<1>1. Len(e) \in Nat
    BY TextIs
<1>2. /\ t \in Str /\ m \in Nat /\ k \in Nat /\ N \in Nat /\ Len(t) \in Nat
      /\ Len(e) = m + Len(t)
    BY <1>1, PartIsText
<1>3. \A i \in 1 .. Len(t) : t[i] = e[m + i]
    <2>1. \A i \in 1 .. Len(e) - k + 1 : t[i] = e[k + i - 1]
        BY <1>1, <1>2, PartIsText
    <2> SUFFICES ASSUME NEW i \in 1 .. Len(t) PROVE t[i] = e[m + i]
        OBVIOUS
    <2>2. i \in 1 .. Len(e) - k + 1 /\ k + i - 1 = m + i
        BY <1>1, <1>2
    <2> HIDE DEF t, m
    <2> QED BY <2>1, <2>2
<1> HIDE DEF t
<1>4. PICK f : Decodes(f, t) /\ percentDecode(t) = f[1]
    BY <1>2, DecodeDef
<1> DEFINE S == {i \in 1 .. N : f[i] = d[m + i]}
<1>5. ASSUME NEW i \in 1 .. N, \A j \in 1 .. N : i < j => j \in S PROVE i \in S
    <2>1. DecodeStep(t, i, f) = DecodeStep(e, m + i, d)
        <3>1. \A j \in 1 .. Len(t) + 3 : i < j => f[j] = d[m + j]
            BY <1>5
        <3>2. i \in 1 .. Len(t) + 3
            OBVIOUS
        <3> HIDE DEF m, N, S
        <3> QED BY <1>2, <1>3, <3>1, <3>2, DecodeStepShifts
    <2>2. m + i \in 1 .. Len(e) + 3
        BY <1>1, <1>2
    <2> QED BY <1>4, <2>1, <2>2 DEF Decodes
<1> HIDE DEF S
<1>6. \A i \in 1 .. N : i \in S
    BY <1>2, <1>5, InductionDown
<1>7. f[1] = d[m + 1]
    BY <1>2, <1>6 DEF S
<1> QED BY <1>1, <1>4, <1>7 DEF t

(* What is left of a text from k on.                                       *)
From(e, k) == SubSeq(e, k, Len(e))

(* percentDecode without its index: what it makes of nothing, and of a     *)
(* text that begins with an escape or with any other character.            *)
LEMMA DecodeNothing == percentDecode(<< >>) = << >>
<1>1. PICK d : Decodes(d, << >>) /\ percentDecode(<< >>) = d[1]
    BY NothingIsText, DecodeDef
<1>2. d[1] = DecodeStep(<< >>, 1, d) /\ 1 > Len(<< >>)
    BY <1>1, NothingIsText DEF Decodes
<1> QED BY <1>1, <1>2, Zenon DEF DecodeStep

(* What is decoded is a text.                                              *)
LEMMA DecodeIsText ==
    ASSUME NEW e \in Str
    PROVE  percentDecode(e) \in Str
<1>1. PICK d : Decodes(d, e) /\ percentDecode(e) = d[1]
    BY DecodeDef
<1>2. 1 \in 1 .. Len(e) + 3
    BY TextIs
<1> QED BY <1>1, <1>2 DEF Decodes

(* Decoding takes an escape of three characters first, or one character.   *)
LEMMA DecodeFirst ==
    ASSUME NEW e \in Str, 1 <= Len(e)
    PROVE  /\ IsEscape(e, 1) =>
                  percentDecode(e) = One(Byte(e[2], e[3])) \o percentDecode(From(e, 4))
           /\ ~ IsEscape(e, 1) =>
                  percentDecode(e) = One(IF e[1] = Plus THEN Space ELSE e[1])
                                        \o percentDecode(From(e, 2))
<1>1. Len(e) \in Nat
    BY TextIs
<1>2. PICK d : Decodes(d, e) /\ percentDecode(e) = d[1]
    BY DecodeDef
<1>3. d[1] = DecodeStep(e, 1, d) /\ ~ (1 > Len(e))
    BY <1>1, <1>2 DEF Decodes
<1>4. percentDecode(From(e, 2)) = d[2]
    <2>1. 2 \in 1 .. Len(e) + 1
        BY <1>1
    <2> QED BY <1>2, <2>1, DecodeSuffix DEF From
<1>5. ASSUME IsEscape(e, 1) PROVE percentDecode(From(e, 4)) = d[4]
    <2>1. 4 \in 1 .. Len(e) + 1
        BY <1>1, <1>5 DEF IsEscape
    <2> QED BY <1>2, <2>1, DecodeSuffix DEF From
<1>6. 1 + 1 = 2 /\ 1 + 2 = 3 /\ 1 + 3 = 4
    OBVIOUS
<1> QED BY <1>2, <1>3, <1>4, <1>5, <1>6, Zenon DEF DecodeStep

-----------------------------------------------------------------------------
(* Joining texts is associative, and nothing is joined without effect.     *)
LEMMA JoinTexts ==
    ASSUME NEW a \in Str, NEW b \in Str, NEW c \in Str
    PROVE  /\ (a \o b) \o c = a \o (b \o c)
           /\ a \o << >> = a /\ << >> \o a = a
<1>1. a \in Seq(Char) /\ b \in Seq(Char) /\ c \in Seq(Char)
    BY TextIs
<1> QED BY <1>1, ConcatAssociative, ConcatEmptySeq

(* The first of these alone, as three texts in a row need it.              *)
LEMMA JoinThree ==
    ASSUME NEW a \in Str, NEW b \in Str, NEW c \in Str
    PROVE  (a \o b) \o c = a \o (b \o c)
BY JoinTexts, SMTT(30)

(* Two texts are equal if they have the same characters.                   *)
LEMMA SameText ==
    ASSUME NEW a \in Str, NEW b \in Str, Len(a) = Len(b), \A i \in 1 .. Len(a) : a[i] = b[i]
    PROVE  a = b
<1>1. a \in Seq(Char) /\ b \in Seq(Char)
    BY TextIs
<1> QED BY <1>1, SeqEqual

(* A text without characters is the empty one.                             *)
LEMMA EmptyText ==
    ASSUME NEW a \in Str, Len(a) = 0
    PROVE  a = << >>
<1>1. Len(<< >>) = 0 /\ << >> \in Str
    BY NothingIsText
<1> HIDE DEF Str
<1>2. \A i \in 1 .. Len(a) : a[i] = << >>[i]
    OBVIOUS
<1> QED BY <1>1, <1>2, SameText

(* The rest of a text.                                                     *)
LEMMA RestIsText ==
    ASSUME NEW a \in Str, NEW k \in 1 .. Len(a) + 1
    PROVE  /\ From(a, k) \in Str /\ Len(From(a, k)) = Len(a) - k + 1
           /\ \A i \in 1 .. Len(a) - k + 1 : From(a, k)[i] = a[k + i - 1]
<1>1. Len(a) \in Nat
    BY TextIs
<1>2. k \in Nat /\ 1 <= k /\ Len(a) <= Len(a)
    BY <1>1
<1>3. /\ From(a, k) \in Str
      /\ Len(From(a, k)) = IF k <= Len(a) THEN Len(a) - k + 1 ELSE 0
      /\ \A i \in 1 .. Len(a) - k + 1 : From(a, k)[i] = a[k + i - 1]
    BY <1>1, <1>2, PartIsText DEF From
<1> QED BY <1>1, <1>2, <1>3

(* The rest of two texts joined, from a place in the first.                *)
LEMMA RestOfJoined ==
    ASSUME NEW a \in Str, NEW b \in Str, NEW k \in 1 .. Len(a) + 1
    PROVE  From(a \o b, k) = From(a, k) \o b
<1> DEFINE ab == a \o b
           l == From(ab, k)
           r == From(a, k) \o b
<1>1. /\ Len(a) \in Nat /\ Len(b) \in Nat
      /\ ab \in Str /\ Len(ab) = Len(a) + Len(b)
      /\ \A i \in 1 .. Len(a) + Len(b) : ab[i] = IF i <= Len(a) THEN a[i] ELSE b[i - Len(a)]
    BY TextIs, ConcatIsText
<1>2. /\ From(a, k) \in Str /\ Len(From(a, k)) = Len(a) - k + 1
      /\ \A i \in 1 .. Len(a) - k + 1 : From(a, k)[i] = a[k + i - 1]
    BY RestIsText
<1> HIDE DEF ab
<1>3. k \in 1 .. Len(ab) + 1
    BY <1>1
<1>4. /\ l \in Str /\ Len(l) = Len(ab) - k + 1
      /\ \A i \in 1 .. Len(ab) - k + 1 : l[i] = ab[k + i - 1]
    BY <1>1, <1>3, RestIsText
<1>5. /\ r \in Str /\ Len(r) = Len(From(a, k)) + Len(b)
      /\ \A i \in 1 .. Len(From(a, k)) + Len(b) :
            r[i] = IF i <= Len(From(a, k)) THEN From(a, k)[i] ELSE b[i - Len(From(a, k))]
    BY <1>2, ConcatIsText
<1> HIDE DEF l, r
<1>6. Len(l) = Len(r) /\ Len(l) = Len(a) + Len(b) - k + 1
    BY <1>1, <1>2, <1>4, <1>5
<1>7. ASSUME NEW i \in 1 .. Len(l) PROVE l[i] = r[i]
    <2>1. i \in 1 .. Len(ab) - k + 1 /\ k + i - 1 \in 1 .. Len(a) + Len(b)
        BY <1>1, <1>6
    <2>2. l[i] = ab[k + i - 1]
        BY <1>4, <2>1
    <2>3. i \in 1 .. Len(From(a, k)) + Len(b)
        BY <1>1, <1>2, <1>6
    <2>4. CASE i <= Len(From(a, k))
        <3>1. k + i - 1 <= Len(a) /\ i \in 1 .. Len(a) - k + 1
            BY <1>1, <1>2, <2>4
        <3>2. ab[k + i - 1] = a[k + i - 1] /\ r[i] = From(a, k)[i]
            BY <1>1, <1>5, <2>1, <2>3, <2>4, <3>1
        <3> QED BY <1>2, <2>2, <3>1, <3>2
    <2>5. CASE ~ (i <= Len(From(a, k)))
        <3>1. ~ (k + i - 1 <= Len(a)) /\ i - Len(From(a, k)) = (k + i - 1) - Len(a)
            BY <1>1, <1>2, <2>5
        <3>2. ab[k + i - 1] = b[(k + i - 1) - Len(a)] /\ r[i] = b[i - Len(From(a, k))]
            BY <1>1, <1>5, <2>1, <2>3, <2>5, <3>1
        <3> QED BY <2>2, <3>1, <3>2
    <2> QED BY <2>4, <2>5
<1> QED BY <1>4, <1>5, <1>6, <1>7, SameText DEF l, r, ab

(* A text whose last two characters are no '%' ends outside any escape.    *)
Closed(a) == \A j \in {Len(a) - 1, Len(a)} \cap DOMAIN a : a[j] # Percent

(* Decoding may be cut where a text ends outside any escape.               *)
LEMMA DecodeJoined ==
    ASSUME NEW a \in Str, Closed(a), NEW b \in Str
    PROVE  percentDecode(a \o b) = percentDecode(a) \o percentDecode(b)
<1> DEFINE S == {n \in Nat : \A t \in Str : (Len(t) = n /\ Closed(t)) =>
                    percentDecode(t \o b) = percentDecode(t) \o percentDecode(b)}
<1>1. ASSUME NEW n \in Nat, \A m \in Nat : m < n => m \in S PROVE n \in S
    <2> SUFFICES ASSUME NEW t \in Str, Len(t) = n, Closed(t)
                 PROVE  percentDecode(t \o b) = percentDecode(t) \o percentDecode(b)
        OBVIOUS
    <2> DEFINE tb == t \o b
    <2>0. percentDecode(b) \in Str
        BY DecodeIsText
    <2>1. CASE n = 0
        <3>1. t = << >>
            BY <2>1, EmptyText
        <3> QED BY <2>0, <3>1, JoinTexts, DecodeNothing
    <2>2. CASE n # 0
        <3>1. /\ Len(t) \in Nat /\ 1 <= Len(t) /\ DOMAIN t = 1 .. Len(t) /\ Len(b) \in Nat
              /\ \A k \in 1 .. Len(t) : t[k] \in Char
            BY <2>2, TextIs
        <3>2. /\ tb \in Str /\ Len(tb) = Len(t) + Len(b) /\ 1 <= Len(tb)
              /\ \A i \in 1 .. Len(t) : tb[i] = t[i]
            <4>1. /\ tb \in Str /\ Len(tb) = Len(t) + Len(b)
                  /\ \A i \in 1 .. Len(t) + Len(b) :
                        tb[i] = IF i <= Len(t) THEN t[i] ELSE b[i - Len(t)]
                BY ConcatIsText
            <4> HIDE DEF tb
            <4>2. \A i \in 1 .. Len(t) : i \in 1 .. Len(t) + Len(b) /\ i <= Len(t)
                BY <3>1
            <4> QED BY <3>1, <4>1, <4>2
        <3>3. ASSUME NEW k \in 2 .. Len(t) + 1
              PROVE  /\ percentDecode(From(tb, k))
                            = percentDecode(From(t, k)) \o percentDecode(b)
                     /\ percentDecode(From(t, k)) \in Str
            <4>1. /\ From(t, k) \in Str /\ Len(From(t, k)) = Len(t) - k + 1
                  /\ \A i \in 1 .. Len(t) - k + 1 : From(t, k)[i] = t[k + i - 1]
                <5>1. k \in 1 .. Len(t) + 1
                    BY <3>1
                <5> QED BY <5>1, RestIsText
            <4>2. Closed(From(t, k))
                <5> SUFFICES ASSUME NEW j \in {Len(From(t, k)) - 1, Len(From(t, k))},
                                    j \in DOMAIN From(t, k)
                             PROVE  From(t, k)[j] # Percent
                    BY DEF Closed
                <5>1. j \in 1 .. Len(t) - k + 1
                    BY <4>1, TextIs
                <5>2. k + j - 1 \in {Len(t) - 1, Len(t)} \cap DOMAIN t
                    BY <3>1, <4>1, <5>1
                <5> QED BY <4>1, <5>1, <5>2 DEF Closed
            <4>3. Len(From(t, k)) \in Nat /\ Len(From(t, k)) < n
                BY <3>1, <4>1
            <4>4. percentDecode(From(t, k) \o b) = percentDecode(From(t, k)) \o percentDecode(b)
                BY <1>1, <4>1, <4>2, <4>3
            <4>5. k \in 1 .. Len(t) + 1
                BY <3>1
            <4> QED BY <4>1, <4>4, <4>5, RestOfJoined, DecodeIsText
        <3>4. CASE IsEscape(tb, 1)
            <4>1. t[1] = Percent
                BY <3>1, <3>2, <3>4 DEF IsEscape
            <4>2. 3 <= Len(t)
                BY <3>1, <4>1 DEF Closed
            <4>3. /\ IsEscape(t, 1) /\ tb[2] = t[2] /\ tb[3] = t[3]
                  /\ t[2] \in Char /\ t[3] \in Char
                BY <3>1, <3>2, <4>1, <4>2 DEF IsEscape
            <4> DEFINE c == Byte(t[2], t[3])
            <4>4. One(c) \in Str
                BY <4>3, ByteIsChar, OneIsText
            <4>5. percentDecode(tb) = One(c) \o percentDecode(From(tb, 4))
                BY <3>2, <3>4, <4>3, DecodeFirst
            <4>6. percentDecode(t) = One(c) \o percentDecode(From(t, 4))
                BY <3>1, <4>3, DecodeFirst
            <4> HIDE DEF c
            <4>7. 4 \in 2 .. Len(t) + 1
                BY <3>1, <4>2
            <4>8. /\ percentDecode(From(tb, 4)) = percentDecode(From(t, 4)) \o percentDecode(b)
                  /\ percentDecode(From(t, 4)) \in Str
                BY <3>3, <4>7
            <4>9. (One(c) \o percentDecode(From(t, 4))) \o percentDecode(b)
                    = One(c) \o (percentDecode(From(t, 4)) \o percentDecode(b))
                <5> DEFINE o == One(c)
                           x == percentDecode(From(t, 4))
                           y == percentDecode(b)
                <5>1. o \in Str /\ x \in Str /\ y \in Str
                    BY <2>0, <4>4, <4>8
                <5> HIDE DEF o, x, y
                <5>2. (o \o x) \o y = o \o (x \o y)
                    BY <5>1, JoinThree, SMTT(60)
                <5> QED BY <5>2 DEF o, x, y
            <4> QED BY <4>5, <4>6, <4>8, <4>9
        <3>5. CASE ~ IsEscape(tb, 1)
            <4>1. ~ IsEscape(t, 1) /\ tb[1] = t[1] /\ t[1] \in Char
                BY <3>1, <3>2, <3>5 DEF IsEscape
            <4> DEFINE c == IF t[1] = Plus THEN Space ELSE t[1]
            <4>2. One(c) \in Str
                <5>1. Space \in Char
                    BY DEF Space, Char
                <5>2. c \in Char
                    BY <4>1, <5>1
                <5> QED BY <5>2, OneIsText
            <4>3. percentDecode(tb) = One(c) \o percentDecode(From(tb, 2))
                BY <3>2, <3>5, <4>1, DecodeFirst
            <4>4. percentDecode(t) = One(c) \o percentDecode(From(t, 2))
                BY <3>1, <4>1, DecodeFirst
            <4> HIDE DEF c
            <4>5. 2 \in 2 .. Len(t) + 1
                BY <3>1
            <4>6. /\ percentDecode(From(tb, 2)) = percentDecode(From(t, 2)) \o percentDecode(b)
                  /\ percentDecode(From(t, 2)) \in Str
                BY <3>3, <4>5
            <4>7. (One(c) \o percentDecode(From(t, 2))) \o percentDecode(b)
                    = One(c) \o (percentDecode(From(t, 2)) \o percentDecode(b))
                BY <2>0, <4>2, <4>6, JoinTexts, SMTT(60)
            <4> QED BY <4>3, <4>4, <4>6, <4>7
        <3> QED BY <3>4, <3>5
    <2> QED BY <2>1, <2>2
<1> HIDE DEF S
<1>2. \A n \in Nat : n \in S
    BY <1>1, Induction
<1>3. Len(a) \in S
    BY <1>2, TextIs
<1> QED BY <1>3 DEF S

-----------------------------------------------------------------------------
(* A byte is encoded as a plus sign or as an escape of two digits, and     *)
(* decoded to itself; no delimiter is used for it.                         *)
Plain(t) == \A i \in 1 .. Len(t) : t[i] \notin {Ampersand, Semicolon, Equals}

(* A digit is read back as the number it was written for.                  *)
LEMMA HexDigits ==
    ASSUME NEW n \in 0 .. 15, NEW lower \in BOOLEAN
    PROVE  /\ Hex(n, lower) \in Char /\ HexValue(Hex(n, lower)) = n
           /\ Hex(n, lower) \notin {Ampersand, Semicolon, Equals, Percent}
<1>1. CASE n < 10
    BY <1>1 DEF Hex, HexValue, Char, Ampersand, Semicolon, Equals, Percent
<1>2. CASE ~ (n < 10) /\ lower
    BY <1>2 DEF Hex, HexValue, Char, Ampersand, Semicolon, Equals, Percent
<1>3. CASE ~ (n < 10) /\ ~ lower
    BY <1>3 DEF Hex, HexValue, Char, Ampersand, Semicolon, Equals, Percent
<1> QED BY <1>1, <1>2, <1>3

(* A byte is written with two digits, and read back from them.             *)
LEMMA TwoDigits ==
    ASSUME NEW c \in Char
    PROVE  c \div 16 \in 0 .. 15 /\ c % 16 \in 0 .. 15 /\ ((c \div 16) * 16 + (c % 16)) % 256 = c
BY DEF Char

(* An encoded byte is an escape of three characters.                       *)
LEMMA EncodeByteIs ==
    ASSUME NEW c \in Char, NEW lower \in BOOLEAN
    PROVE  /\ EncodeByte(c, lower) \in Str
           /\ percentDecode(EncodeByte(c, lower)) = One(c)
           /\ Plain(EncodeByte(c, lower)) /\ Closed(EncodeByte(c, lower))
<1>1. CASE c = Space
    <2>1. Plus \in Char
        BY DEF Plus, Char
    <2> DEFINE t == One(Plus)
    <2>2. EncodeByte(c, lower) = t
        BY <1>1 DEF EncodeByte, One
    <2>3. t \in Str /\ Len(t) = 1 /\ t[1] = Plus
        BY <2>1, OneIsText
    <2>4. Plus \notin {Ampersand, Semicolon, Equals, Percent}
        BY DEF Plus, Ampersand, Semicolon, Equals, Percent
    <2> HIDE DEF t
    <2>5. Plain(t) /\ Closed(t)
        BY <2>3, <2>4, TextIs DEF Plain, Closed
    <2>6. percentDecode(t) = One(Space) \o percentDecode(From(t, 2))
        <3>1. ~ IsEscape(t, 1)
            BY <2>3, <2>4 DEF IsEscape
        <3>2. 1 <= Len(t) /\ (IF t[1] = Plus THEN Space ELSE t[1]) = Space
            BY <2>3
        <3> QED BY <2>3, <3>1, <3>2, DecodeFirst
    <2>7. From(t, 2) = << >>
        <3>1. 2 \in 1 .. Len(t) + 1 /\ Len(t) - 2 + 1 = 0
            BY <2>3
        <3>2. From(t, 2) \in Str /\ Len(From(t, 2)) = Len(t) - 2 + 1
            BY <2>3, <3>1, RestIsText
        <3> QED BY <3>1, <3>2, EmptyText
    <2>8. One(Space) \o << >> = One(Space)
        <3>1. One(Space) \in Str
            BY <1>1, OneIsText
        <3> QED BY <3>1, JoinTexts
    <2>9. percentDecode(t) = One(c)
        BY <1>1, <2>6, <2>7, <2>8, DecodeNothing
    <2> QED BY <2>2, <2>3, <2>5, <2>9
<1>2. CASE c # Space
    <2> DEFINE h == Hex(c \div 16, lower)
               l == Hex(c % 16, lower)
               t == <<Percent, h, l>>
    <2>1. EncodeByte(c, lower) = t
        BY <1>2 DEF EncodeByte
    <2>2. /\ h \in Char /\ HexValue(h) = c \div 16
          /\ h \notin {Ampersand, Semicolon, Equals, Percent}
          /\ l \in Char /\ HexValue(l) = c % 16
          /\ l \notin {Ampersand, Semicolon, Equals, Percent}
        BY TwoDigits, HexDigits
    <2> HIDE DEF h, l
    <2>3. Percent \in Char /\ Percent \notin {Ampersand, Semicolon, Equals}
        BY DEF Percent, Char, Ampersand, Semicolon, Equals
    <2>4. /\ t \in Seq(Char) /\ Len(t) = 3
          /\ t[1] = Percent /\ t[2] = h /\ t[3] = l
        BY <2>2, <2>3
    <2>5. t \in Str
        BY <2>4 DEF Str, Char
    <2> HIDE DEF t
    <2>6. \A i \in 1 .. Len(t) : i = 1 \/ i = 2 \/ i = 3
        BY <2>4
    <2>7. Plain(t)
        BY <2>2, <2>3, <2>4, <2>6 DEF Plain
    <2>8. Closed(t)
        BY <2>2, <2>4, <2>5, TextIs DEF Closed
    <2>9. percentDecode(t) = One(c) \o percentDecode(From(t, 4))
        <3>1. IsEscape(t, 1)
            BY <2>4 DEF IsEscape
        <3>2. percentDecode(t) = One(Byte(h, l)) \o percentDecode(From(t, 4))
            <4>1. 1 <= Len(t)
                BY <2>4
            <4>2. percentDecode(t) = One(Byte(t[2], t[3])) \o percentDecode(From(t, 4))
                BY <2>5, <3>1, <4>1, DecodeFirst
            <4> QED BY <2>4, <4>2
        <3>3. Byte(h, l) = c
            <4>1. Byte(h, l) = ((c \div 16) * 16 + (c % 16)) % 256
                BY <2>2 DEF Byte
            <4> QED BY <4>1, TwoDigits
        <3> QED BY <3>2, <3>3
    <2>10. From(t, 4) = << >>
        <3>1. 4 \in 1 .. Len(t) + 1 /\ Len(t) - 4 + 1 = 0
            BY <2>4
        <3>2. From(t, 4) \in Str /\ Len(From(t, 4)) = Len(t) - 4 + 1
            BY <2>5, <3>1, RestIsText
        <3> QED BY <3>1, <3>2, EmptyText
    <2> QED BY <2>1, <2>5, <2>7, <2>8, <2>9, <2>10, OneIsText, DecodeNothing, JoinTexts
<1> QED BY <1>1, <1>2

(* The encodings of a text's characters, and the function that joins them. *)
LEMMA EncodeDef ==
    ASSUME NEW s \in Str, 1 <= Len(s), NEW lower \in BOOLEAN
    PROVE  \E f : /\ Encode(s, lower) = f[Len(s)]
                  /\ f[1] = EncodeByte(s[1], lower)
                  /\ \A i \in 2 .. Len(s) : f[i] = f[i - 1] \o EncodeByte(s[i], lower)
<1> DEFINE n == Len(s)
           D == 1 .. n
           parts == [i \in DOMAIN s |-> EncodeByte(s[i], lower)]
           Body(f) == [i \in 1 .. n |-> IF i = 1 THEN parts[i] ELSE f[i - 1] \o parts[i]]
           measure == [i \in D |-> i]
           Join(i, f) == IF i = 1 THEN parts[1] ELSE f[i - 1] \o parts[i]
           step == [i \in D |-> [g \in [D -> Str] |-> Join(i, g)]]
<1>1. /\ n \in Nat /\ 1 <= n /\ n + 1 \in Nat /\ DOMAIN s = D
      /\ \A i \in D : parts[i] = EncodeByte(s[i], lower) /\ parts[i] \in Str
    BY TextIs, EncodeByteIs
<1>2. Len(parts) = n
    <2>1. parts \in [1 .. n -> Str]
        BY <1>1
    <2> HIDE DEF parts
    <2> QED BY <1>1, <2>1
<1> HIDE DEF parts
<1>3. \E f \in [D -> Str] : \A i \in D : f[i] = Join(i, f)
    <2>1. Str # {}
        BY NothingIsText
    <2>2. Measures(measure, D, n + 1)
        BY <1>1 DEF Measures
    <2>3. \A i \in D, g \in [D -> Str] : step[i][g] = Join(i, g)
        OBVIOUS
    <2>4. ASSUME NEW i \in D, NEW g \in [D -> Str] PROVE Join(i, g) \in Str
        <3>1. CASE i = 1
            BY <1>1, <3>1
        <3>2. CASE i # 1
            <4>1. i - 1 \in D
                BY <1>1, <3>2
            <4>2. g[i - 1] \in Str /\ parts[i] \in Str
                BY <1>1, <4>1
            <4> HIDE DEF D
            <4> QED BY <3>2, <4>2, ConcatIsText
        <3> QED BY <3>1, <3>2
    <2>5. ASSUME NEW i \in D, NEW g \in [D -> Str], NEW h \in [D -> Str],
                 \A j \in D : measure[j] < measure[i] => g[j] = h[j]
          PROVE  Join(i, g) = Join(i, h)
        <3>1. CASE i = 1
            BY <3>1
        <3>2. CASE i # 1
            <4>1. i - 1 \in D /\ measure[i - 1] < measure[i]
                BY <1>1, <3>2
            <4> QED BY <2>5, <4>1
        <3> QED BY <3>1, <3>2
    <2> HIDE DEF Join
    <2>6. step \in [D -> [[D -> Str] -> Str]]
        BY <2>4
    <2> HIDE DEF measure, step, D
    <2>7. LooksDown(step, measure, D, Str)
        <3>1. ASSUME NEW i \in D, NEW g \in [D -> Str], NEW h \in [D -> Str],
                     \A j \in D : measure[j] < measure[i] => g[j] = h[j]
              PROVE  step[i][g] = step[i][h]
            BY <2>3, <2>5, <3>1
        <3> QED BY <2>6, <3>1 DEF LooksDown
    <2>8. \E f \in [D -> Str] : IsFixed(f, step, D)
        BY <1>1, <2>1, <2>2, <2>7, Recursion
    <2> QED BY <2>3, <2>8 DEF IsFixed
<1>4. PICK f \in [D -> Str] : \A i \in D : f[i] = Join(i, f)
    BY <1>3
<1>5. f = Body(f)
    <2>1. Body(f) = [i \in D |-> Join(i, f)]
        OBVIOUS
    <2> HIDE DEF Join, Body
    <2>2. f = [i \in D |-> Join(i, f)]
        BY <1>4
    <2> QED BY <2>1, <2>2
<1> DEFINE d == CHOOSE g : g = Body(g)
<1>6. Encode(s, lower) = d[n]
    <2>1. Encode(s, lower) = FlattenSeq(parts)
        BY DEF Encode, parts
    <2>2. Len(parts) # 0
        BY <1>1, <1>2
    <2> DEFINE e == CHOOSE g : g = [i \in 1 .. Len(parts) |->
                                      IF i = 1 THEN parts[i] ELSE g[i - 1] \o parts[i]]
    <2>3. FlattenSeq(parts) = e[Len(parts)]
        BY <2>2, Zenon DEF FlattenSeq
    <2>4. e = d
        BY <1>2, Zenon
    <2> QED BY <1>2, <2>1, <2>3, <2>4
<1>7. d = Body(d)
    <2> HIDE DEF Body
    <2> QED BY <1>5
<1> HIDE DEF d
<1>8. d[1] = parts[1]
    BY <1>1, <1>7
<1>9. ASSUME NEW i \in 2 .. n PROVE d[i] = d[i - 1] \o parts[i]
    <2>1. i \in 1 .. n /\ i # 1
        BY <1>1
    <2>2. Body(d)[i] = d[i - 1] \o parts[i]
        BY <2>1
    <2> HIDE DEF Body
    <2> QED BY <1>7, <2>2
<1>10. \A i \in D : parts[i] = EncodeByte(s[i], lower)
    BY <1>1
<1>11. 1 \in D /\ \A i \in 2 .. n : i \in D
    BY <1>1
<1> QED BY <1>6, <1>8, <1>9, <1>10, <1>11

(* A text is encoded without a delimiter, and decoded to itself.           *)
LEMMA EncodeIs ==
    ASSUME NEW s \in Str, NEW lower \in BOOLEAN
    PROVE  /\ Encode(s, lower) \in Str
           /\ percentDecode(Encode(s, lower)) = s
           /\ Plain(Encode(s, lower)) /\ Closed(Encode(s, lower))
<1>0. Len(s) \in Nat /\ \A i \in 1 .. Len(s) : s[i] \in Char
    BY TextIs
<1>1. CASE Len(s) = 0
    <2>1. s = << >>
        BY <1>1, EmptyText
    <2>2. Encode(s, lower) = << >>
        <3> DEFINE parts == [i \in DOMAIN s |-> EncodeByte(s[i], lower)]
        <3>1. DOMAIN s = 1 .. Len(s)
            BY TextIs
        <3>2. parts \in [1 .. 0 -> Str]
            BY <1>0, <1>1, <3>1
        <3>3. Encode(s, lower) = FlattenSeq(parts)
            BY DEF Encode
        <3> HIDE DEF parts
        <3>4. parts \in Seq(Str) /\ Len(parts) = 0
            BY <3>2
        <3>5. parts = << >>
            BY <3>4, EmptySeq
        <3>6. FlattenSeq(parts) = parts
            BY <3>4, Zenon DEF FlattenSeq
        <3> QED BY <3>3, <3>5, <3>6
    <2> QED BY <2>1, <2>2, NothingIsText, DecodeNothing, TextIs DEF Plain, Closed
<1>2. CASE Len(s) # 0
    <2>0. 1 <= Len(s)
        BY <1>0, <1>2
    <2>1. PICK f : /\ Encode(s, lower) = f[Len(s)]
                   /\ f[1] = EncodeByte(s[1], lower)
                   /\ \A i \in 2 .. Len(s) : f[i] = f[i - 1] \o EncodeByte(s[i], lower)
        BY <2>0, EncodeDef
    <2> DEFINE Is(i) == /\ f[i] \in Str /\ percentDecode(f[i]) = SubSeq(s, 1, i)
                        /\ Plain(f[i]) /\ Closed(f[i])
               S == {n \in Nat : n \in 1 .. Len(s) => Is(n)}
    <2>2. ASSUME NEW n \in Nat, \A m \in Nat : m < n => m \in S PROVE n \in S
        <3> SUFFICES ASSUME n \in 1 .. Len(s) PROVE Is(n)
            OBVIOUS
        <3> DEFINE b == EncodeByte(s[n], lower)
        <3>1. /\ b \in Str /\ percentDecode(b) = One(s[n]) /\ Plain(b) /\ Closed(b)
              /\ s[n] \in Char
            BY <1>0, EncodeByteIs
        <3>2. CASE n = 1
            <4>1. SubSeq(s, 1, 1) = One(s[1])
                <5>1. SubSeq(s, 1, 1) \in Str /\ Len(SubSeq(s, 1, 1)) = 1 /\ SubSeq(s, 1, 1)[1] = s[1]
                    BY <1>0, <2>0, PartIsText
                <5>2. One(s[1]) \in Str /\ Len(One(s[1])) = 1 /\ One(s[1])[1] = s[1]
                    BY <1>0, <2>0, OneIsText
                <5>3. \A i \in 1 .. Len(SubSeq(s, 1, 1)) : i = 1
                    BY <5>1
                <5> QED BY <5>1, <5>2, <5>3, SameText
            <4> QED BY <2>1, <3>1, <3>2, <4>1
        <3>3. CASE n # 1
            <4> DEFINE a == f[n - 1]
            <4>1. n - 1 \in Nat /\ n - 1 < n /\ n - 1 \in 1 .. Len(s) /\ n \in 2 .. Len(s)
                BY <1>0, <3>3
            <4>2. Is(n - 1)
                BY <2>2, <4>1
            <4>3. f[n] = a \o b
                BY <2>1, <4>1
            <4>4. /\ a \in Str /\ percentDecode(a) = SubSeq(s, 1, n - 1)
                  /\ Plain(a) /\ Closed(a)
                BY <4>2
            <4> HIDE DEF a, b
            <4>5. /\ a \o b \in Str /\ Len(a \o b) = Len(a) + Len(b)
                  /\ \A k \in 1 .. Len(a) + Len(b) :
                        (a \o b)[k] = IF k <= Len(a) THEN a[k] ELSE b[k - Len(a)]
                  /\ Len(a) \in Nat /\ Len(b) \in Nat
                  /\ DOMAIN b = 1 .. Len(b) /\ DOMAIN a = 1 .. Len(a)
                  /\ DOMAIN (a \o b) = 1 .. Len(a \o b)
                BY <3>1, <4>4, ConcatIsText, TextIs
            <4>6. percentDecode(a \o b) = SubSeq(s, 1, n)
                <5>1. percentDecode(a \o b) = SubSeq(s, 1, n - 1) \o One(s[n])
                    BY <3>1, <4>4, DecodeJoined
                <5>2. s \in Seq(Char) /\ 1 \in 1 .. Len(s) /\ n \in 1 .. Len(s)
                    BY <2>0, <1>0, TextIs
                <5>3. SubSeq(s, 1, n) = SubSeq(s, 1, n - 1) \o One(s[n])
                    BY <4>1, <5>2, SubSeqRecursiveSecond DEF One
                <5> QED BY <5>1, <5>3
            <4>7. Plain(a \o b)
                <5> SUFFICES ASSUME NEW i \in 1 .. Len(a \o b)
                             PROVE  (a \o b)[i] \notin {Ampersand, Semicolon, Equals}
                    BY DEF Plain
                <5>1. CASE i <= Len(a)
                    <6>1. i \in 1 .. Len(a)
                        BY <4>5, <5>1
                    <6> QED BY <4>4, <4>5, <5>1, <6>1 DEF Plain
                <5>2. CASE ~ (i <= Len(a))
                    <6>1. i - Len(a) \in 1 .. Len(b)
                        BY <4>5, <5>2
                    <6> QED BY <3>1, <4>5, <5>2, <6>1 DEF Plain
                <5> QED BY <5>1, <5>2
            <4>8. Closed(a \o b)
                <5> SUFFICES ASSUME NEW j \in {Len(a \o b) - 1, Len(a \o b)},
                                    j \in 1 .. Len(a \o b)
                             PROVE  (a \o b)[j] # Percent
                    BY <4>5, SMTT(60) DEF Closed
                <5>0. Len(a \o b) = Len(a) + Len(b) /\ Len(a) \in Nat /\ Len(b) \in Nat
                    BY <4>5
                <5>1. CASE j <= Len(a)
                    <6>1. j \in 1 .. Len(a) /\ (j = Len(a) - 1 \/ j = Len(a))
                        BY <5>0, <5>1, SMTT(60)
                    <6> QED BY <4>4, <4>5, <5>1, <6>1 DEF Closed
                <5>2. CASE ~ (j <= Len(a))
                    <6>1. j - Len(a) \in 1 .. Len(b) /\ j - Len(a) \in {Len(b) - 1, Len(b)}
                        BY <4>5, <5>2
                    <6> QED BY <3>1, <4>5, <5>2, <6>1 DEF Closed
                <5> QED BY <5>1, <5>2
            <4> QED BY <4>3, <4>5, <4>6, <4>7, <4>8
        <3> QED BY <3>2, <3>3
    <2> HIDE DEF S
    <2>3. \A n \in Nat : n \in S
        BY <2>2, Induction
    <2>4. Is(Len(s))
        BY <1>0, <2>0, <2>3 DEF S
    <2>5. SubSeq(s, 1, Len(s)) = s
        BY TextIs, SubSeqFull
    <2> QED BY <2>1, <2>4, <2>5
<1> QED BY <1>1, <1>2

-----------------------------------------------------------------------------
(* Searching.  Find returns the first occurrence, or the end.              *)
LEMMA FindIsFirst ==
    ASSUME NEW e \in Str, NEW c, NEW k \in Nat, 1 <= k, k <= Len(e) + 2
    PROVE  /\ Find(e, c, k) \in 1 .. Len(e) + 1
           /\ Find(e, c, k) <= Len(e) => k <= Find(e, c, k) /\ e[Find(e, c, k)] = c
           /\ \A i \in 1 .. Len(e) : (k <= i /\ i < Find(e, c, k)) => e[i] # c
<1> DEFINE at == {i \in k .. Len(e) : e[i] = c}
<1>1. Len(e) \in Nat
    BY TextIs
<1>2. Find(e, c, k) = IF at = {} THEN Len(e) + 1 ELSE Min(at)
    BY DEF Find
<1>3. at \in SUBSET Nat
    BY <1>1
<1>4. CASE at = {}
    BY <1>1, <1>2, <1>4
<1>5. CASE at # {}
    <2> DEFINE q == Min(at)
    <2>1. q \in at /\ \A j \in at : q <= j
        BY <1>3, <1>5, MinIsLeast
    <2>2. Find(e, c, k) = q
        BY <1>2, <1>5
    <2> HIDE DEF q
    <2>3. q \in k .. Len(e) /\ e[q] = c
        BY <2>1
    <2>4. \A j \in k .. Len(e) : j < q => e[j] # c
        BY <1>1, <2>1, <2>3
    <2> HIDE DEF at
    <2> QED BY <1>1, <2>2, <2>3, <2>4
<1> QED BY <1>4, <1>5

(* SkipSpaces returns the first character that is no space, or the end.    *)
LEMMA SkipSpacesIsFirst ==
    ASSUME NEW e \in Str, NEW k \in Nat, 1 <= k, k <= Len(e) + 2
    PROVE  /\ SkipSpaces(e, k) \in 1 .. Len(e) + 1
           /\ SkipSpaces(e, k) <= Len(e) =>
                 k <= SkipSpaces(e, k) /\ e[SkipSpaces(e, k)] # Space
           /\ \A i \in 1 .. Len(e) : (k <= i /\ i < SkipSpaces(e, k)) => e[i] = Space
<1> DEFINE at == {i \in k .. Len(e) : e[i] # Space}
<1>1. Len(e) \in Nat
    BY TextIs
<1>2. SkipSpaces(e, k) = IF at = {} THEN Len(e) + 1 ELSE Min(at)
    BY DEF SkipSpaces
<1>3. at \in SUBSET Nat
    BY <1>1
<1>4. CASE at = {}
    BY <1>1, <1>2, <1>4
<1>5. CASE at # {}
    <2>1. Min(at) \in at /\ \A j \in at : Min(at) <= j
        BY <1>3, <1>5, MinIsLeast
    <2> DEFINE m == Min(at)
    <2>2. m \in k .. Len(e) /\ e[m] # Space
        BY <2>1
    <2>3. \A i \in 1 .. Len(e) : (k <= i /\ i < m) => e[i] = Space
        <3> SUFFICES ASSUME NEW i \in 1 .. Len(e), k <= i, i < m, e[i] # Space PROVE FALSE
            OBVIOUS
        <3>1. i \in at
            BY <1>1
        <3> QED BY <2>1, <2>2, <3>1
    <2>4. SkipSpaces(e, k) = m
        BY <1>2, <1>5
    <2> HIDE DEF m
    <2> QED BY <1>1, <2>2, <2>3, <2>4
<1> QED BY <1>4, <1>5

-----------------------------------------------------------------------------
(* One turn of the loop of parseParameters: where the parameter that       *)
(* begins at k ends, its text, and where the next begins.                  *)
Delimiter(cookie) == IF cookie THEN Semicolon ELSE Ampersand
EndOf(data, cookie, k) == Find(data, Delimiter(cookie), k)
ParamFrom(data, cookie, k) == SubSeq(data, k, EndOf(data, cookie, k) - 1)
NextOf(data, cookie, k) == IF cookie THEN SkipSpaces(data, EndOf(data, cookie, k) + 1)
                                     ELSE EndOf(data, cookie, k) + 1

ParseStep(data, cookie, k, f) ==
    IF k > Len(data) THEN NoParams
    ELSE emplace(KeyOf(ParamFrom(data, cookie, k)),
                 ValueOf(ParamFrom(data, cookie, k), cookie), f[NextOf(data, cookie, k)])

(* Maps of names to values.                                                *)
Maps == UNION {[K -> Str] : K \in SUBSET Str}

(* The empty map is one.                                                   *)
LEMMA NoParamsIsMap == NoParams \in Maps /\ DOMAIN NoParams = {}
<1>1. NoParams \in [{} -> Str]
    BY DEF NoParams
<1> QED BY <1>1 DEF Maps

(* An entry is added for its key, and the others are left alone.           *)
LEMMA EmplaceIs ==
    ASSUME NEW key, NEW val, NEW later
    PROVE  /\ DOMAIN emplace(key, val, later) = {key} \cup DOMAIN later
           /\ emplace(key, val, later)[key] = val
           /\ \A k \in DOMAIN later : k # key => emplace(key, val, later)[k] = later[k]
           /\ (key \in Str /\ val \in Str /\ later \in Maps) => emplace(key, val, later) \in Maps
<1>1. DOMAIN emplace(key, val, later) = {key} \cup DOMAIN later
    BY DEF emplace
<1>2. emplace(key, val, later)[key] = val
    BY DEF emplace
<1>3. \A k \in DOMAIN later : k # key => emplace(key, val, later)[k] = later[k]
    BY DEF emplace
<1>4. ASSUME key \in Str, val \in Str, later \in Maps
      PROVE  emplace(key, val, later) \in Maps
    <2>1. PICK K \in SUBSET Str : later \in [K -> Str]
        BY <1>4 DEF Maps
    <2>2. {key} \cup K \in SUBSET Str
        BY <1>4
    <2>3. emplace(key, val, later) \in [{key} \cup K -> Str]
        BY <1>4, <2>1 DEF emplace
    <2> QED BY <2>2, <2>3 DEF Maps
<1> QED BY <1>1, <1>2, <1>3, <1>4

(* A turn goes on, and its parameter is a text.                            *)
LEMMA TurnIs ==
    ASSUME NEW data \in Str, NEW cookie \in BOOLEAN, NEW k \in 1 .. Len(data)
    PROVE  /\ EndOf(data, cookie, k) \in k .. Len(data) + 1
           /\ EndOf(data, cookie, k) <= Len(data) =>
                 data[EndOf(data, cookie, k)] = Delimiter(cookie)
           /\ \A i \in k .. EndOf(data, cookie, k) - 1 : data[i] # Delimiter(cookie)
           /\ NextOf(data, cookie, k) \in 1 .. Len(data) + 2
           /\ k < NextOf(data, cookie, k)
           /\ ParamFrom(data, cookie, k) \in Str
<1> DEFINE end == EndOf(data, cookie, k)
<1>1. Len(data) \in Nat /\ k \in Nat /\ 1 <= k /\ k <= Len(data) + 2 /\ k <= Len(data)
    BY TextIs
<1>2. /\ end \in 1 .. Len(data) + 1
      /\ end <= Len(data) => k <= end /\ data[end] = Delimiter(cookie)
      /\ \A i \in 1 .. Len(data) : (k <= i /\ i < end) => data[i] # Delimiter(cookie)
    BY <1>1, FindIsFirst DEF EndOf
<1>3. /\ end \in k .. Len(data) + 1
      /\ \A i \in k .. end - 1 : data[i] # Delimiter(cookie)
    BY <1>1, <1>2
<1> HIDE DEF end
<1>4. ParamFrom(data, cookie, k) \in Str
    <2>1. end - 1 \in Nat /\ end - 1 <= Len(data)
        BY <1>1, <1>3
    <2> QED BY <1>1, <2>1, PartIsText DEF ParamFrom, end
<1>5. NextOf(data, cookie, k) \in 1 .. Len(data) + 2 /\ k < NextOf(data, cookie, k)
    <2>1. end + 1 \in Nat /\ 1 <= end + 1 /\ end + 1 <= Len(data) + 2
        BY <1>1, <1>3
    <2>2. CASE cookie
        <3>1. NextOf(data, cookie, k) = SkipSpaces(data, end + 1)
            BY <2>2 DEF NextOf, end
        <3> QED BY <1>1, <1>3, <2>1, <3>1, SkipSpacesIsFirst
    <2>3. CASE ~ cookie
        <3>1. NextOf(data, cookie, k) = end + 1
            BY <2>3 DEF NextOf, end
        <3> QED BY <1>1, <1>3, <2>1, <3>1
    <2> QED BY <2>2, <2>3
<1> QED BY <1>2, <1>3, <1>4, <1>5 DEF end

(* The key and the value of a parameter are texts.                         *)
LEMMA PairIsText ==
    ASSUME NEW param \in Str, NEW cookie \in BOOLEAN
    PROVE  KeyOf(param) \in Str /\ ValueOf(param, cookie) \in Str
<1> DEFINE eq == Find(param, Equals, 1)
           val == percentDecode(SubSeq(param, eq + 1, Len(param)))
<1>1. Len(param) \in Nat /\ eq \in 1 .. Len(param) + 1
    BY TextIs, FindIsFirst
<1>2. KeyOf(param) \in Str
    <2>1. eq - 1 \in Nat /\ eq - 1 <= Len(param)
        BY <1>1
    <2> HIDE DEF eq
    <2>2. SubSeq(param, 1, eq - 1) \in Str
        BY <2>1, PartIsText
    <2> QED BY <2>2, DecodeIsText DEF KeyOf, eq
<1>3. val \in Str
    <2>1. eq + 1 \in Nat /\ 1 <= eq + 1 /\ Len(param) <= Len(param)
        BY <1>1
    <2> HIDE DEF eq
    <2>2. SubSeq(param, eq + 1, Len(param)) \in Str
        BY <1>1, <2>1, PartIsText
    <2> QED BY <2>2, DecodeIsText
<1>4. ValueOf(param, cookie) = IF cookie THEN Unquote(val) ELSE val
    BY DEF ValueOf
<1> HIDE DEF val
<1>5. Unquote(val) \in Str
    <2>1. CASE Len(val) >= 2
        <3>1. Len(val) \in Nat
            BY <1>3, TextIs
        <3>2. Len(val) - 1 \in Nat /\ Len(val) - 1 <= Len(val)
            BY <2>1, <3>1
        <3>3. SubSeq(val, 2, Len(val) - 1) \in Str
            <4>1. 2 \in Nat /\ 1 <= 2
                OBVIOUS
            <4> QED BY <1>3, <3>2, <4>1, PartIsText
        <3> QED BY <1>3, <3>3 DEF Unquote
    <2>2. CASE ~ (Len(val) >= 2)
        BY <1>3, <2>2 DEF Unquote
    <2> QED BY <2>1, <2>2
<1> QED BY <1>2, <1>3, <1>4, <1>5

(* The loop, by its first turn: parseParameters without its function.      *)
LEMMA ParseDef ==
    ASSUME NEW data \in Str, NEW cookie \in BOOLEAN
    PROVE  \A k \in 1 .. Len(data) + 2 :
              /\ parseParameters(data, k, cookie) \in Maps
              /\ k > Len(data) => parseParameters(data, k, cookie) = NoParams
              /\ k <= Len(data) =>
                    parseParameters(data, k, cookie)
                      = emplace(KeyOf(ParamFrom(data, cookie, k)),
                                ValueOf(ParamFrom(data, cookie, k), cookie),
                                parseParameters(data, NextOf(data, cookie, k), cookie))
<1> DEFINE N == Len(data) + 2
           D == 1 .. N
           measure == [i \in D |-> N - i]
           Step(i, f) == ParseStep(data, cookie, i, f)
           step == [i \in D |-> [g \in [D -> Maps] |-> Step(i, g)]]
           Body(f) == [start \in 1 .. Len(data) + 2 |->
                          IF start > Len(data) THEN NoParams
                          ELSE LET en    == Find(data, IF cookie THEN Semicolon ELSE Ampersand, start)
                                   param == SubSeq(data, start, en - 1)
                                   next  == IF cookie THEN SkipSpaces(data, en + 1) ELSE en + 1
                               IN  emplace(KeyOf(param), ValueOf(param, cookie), f[next])]
<1>1. Len(data) \in Nat /\ N \in Nat
    BY TextIs
<1>2. ASSUME NEW i \in D, NEW f, \A j \in D : i < j => f[j] \in Maps
      PROVE  Step(i, f) \in Maps
    <2>1. CASE i > Len(data)
        BY <2>1, NoParamsIsMap DEF ParseStep
    <2>2. CASE ~ (i > Len(data))
        <3>0. i \in 1 .. Len(data)
            BY <1>1, <2>2
        <3>1. NextOf(data, cookie, i) \in D /\ i < NextOf(data, cookie, i)
            BY <3>0, TurnIs
        <3>2. f[NextOf(data, cookie, i)] \in Maps
            BY <1>2, <3>1
        <3>3. ParamFrom(data, cookie, i) \in Str
            BY <3>0, TurnIs
        <3>4. /\ KeyOf(ParamFrom(data, cookie, i)) \in Str
              /\ ValueOf(ParamFrom(data, cookie, i), cookie) \in Str
            BY <3>3, PairIsText
        <3> QED BY <2>2, <3>2, <3>4, EmplaceIs DEF ParseStep
    <2> QED BY <2>1, <2>2
<1>3. ASSUME NEW i \in D, NEW f, NEW g, \A j \in D : i < j => f[j] = g[j]
      PROVE  Step(i, f) = Step(i, g)
    <2>1. CASE i > Len(data)
        BY <2>1 DEF ParseStep
    <2>2. CASE ~ (i > Len(data))
        <3>0. i \in 1 .. Len(data)
            BY <1>1, <2>2
        <3>1. NextOf(data, cookie, i) \in D /\ i < NextOf(data, cookie, i)
            BY <3>0, TurnIs
        <3>2. f[NextOf(data, cookie, i)] = g[NextOf(data, cookie, i)]
            BY <1>3, <3>1
        <3> QED BY <2>2, <3>2 DEF ParseStep
    <2> QED BY <2>1, <2>2
<1>4. ASSUME NEW f, NEW i \in D PROVE Body(f)[i] = Step(i, f)
    BY Zenon DEF ParseStep, EndOf, ParamFrom, NextOf, Delimiter
<1>5. ASSUME NEW f PROVE Body(f) = [i \in D |-> Step(i, f)]
    BY <1>4
<1> HIDE DEF Step
<1>6. \E f \in [D -> Maps] : \A i \in D : f[i] = Step(i, f)
    <2>1. Maps # {}
        BY NoParamsIsMap
    <2>2. Measures(measure, D, N)
        BY <1>1 DEF Measures
    <2>3. \A i \in D, g \in [D -> Maps] : step[i][g] = Step(i, g)
        OBVIOUS
    <2>4. step \in [D -> [[D -> Maps] -> Maps]]
        BY <1>2
    <2>5. ASSUME NEW i \in D, NEW g \in [D -> Maps], NEW h \in [D -> Maps],
                 \A j \in D : measure[j] < measure[i] => g[j] = h[j]
          PROVE  step[i][g] = step[i][h]
        <3>1. \A j \in D : i < j => g[j] = h[j]
            BY <1>1, <2>5
        <3>2. Step(i, g) = Step(i, h)
            BY <1>3, <3>1
        <3> QED BY <2>3, <3>2
    <2> HIDE DEF measure, step, D, N
    <2>6. LooksDown(step, measure, D, Maps)
        BY <2>4, <2>5 DEF LooksDown
    <2>7. \E d \in [D -> Maps] : IsFixed(d, step, D)
        BY <1>1, <2>1, <2>2, <2>6, Recursion
    <2> QED BY <2>3, <2>7 DEF IsFixed
<1> DEFINE d == CHOOSE f : f = Body(f)
<1>7. ASSUME NEW k PROVE parseParameters(data, k, cookie) = d[k]
    BY DEF parseParameters
<1> HIDE DEF Body
<1>8. d = Body(d)
    <2>1. PICK f \in [D -> Maps] : \A i \in D : f[i] = Step(i, f)
        BY <1>6
    <2>2. f = Body(f)
        BY <1>5, <2>1
    <2> QED BY <2>2
<1> HIDE DEF d
<1>9. \A i \in D : d[i] = Step(i, d)
    BY <1>4, <1>8
<1>10. \A i \in 1 .. N : d[i] \in Maps
    <2> DEFINE S == {i \in D : d[i] \in Maps}
    <2>1. ASSUME NEW i \in 1 .. N, \A j \in 1 .. N : i < j => j \in S PROVE i \in S
        <3>1. Step(i, d) \in Maps
            BY <1>2, <2>1
        <3> QED BY <1>9, <3>1
    <2> HIDE DEF S
    <2>2. \A i \in 1 .. N : i \in S
        BY <1>1, <2>1, InductionDown
    <2> QED BY <2>2 DEF S
<1> QED BY <1>7, <1>9, <1>10 DEF Step, ParseStep

-----------------------------------------------------------------------------
(* What the loop takes for a parameter is the parameter there.             *)
LEMMA TurnTakesParam ==
    ASSUME NEW data \in Str, NEW cookie \in BOOLEAN, NEW k \in 1 .. Len(data)
    PROVE  ParamAt(data, k, cookie) = ParamFrom(data, cookie, k)
<1> DEFINE delim == IF cookie THEN Semicolon ELSE Ampersand
           Ends(e) == /\ \A i \in k .. e : data[i] # delim
                      /\ e = Len(data) \/ data[e + 1] = delim
           last == CHOOSE e \in k - 1 .. Len(data) : Ends(e)
           end == EndOf(data, cookie, k)
<1>1. /\ Len(data) \in Nat /\ end \in k .. Len(data) + 1
      /\ end <= Len(data) => data[end] = delim
      /\ \A i \in k .. end - 1 : data[i] # delim
    BY TextIs, TurnIs DEF Delimiter
<1>2. ParamAt(data, k, cookie) = SubSeq(data, k, last)
    BY DEF ParamAt
<1> HIDE DEF delim, end
<1>3. end - 1 \in k - 1 .. Len(data) /\ Ends(end - 1)
    <2>1. end - 1 \in k - 1 .. Len(data) /\ (end - 1) + 1 = end
        BY <1>1
    <2>2. end - 1 = Len(data) \/ end <= Len(data)
        BY <1>1
    <2> QED BY <1>1, <2>1, <2>2
<1>4. last \in k - 1 .. Len(data) /\ Ends(last)
    <2> HIDE DEF Ends
    <2> QED BY <1>3
<1> HIDE DEF last
<1>5. ASSUME NEW e \in k - 1 .. Len(data), NEW f \in k - 1 .. Len(data), Ends(e), Ends(f), e < f
      PROVE  FALSE
    <2>1. e + 1 \in k .. f /\ e # Len(data)
        BY <1>1, <1>5
    <2> QED BY <1>5, <2>1
<1>6. last = end - 1
    <2>1. ~ (last < end - 1) /\ ~ (end - 1 < last)
        BY <1>3, <1>4, <1>5
    <2>2. last \in Int /\ end - 1 \in Int
        BY <1>1, <1>4
    <2> QED BY <2>1, <2>2
<1> QED BY <1>2, <1>6 DEF ParamFrom, end

(* From one parameter the loop goes on to the next one, or past the end:   *)
(* it skips none and stops nowhere in between.                             *)
LEMMA TurnGoesToNext ==
    ASSUME NEW data \in Str, NEW cookie \in BOOLEAN, NEW k \in Begins(data, cookie)
    PROVE  /\ k \in 1 .. Len(data)
           /\ NextOf(data, cookie, k) <= Len(data) =>
                 NextOf(data, cookie, k) \in Begins(data, cookie)
           /\ \A b \in Begins(data, cookie) : k < b => NextOf(data, cookie, k) <= b
<1> DEFINE end == EndOf(data, cookie, k)
           next == NextOf(data, cookie, k)
<1>0. Len(data) \in Nat /\ DOMAIN data = 1 .. Len(data)
    BY TextIs
<1>1. k \in 1 .. Len(data)
    BY <1>0 DEF Begins
<1>2. /\ end \in k .. Len(data) + 1
      /\ end <= Len(data) => data[end] = Delimiter(cookie)
      /\ \A i \in k .. end - 1 : data[i] # Delimiter(cookie)
      /\ next \in 1 .. Len(data) + 2 /\ k < next
    BY <1>1, TurnIs
<1>3. CASE ~ cookie
    <2>1. next = end + 1 /\ Delimiter(cookie) = Ampersand
        BY <1>3 DEF NextOf, Delimiter
    <2> HIDE DEF end, next
    <2>2. ASSUME next <= Len(data) PROVE next \in Begins(data, cookie)
        <3>1. next \in DOMAIN data /\ next - 1 = end /\ end <= Len(data)
            BY <1>0, <1>2, <2>1, <2>2
        <3> QED BY <1>2, <1>3, <2>1, <3>1 DEF Begins
    <2>3. ASSUME NEW b \in Begins(data, cookie), k < b PROVE next <= b
        <3>1. b \in 1 .. Len(data) /\ data[b - 1] = Ampersand
            BY <1>0, <1>1, <1>3, <2>3 DEF Begins
        <3>2. ~ (b - 1 \in k .. end - 1)
            BY <1>2, <2>1, <3>1
        <3> QED BY <1>1, <1>2, <2>1, <2>3, <3>1, <3>2
    <2> QED BY <1>1, <2>2, <2>3 DEF next
<1>4. CASE cookie
    <2>0. Len(data) + 2 >= end + 1 /\ end + 1 \in Nat /\ 1 <= end + 1
        BY <1>0, <1>1, <1>2
    <2>1. next = SkipSpaces(data, end + 1) /\ Delimiter(cookie) = Semicolon
        BY <1>4 DEF NextOf, Delimiter
    <2> HIDE DEF end, next
    <2>2. /\ next \in 1 .. Len(data) + 1
          /\ next <= Len(data) => end + 1 <= next /\ data[next] # Space
          /\ \A i \in 1 .. Len(data) : (end + 1 <= i /\ i < next) => data[i] = Space
        BY <2>0, <2>1, SkipSpacesIsFirst
    <2>3. ASSUME next <= Len(data) PROVE next \in Begins(data, cookie)
        <3>1. next \in DOMAIN data /\ data[next] # Space
            BY <1>0, <2>2, <2>3
        <3>2. end \in 1 .. next - 1 /\ data[end] = Semicolon
            BY <1>0, <1>1, <1>2, <2>1, <2>2, <2>3
        <3>3. \A i \in end + 1 .. next - 1 : data[i] = Space
            BY <1>0, <1>1, <1>2, <2>2, <2>3
        <3> QED BY <1>4, <3>1, <3>2, <3>3 DEF Begins
    <2>4. ASSUME NEW b \in Begins(data, cookie), k < b PROVE next <= b
        <3>1. b \in 1 .. Len(data) /\ b # 1 /\ b \in Nat
            BY <1>0, <1>1, <2>4 DEF Begins
        <3>2. PICK j \in 1 .. b - 1 : /\ data[j] = Semicolon /\ data[b] # Space
                                      /\ \A i \in j + 1 .. b - 1 : data[i] = Space
            BY <1>4, <2>4, <3>1 DEF Begins
        <3>3. k <= j
            <4>1. CASE k = 1
                BY <3>1, <3>2, <4>1
            <4>2. CASE k # 1
                <5>1. data[k] # Space
                    BY <1>4, <4>2 DEF Begins
                <5>2. ~ (k \in j + 1 .. b - 1)
                    BY <3>2, <5>1
                <5> QED BY <1>1, <2>4, <3>1, <3>2, <5>2
            <4> QED BY <4>1, <4>2
        <3>4. end <= j
            <4>1. ~ (j \in k .. end - 1)
                BY <1>2, <2>1, <3>2
            <4> QED BY <1>1, <1>2, <3>1, <3>2, <3>3, <4>1
        <3>5. ASSUME b < next PROVE FALSE
            <4>1. end + 1 <= b
                BY <1>1, <1>2, <3>1, <3>2, <3>4
            <4>2. data[b] = Space
                BY <2>2, <3>1, <3>5, <4>1
            <4> QED BY <3>2, <4>2
        <3> QED BY <2>2, <3>1, <3>5
    <2> QED BY <1>1, <2>3, <2>4 DEF next
<1> QED BY <1>3, <1>4

(* From any parameter on, the loop finds those that are left, and of each  *)
(* name the first.                                                         *)
LEMMA LoopFindsFirsts ==
    ASSUME NEW data \in Str, NEW cookie \in BOOLEAN
    PROVE  \A k \in 1 .. Len(data) + 2 : (k \in Begins(data, cookie) \/ k > Len(data)) =>
              LET Name(b) == KeyOf(ParamAt(data, b, cookie))
                  B == {b \in Begins(data, cookie) : k <= b}
                  params == parseParameters(data, k, cookie)
              IN  /\ DOMAIN params = {Name(b) : b \in B}
                  /\ \A b \in B : (\A j \in B : j < b => Name(j) # Name(b)) =>
                        params[Name(b)] = ValueOf(ParamAt(data, b, cookie), cookie)
<1> DEFINE N == Len(data) + 2
           Name(b) == KeyOf(ParamAt(data, b, cookie))
           Value(b) == ValueOf(ParamAt(data, b, cookie), cookie)
           All == Begins(data, cookie)
           B(k) == {b \in All : k <= b}
           parse(k) == parseParameters(data, k, cookie)
           Right(k) == /\ DOMAIN parse(k) = {Name(b) : b \in B(k)}
                       /\ \A b \in B(k) : (\A j \in B(k) : j < b => Name(j) # Name(b)) =>
                             parse(k)[Name(b)] = Value(b)
           S == {k \in 1 .. N : (k \in All \/ k > Len(data)) => Right(k)}
<1>0. Len(data) \in Nat /\ N \in Nat /\ All \subseteq 1 .. Len(data)
    BY TextIs DEF Begins
<1>1. ASSUME NEW k \in 1 .. N, \A j \in 1 .. N : k < j => j \in S PROVE k \in S
    <2> SUFFICES ASSUME k \in All \/ k > Len(data) PROVE Right(k)
        OBVIOUS
    <2>1. CASE k > Len(data)
        <3>1. parse(k) = NoParams
            BY <2>1, ParseDef
        <3>2. B(k) = {}
            BY <1>0, <2>1
        <3> HIDE DEF B, parse, Name, Value
        <3> QED BY <3>1, <3>2, NoParamsIsMap
    <2>2. CASE k \in All
        <3> DEFINE next == NextOf(data, cookie, k)
        <3>1. /\ k \in 1 .. Len(data)
              /\ next <= Len(data) => next \in All
              /\ \A b \in All : k < b => next <= b
            BY <2>2, TurnGoesToNext
        <3>2. next \in 1 .. N /\ k < next
            BY <3>1, TurnIs
        <3>3. Right(next)
            <4>1. next \in S
                BY <1>1, <3>2
            <4>2. next \in All \/ next > Len(data)
                BY <1>0, <3>1, <3>2
            <4> HIDE DEF Right
            <4> QED BY <4>1, <4>2
        <3>4. parse(k) = emplace(Name(k), Value(k), parse(next))
            <4>1. ParamAt(data, k, cookie) = ParamFrom(data, cookie, k)
                BY <3>1, TurnTakesParam
            <4>2. ~ (k > Len(data)) /\ k <= Len(data)
                BY <1>0, <3>1
            <4> QED BY <4>1, <4>2, ParseDef
        <3> HIDE DEF next, parse, Name, Value
        <3>5. B(k) = {k} \cup B(next) /\ k \notin B(next)
            <4> HIDE DEF All
            <4>1. k \in Nat /\ next \in Nat /\ \A b \in All : b \in Nat
                BY <1>0, <3>1, <3>2
            <4>2. ASSUME NEW b \in All PROVE k <= b <=> (b = k \/ next <= b)
                <5>1. b \in Nat
                    BY <4>1
                <5>2. k < b => next <= b
                    BY <3>1
                <5> QED BY <3>2, <4>1, <5>1, <5>2
            <4>3. ~ (next <= k)
                BY <3>2, <4>1
            <4> QED BY <2>2, <4>2, <4>3
        <3>6. \A b \in B(next) : k < b
            <4> HIDE DEF All
            <4> QED BY <1>0, <3>1, <3>2
        <3>7. /\ DOMAIN parse(k) = {Name(k)} \cup DOMAIN parse(next)
              /\ parse(k)[Name(k)] = Value(k)
              /\ \A n \in DOMAIN parse(next) : n # Name(k) => parse(k)[n] = parse(next)[n]
            <4> DEFINE key == Name(k)
                       val == Value(k)
                       later == parse(next)
            <4>1. parse(k) = emplace(key, val, later)
                BY <3>4
            <4> HIDE DEF key, val, later
            <4>2. /\ DOMAIN emplace(key, val, later) = {key} \cup DOMAIN later
                  /\ emplace(key, val, later)[key] = val
                  /\ \A n \in DOMAIN later : n # key => emplace(key, val, later)[n] = later[n]
                BY DEF emplace
            <4>3. /\ DOMAIN parse(k) = {key} \cup DOMAIN later
                  /\ parse(k)[key] = val
                  /\ \A n \in DOMAIN later : n # key => parse(k)[n] = later[n]
                BY <4>1, <4>2
            <4> QED BY <4>3 DEF key, val, later
        <3> HIDE DEF B
        <3>8. DOMAIN parse(k) = {Name(b) : b \in B(k)}
            BY <3>3, <3>5, <3>7
        <3>9. ASSUME NEW b \in B(k), \A j \in B(k) : j < b => Name(j) # Name(b)
              PROVE  parse(k)[Name(b)] = Value(b)
            <4>1. CASE b = k
                BY <3>7, <4>1
            <4>2. CASE b # k
                <5>1. b \in B(next) /\ k < b /\ Name(k) # Name(b)
                    BY <3>5, <3>6, <3>9, <4>2
                <5>2. \A j \in B(next) : j < b => Name(j) # Name(b)
                    BY <3>5, <3>9
                <5>3. parse(next)[Name(b)] = Value(b) /\ Name(b) \in DOMAIN parse(next)
                    BY <3>3, <5>1, <5>2
                <5> QED BY <3>7, <5>1, <5>3
            <4> QED BY <4>1, <4>2
        <3> QED BY <3>8, <3>9
    <2> QED BY <2>1, <2>2
<1> HIDE DEF S
<1>2. \A k \in 1 .. N : k \in S
    BY <1>0, <1>1, InductionDown
<1>3. \A k \in 1 .. N : (k \in All \/ k > Len(data)) => Right(k)
    <2> HIDE DEF Right
    <2> QED BY <1>2 DEF S
<1> QED BY <1>3

(* So from the first on it finds them all.                                 *)
LEMMA ParseFindsFirsts ==
    ASSUME NEW data \in Str, NEW cookie \in BOOLEAN
    PROVE  FirstOfEachName(parseParameters(data, 1, cookie), data, cookie)
<1>1. Len(data) \in Nat /\ DOMAIN data = 1 .. Len(data)
    BY TextIs
<1>2. 1 \in Begins(data, cookie) \/ 1 > Len(data)
    BY <1>1 DEF Begins
<1>3. {b \in Begins(data, cookie) : 1 <= b} = Begins(data, cookie)
    BY <1>1 DEF Begins
<1>4. 1 \in 1 .. Len(data) + 2
    BY <1>1
<1> QED BY <1>2, <1>3, <1>4, LoopFindsFirsts DEF FirstOfEachName

-----------------------------------------------------------------------------
(* The text the runs grow is always a text.                                *)
TextInv == text \in Str

(* In every state the text is one.                                         *)
LEMMA TextInvariant == Spec => []TextInv
<1>1. Init => TextInv
    BY NothingIsText DEF Init, TextInv
<1>2. TextInv /\ [Next]_text => TextInv'
    <2> SUFFICES ASSUME TextInv, [Next]_text PROVE TextInv'
        OBVIOUS
    <2>1. CASE UNCHANGED text
        BY <2>1 DEF TextInv
    <2>2. ASSUME NEW c \in Alphabet, Extend(c) PROVE TextInv'
        <3>1. text \in Seq(Char) /\ c \in Char
            BY AlphabetAssumption, TextIs DEF TextInv, Char
        <3>2. Append(text, c) \in Seq(Char)
            BY <3>1, AppendProperties
        <3> QED BY <2>2, <3>2 DEF Extend, TextInv, Str, Char
    <2> QED BY <2>1, <2>2 DEF Next
<1> QED BY <1>1, <1>2, PTL DEF Spec

(* A character added to a text.                                            *)
LEMMA AddedIsText ==
    ASSUME NEW t \in Str, NEW c \in Char
    PROVE  Append(t, c) \in Str
<1>1. t \in Seq(Char)
    BY TextIs
<1>2. Append(t, c) \in Seq(Char)
    BY <1>1, AppendProperties
<1> QED BY <1>2 DEF Str, Char

(* A text is what comes before a cut and what comes after it.              *)
LEMMA TextIsCut ==
    ASSUME NEW t \in Str, NEW i \in 0 .. Len(t)
    PROVE  /\ SubSeq(t, 1, i) \in Str /\ Len(SubSeq(t, 1, i)) = i
           /\ \A k \in 1 .. i : SubSeq(t, 1, i)[k] = t[k]
           /\ SubSeq(t, i + 1, Len(t)) \in Str /\ Len(SubSeq(t, i + 1, Len(t))) = Len(t) - i
           /\ \A k \in 1 .. Len(t) - i : SubSeq(t, i + 1, Len(t))[k] = t[i + k]
           /\ t = SubSeq(t, 1, i) \o SubSeq(t, i + 1, Len(t))
<1> DEFINE a == SubSeq(t, 1, i)
           b == SubSeq(t, i + 1, Len(t))
<1>1. Len(t) \in Nat /\ i \in Nat /\ i <= Len(t)
    BY TextIs
<1>2. a \in Str /\ Len(a) = i /\ \A k \in 1 .. i : a[k] = t[k]
    <2>1. /\ a \in Str /\ Len(a) = IF 1 <= i THEN i - 1 + 1 ELSE 0
          /\ \A k \in 1 .. i - 1 + 1 : a[k] = t[1 + k - 1]
        BY <1>1, PartIsText
    <2> HIDE DEF a
    <2>2. Len(a) = i
        BY <1>1, <2>1
    <2>3. ASSUME NEW k \in 1 .. i PROVE a[k] = t[k]
        <3>1. k \in 1 .. i - 1 + 1 /\ 1 + k - 1 = k
            BY <1>1
        <3>2. a[k] = t[1 + k - 1]
            BY <2>1, <3>1
        <3> QED BY <3>1, <3>2
    <2> QED BY <2>1, <2>2, <2>3
<1>3. i + 1 \in 1 .. Len(t) + 1 /\ Len(t) - (i + 1) + 1 = Len(t) - i
    BY <1>1
<1>4. /\ b \in Str /\ Len(b) = Len(t) - (i + 1) + 1
      /\ \A k \in 1 .. Len(t) - (i + 1) + 1 : b[k] = t[(i + 1) + k - 1]
    BY <1>3, RestIsText DEF From
<1> HIDE DEF a, b
<1>5. ASSUME NEW k \in 1 .. Len(t) - i PROVE b[k] = t[i + k]
    <2>1. k \in 1 .. Len(t) - (i + 1) + 1 /\ (i + 1) + k - 1 = i + k
        BY <1>1
    <2>2. b[k] = t[(i + 1) + k - 1]
        BY <1>4, <2>1
    <2> QED BY <2>1, <2>2
<1>6. /\ a \o b \in Str /\ Len(a \o b) = Len(a) + Len(b)
      /\ \A k \in 1 .. Len(a) + Len(b) : (a \o b)[k] = IF k <= Len(a) THEN a[k] ELSE b[k - Len(a)]
    BY <1>2, <1>4, ConcatIsText
<1>7. t = a \o b
    <2>1. Len(t) = Len(a \o b) /\ Len(t) = Len(a) + Len(b)
        BY <1>1, <1>2, <1>3, <1>4, <1>6
    <2>2. ASSUME NEW k \in 1 .. Len(t) PROVE t[k] = (a \o b)[k]
        <3>1. CASE k <= i
            BY <1>1, <1>2, <1>6, <2>1, <3>1
        <3>2. CASE ~ (k <= i)
            <4>1. k - i \in 1 .. Len(t) - i /\ i + (k - i) = k
                BY <1>1, <3>2
            <4>2. b[k - i] = t[i + (k - i)]
                BY <1>5, <4>1
            <4>3. (a \o b)[k] = b[k - i]
                BY <1>1, <1>2, <1>6, <2>1, <3>2
            <4> QED BY <4>1, <4>2, <4>3
        <3> QED BY <3>1, <3>2
    <2> QED BY <1>6, <2>1, <2>2, SameText
<1> QED BY <1>2, <1>3, <1>4, <1>5, <1>7 DEF a, b

(* Decoding may be cut anywhere but inside an escape, whatever the text:   *)
(* percentDecode neither loses nor rereads what it looks ahead at.         *)
THEOREM DecodingIsLocal == Spec => []DecodeIsLocal
<1>1. TextInv => DecodeIsLocal
    <2> SUFFICES ASSUME text \in Str, NEW i \in 0 .. Len(text),
                        \A j \in {i - 1, i} \cap DOMAIN text : text[j] # Percent
                 PROVE  percentDecode(text) = percentDecode(SubSeq(text, 1, i))
                            \o percentDecode(SubSeq(text, i + 1, Len(text)))
        BY DEF TextInv, DecodeIsLocal
    <2> DEFINE a == SubSeq(text, 1, i)
               b == SubSeq(text, i + 1, Len(text))
    <2>1. /\ a \in Str /\ Len(a) = i /\ \A k \in 1 .. i : a[k] = text[k]
          /\ b \in Str /\ text = a \o b
        BY TextIsCut
    <2> HIDE DEF a, b
    <2>2. DOMAIN a = 1 .. i /\ DOMAIN text = 1 .. Len(text) /\ Len(text) \in Nat
        BY <2>1, TextIs
    <2>3. Closed(a)
        BY <2>1, <2>2 DEF Closed
    <2>4. percentDecode(a \o b) = percentDecode(a) \o percentDecode(b)
        BY <2>1, <2>3, DecodeJoined
    <2> QED BY <2>1, <2>4 DEF a, b
<1> QED BY <1>1, TextInvariant, PTL

(* Decoding undoes encoding for every text, whatever bytes it is made of.  *)
THEOREM DecodingInvertsEncoding == Spec => []DecodeInvertsEncode
<1>1. TextInv => DecodeInvertsEncode
    <2> SUFFICES ASSUME text \in Str, NEW c \in 0 .. 255, NEW lower \in BOOLEAN
                 PROVE  percentDecode(Encode(Append(text, c), lower)) = Append(text, c)
        BY DEF TextInv, DecodeInvertsEncode
    <2>1. Append(text, c) \in Str
        BY AddedIsText DEF Char
    <2> QED BY <2>1, EncodeIs
<1> QED BY <1>1, TextInvariant, PTL

(* Every parameter of a body or a cookie is found, none is invented, and   *)
(* of those with one name the first is kept.                               *)
THEOREM FirstOccurrencesWin == Spec => []FirstOccurrenceWins
<1>1. TextInv => FirstOccurrenceWins
    BY ParseFindsFirsts DEF TextInv, FirstOccurrenceWins, parseBody, parseCookie
<1> QED BY <1>1, TextInvariant, PTL

-----------------------------------------------------------------------------
(* The end of a text is searched, and parsed, as it is within the text.    *)
IsTail(t, e, m) == Len(e) = m + Len(t) /\ \A i \in 1 .. Len(t) : t[i] = e[m + i]

(* A character is found in the tail of a text where it is in the text.     *)
LEMMA FindShifts ==
    ASSUME NEW e \in Str, NEW t \in Str, NEW m \in Nat, IsTail(t, e, m), NEW c,
           NEW k \in 1 .. Len(t) + 2
    PROVE  Find(e, c, m + k) = m + Find(t, c, k)
<1> DEFINE q == Find(e, c, m + k)
           p == Find(t, c, k)
<1>1. Len(t) \in Nat /\ Len(e) \in Nat /\ k \in Nat
    BY TextIs
<1>2. /\ p \in 1 .. Len(t) + 1
      /\ p <= Len(t) => k <= p /\ t[p] = c
      /\ \A i \in 1 .. Len(t) : (k <= i /\ i < p) => t[i] # c
    BY <1>1, FindIsFirst
<1>3. m + k \in Nat /\ 1 <= m + k /\ m + k <= Len(e) + 2
    BY <1>1 DEF IsTail
<1>4. /\ q \in 1 .. Len(e) + 1
      /\ q <= Len(e) => m + k <= q /\ e[q] = c
      /\ \A i \in 1 .. Len(e) : (m + k <= i /\ i < q) => e[i] # c
    BY <1>3, FindIsFirst
<1> HIDE DEF q, p
<1>5. ASSUME q < m + p PROVE FALSE
    <2>1. q <= Len(e) /\ m + k <= q /\ e[q] = c
        BY <1>1, <1>2, <1>4, <1>5 DEF IsTail
    <2>2. q - m \in 1 .. Len(t) /\ k <= q - m /\ q - m < p /\ m + (q - m) = q
        BY <1>1, <1>2, <1>4, <1>5, <2>1 DEF IsTail
    <2>3. t[q - m] = c
        <3>1. t[q - m] = e[m + (q - m)]
            BY <2>2 DEF IsTail
        <3> QED BY <2>1, <2>2, <3>1
    <2> QED BY <1>2, <2>2, <2>3
<1>6. ASSUME m + p < q PROVE FALSE
    <2>1. p <= Len(t)
        BY <1>1, <1>2, <1>4, <1>6 DEF IsTail
    <2>2. e[m + p] = c
        BY <1>2, <2>1 DEF IsTail
    <2>3. m + p \in 1 .. Len(e) /\ m + k <= m + p
        BY <1>1, <1>2, <1>4, <1>6, <2>1 DEF IsTail
    <2> QED BY <1>4, <1>6, <2>2, <2>3
<1>7. q \in Int /\ m + p \in Int
    BY <1>2, <1>4
<1> QED BY <1>5, <1>6, <1>7 DEF q, p

(* And spaces are passed over in the same way.                             *)
LEMMA SkipSpacesShifts ==
    ASSUME NEW e \in Str, NEW t \in Str, NEW m \in Nat, IsTail(t, e, m),
           NEW k \in 1 .. Len(t) + 2
    PROVE  SkipSpaces(e, m + k) = m + SkipSpaces(t, k)
<1> DEFINE q == SkipSpaces(e, m + k)
           p == SkipSpaces(t, k)
<1>1. Len(t) \in Nat /\ Len(e) \in Nat /\ k \in Nat
    BY TextIs
<1>2. /\ p \in 1 .. Len(t) + 1
      /\ p <= Len(t) => k <= p /\ t[p] # Space
      /\ \A i \in 1 .. Len(t) : (k <= i /\ i < p) => t[i] = Space
    BY <1>1, SkipSpacesIsFirst
<1>3. m + k \in Nat /\ 1 <= m + k /\ m + k <= Len(e) + 2
    BY <1>1 DEF IsTail
<1>4. /\ q \in 1 .. Len(e) + 1
      /\ q <= Len(e) => m + k <= q /\ e[q] # Space
      /\ \A i \in 1 .. Len(e) : (m + k <= i /\ i < q) => e[i] = Space
    BY <1>3, SkipSpacesIsFirst
<1> HIDE DEF q, p
<1>5. ASSUME q < m + p PROVE FALSE
    <2>1. q <= Len(e) /\ m + k <= q /\ e[q] # Space
        BY <1>1, <1>2, <1>4, <1>5 DEF IsTail
    <2>2. q - m \in 1 .. Len(t) /\ k <= q - m /\ q - m < p /\ m + (q - m) = q
        BY <1>1, <1>2, <1>4, <1>5, <2>1 DEF IsTail
    <2>3. t[q - m] # Space
        <3>1. t[q - m] = e[m + (q - m)]
            BY <2>2 DEF IsTail
        <3> QED BY <2>1, <2>2, <3>1
    <2> QED BY <1>2, <2>2, <2>3
<1>6. ASSUME m + p < q PROVE FALSE
    <2>1. p <= Len(t)
        BY <1>1, <1>2, <1>4, <1>6 DEF IsTail
    <2>2. e[m + p] # Space
        BY <1>2, <2>1 DEF IsTail
    <2>3. m + p \in 1 .. Len(e) /\ m + k <= m + p
        BY <1>1, <1>2, <1>4, <1>6, <2>1 DEF IsTail
    <2> QED BY <1>4, <1>6, <2>2, <2>3
<1>7. q \in Int /\ m + p \in Int
    BY <1>2, <1>4
<1> QED BY <1>5, <1>6, <1>7 DEF q, p

(* So is a part of the end.                                                *)
LEMMA PartShifts ==
    ASSUME NEW e \in Str, NEW t \in Str, NEW m \in Nat, IsTail(t, e, m),
           NEW k \in 1 .. Len(t), NEW j \in k - 1 .. Len(t)
    PROVE  SubSeq(e, m + k, m + j) = SubSeq(t, k, j)
<1> DEFINE l == SubSeq(e, m + k, m + j)
           r == SubSeq(t, k, j)
<1>1. /\ Len(t) \in Nat /\ Len(e) \in Nat /\ k \in Nat /\ j \in Nat /\ 1 <= k /\ j <= Len(t)
      /\ m + k \in Nat /\ m + j \in Nat /\ 1 <= m + k /\ m + j <= Len(e)
    BY TextIs DEF IsTail
<1>2. /\ l \in Str /\ Len(l) = IF m + k <= m + j THEN (m + j) - (m + k) + 1 ELSE 0
      /\ \A i \in 1 .. (m + j) - (m + k) + 1 : l[i] = e[(m + k) + i - 1]
    BY <1>1, PartIsText
<1>3. /\ r \in Str /\ Len(r) = IF k <= j THEN j - k + 1 ELSE 0
      /\ \A i \in 1 .. j - k + 1 : r[i] = t[k + i - 1]
    <2>1. k \in Nat /\ j \in Nat /\ 1 <= k /\ j <= Len(t)
        BY <1>1
    <2> HIDE DEF l
    <2> QED BY <2>1, PartIsText
<1> HIDE DEF l, r
<1>4. Len(l) = Len(r) /\ Len(l) = j - k + 1
    BY <1>1, <1>2, <1>3
<1>5. ASSUME NEW i \in 1 .. Len(l) PROVE l[i] = r[i]
    <2>1. /\ i \in 1 .. (m + j) - (m + k) + 1 /\ i \in 1 .. j - k + 1
          /\ (m + k) + i - 1 = m + (k + i - 1) /\ k + i - 1 \in 1 .. Len(t)
        BY <1>1, <1>4
    <2>2. t[k + i - 1] = e[m + (k + i - 1)]
        BY <2>1 DEF IsTail
    <2>3. l[i] = e[(m + k) + i - 1] /\ r[i] = t[k + i - 1]
        BY <1>2, <1>3, <2>1
    <2> QED BY <2>1, <2>2, <2>3
<1> QED BY <1>2, <1>3, <1>4, <1>5, SameText DEF l, r

(* So the tail of a text is parsed as a text of its own.                   *)
LEMMA ParseShifts ==
    ASSUME NEW e \in Str, NEW t \in Str, NEW m \in Nat, IsTail(t, e, m),
           NEW cookie \in BOOLEAN
    PROVE  \A k \in 1 .. Len(t) + 2 :
              parseParameters(e, m + k, cookie) = parseParameters(t, k, cookie)
<1> DEFINE N == Len(t) + 2
           S == {k \in 1 .. N :
                    parseParameters(e, m + k, cookie) = parseParameters(t, k, cookie)}
<1>0. Len(t) \in Nat /\ Len(e) \in Nat /\ N \in Nat /\ Len(e) = m + Len(t)
    BY TextIs DEF IsTail
<1>1. ASSUME NEW k \in 1 .. N, \A j \in 1 .. N : k < j => j \in S PROVE k \in S
    <2>0. m + k \in 1 .. Len(e) + 2
        BY <1>0
    <2>1. CASE k > Len(t)
        <3>1. m + k > Len(e)
            BY <1>0, <2>1
        <3>2. /\ parseParameters(e, m + k, cookie) = NoParams
              /\ parseParameters(t, k, cookie) = NoParams
            BY <2>0, <2>1, <3>1, ParseDef
        <3> QED BY <3>2
    <2>2. CASE ~ (k > Len(t))
        <3>1. k \in 1 .. Len(t) /\ m + k \in 1 .. Len(e) /\ m + k <= Len(e) /\ k <= Len(t)
            BY <1>0, <2>2
        <3> DEFINE end == EndOf(t, cookie, k)
                   next == NextOf(t, cookie, k)
        <3>2. end \in k .. Len(t) + 1 /\ next \in 1 .. N /\ k < next
            BY <3>1, TurnIs
        <3>3. EndOf(e, cookie, m + k) = m + end
            <4>1. k \in 1 .. Len(t) + 2
                OBVIOUS
            <4> QED BY <4>1, FindShifts DEF EndOf
        <3> HIDE DEF end, next
        <3>4. ParamFrom(e, cookie, m + k) = ParamFrom(t, cookie, k)
            <4>1. end - 1 \in k - 1 .. Len(t) /\ m + (end - 1) = (m + end) - 1
                BY <1>0, <3>1, <3>2
            <4>2. SubSeq(e, m + k, m + (end - 1)) = SubSeq(t, k, end - 1)
                BY <3>1, <4>1, PartShifts
            <4> QED BY <3>3, <4>1, <4>2 DEF ParamFrom, end
        <3>5. NextOf(e, cookie, m + k) = m + next
            <4>1. end + 1 \in 1 .. Len(t) + 2 /\ m + (end + 1) = (m + end) + 1
                BY <1>0, <3>1, <3>2
            <4>2. CASE cookie
                <5>1. SkipSpaces(e, m + (end + 1)) = m + SkipSpaces(t, end + 1)
                    BY <4>1, SkipSpacesShifts
                <5> QED BY <3>3, <4>1, <4>2, <5>1 DEF NextOf, end, next
            <4>3. CASE ~ cookie
                BY <3>3, <4>1, <4>3 DEF NextOf, end, next
            <4> QED BY <4>2, <4>3
        <3>6. parseParameters(e, m + next, cookie) = parseParameters(t, next, cookie)
            BY <1>1, <3>2
        <3>7. parseParameters(e, m + k, cookie)
                = emplace(KeyOf(ParamFrom(e, cookie, m + k)),
                          ValueOf(ParamFrom(e, cookie, m + k), cookie),
                          parseParameters(e, NextOf(e, cookie, m + k), cookie))
            BY <2>0, <3>1, ParseDef
        <3>8. parseParameters(t, k, cookie)
                = emplace(KeyOf(ParamFrom(t, cookie, k)), ValueOf(ParamFrom(t, cookie, k), cookie),
                          parseParameters(t, next, cookie))
            <4>1. k \in 1 .. Len(t) + 2
                OBVIOUS
            <4> QED BY <3>1, <4>1, ParseDef DEF next
        <3> QED BY <3>4, <3>5, <3>6, <3>7, <3>8
    <2> QED BY <2>1, <2>2
<1> HIDE DEF S
<1>2. \A k \in 1 .. N : k \in S
    BY <1>0, <1>1, InductionDown
<1> QED BY <1>2 DEF S

(* What is joined after a text is its end.                                 *)
LEMMA JoinedIsTail ==
    ASSUME NEW a \in Str, NEW b \in Str
    PROVE  IsTail(b, a \o b, Len(a))
<1> DEFINE e == a \o b
<1>1. /\ Len(a) \in Nat /\ Len(b) \in Nat /\ Len(e) = Len(a) + Len(b)
      /\ \A k \in 1 .. Len(a) + Len(b) : e[k] = IF k <= Len(a) THEN a[k] ELSE b[k - Len(a)]
    BY TextIs, ConcatIsText
<1> HIDE DEF e
<1>2. ASSUME NEW i \in 1 .. Len(b) PROVE b[i] = e[Len(a) + i]
    <2>1. /\ Len(a) + i \in 1 .. Len(a) + Len(b) /\ ~ (Len(a) + i <= Len(a))
          /\ (Len(a) + i) - Len(a) = i
        BY <1>1
    <2>2. e[Len(a) + i] = b[(Len(a) + i) - Len(a)]
        BY <1>1, <2>1
    <2> QED BY <2>1, <2>2
<1> QED BY <1>1, <1>2 DEF IsTail, e

(* Where a search ends is known by what is there and what is before it.    *)
LEMMA FindIs ==
    ASSUME NEW e \in Str, NEW c, NEW k \in 1 .. Len(e) + 1, NEW p \in k .. Len(e) + 1,
           p <= Len(e) => e[p] = c, \A i \in k .. p - 1 : e[i] # c
    PROVE  Find(e, c, k) = p
<1> DEFINE q == Find(e, c, k)
<1>1. Len(e) \in Nat /\ k \in Nat /\ 1 <= k /\ k <= Len(e) + 2 /\ p \in Nat
    BY TextIs
<1>2. /\ q \in 1 .. Len(e) + 1
      /\ q <= Len(e) => k <= q /\ e[q] = c
      /\ \A i \in 1 .. Len(e) : (k <= i /\ i < q) => e[i] # c
    BY <1>1, FindIsFirst
<1> HIDE DEF q
<1>3. ASSUME q < p PROVE FALSE
    <2>1. q <= Len(e) /\ q \in k .. p - 1 /\ e[q] = c
        BY <1>1, <1>2, <1>3
    <2> QED BY <2>1
<1>4. ASSUME p < q PROVE FALSE
    <2>1. p \in 1 .. Len(e) /\ p <= Len(e)
        BY <1>1, <1>2, <1>4
    <2> QED BY <1>2, <1>4, <2>1
<1>5. q = p
    BY <1>1, <1>2, <1>3, <1>4
<1> QED BY <1>5 DEF q

(* A path is parsed as its query string is: parsePath hands the loop the   *)
(* place after the first '?', from where it finds what parseBody finds in  *)
(* the rest; a path without one has no parameters.                         *)
THEOREM PathsAreTheirQueries == Spec => []PathIsItsQuery
<1>1. TextInv => PathIsItsQuery
    <2> SUFFICES ASSUME text \in Str, NEW i \in 0 .. Len(text),
                        Question \notin ToSet(SubSeq(text, 1, i))
                 PROVE  /\ parsePath(SubSeq(text, 1, i) \o <<Question>> \o text) = parseBody(text)
                        /\ parsePath(SubSeq(text, 1, i)) = NoParams
        BY DEF TextInv, PathIsItsQuery
    <2> DEFINE a == SubSeq(text, 1, i)
               q == a \o One(Question)
               e == q \o text
    <2>0. Len(text) \in Nat /\ i \in Nat
        BY TextIs
    <2>1. a \in Str /\ Len(a) = i
        BY TextIsCut
    <2>2. \A k \in 1 .. i : a[k] # Question
        <3>1. DOMAIN a = 1 .. i
            BY <2>1, TextIs
        <3> QED BY <3>1 DEF ToSet
    <2>3. One(Question) \in Str /\ Len(One(Question)) = 1 /\ One(Question)[1] = Question
        BY OneIsText DEF Char, Question
    <2> HIDE DEF a
    <2>4. /\ q \in Str /\ Len(q) = i + 1
          /\ \A k \in 1 .. i + 1 : q[k] = IF k <= i THEN a[k] ELSE One(Question)[k - i]
        <3> DEFINE o == One(Question)
        <3>1. o \in Str /\ Len(o) = 1
            BY <2>3
        <3> HIDE DEF o
        <3>2. /\ a \o o \in Str /\ Len(a \o o) = Len(a) + Len(o)
              /\ \A k \in 1 .. Len(a) + Len(o) :
                    (a \o o)[k] = IF k <= Len(a) THEN a[k] ELSE o[k - Len(a)]
            BY <2>1, <3>1, ConcatIsText
        <3>3. /\ a \o o \in Str /\ Len(a \o o) = i + 1
              /\ \A k \in 1 .. i + 1 : (a \o o)[k] = IF k <= i THEN a[k] ELSE o[k - i]
            BY <2>1, <3>1, <3>2
        <3> QED BY <3>3 DEF o
    <2> HIDE DEF q
    <2>5. /\ e \in Str /\ Len(e) = (i + 1) + Len(text)
          /\ \A k \in 1 .. (i + 1) + Len(text) :
                e[k] = IF k <= i + 1 THEN q[k] ELSE text[k - (i + 1)]
          /\ IsTail(text, e, i + 1)
        <3>1. /\ e \in Str /\ Len(e) = Len(q) + Len(text)
              /\ \A k \in 1 .. Len(q) + Len(text) :
                    e[k] = IF k <= Len(q) THEN q[k] ELSE text[k - Len(q)]
            BY <2>4, ConcatIsText
        <3>2. IsTail(text, e, Len(q))
            BY <2>4, JoinedIsTail
        <3> HIDE DEF e
        <3> QED BY <2>4, <3>1, <3>2
    <2> HIDE DEF e
    <2>6. Find(e, Question, 1) = i + 1
        <3>1. e[i + 1] = Question
            <4>1. i + 1 \in 1 .. (i + 1) + Len(text) /\ i + 1 <= i + 1 /\ (i + 1) - i = 1
                  /\ i + 1 \in 1 .. i + 1 /\ ~ (i + 1 <= i)
                BY <2>0
            <4>2. e[i + 1] = q[i + 1] /\ q[i + 1] = One(Question)[(i + 1) - i]
                BY <2>4, <2>5, <4>1
            <4> QED BY <2>3, <4>1, <4>2
        <3>2. \A k \in 1 .. (i + 1) - 1 : e[k] # Question
            <4> SUFFICES ASSUME NEW k \in 1 .. (i + 1) - 1 PROVE e[k] # Question
                OBVIOUS
            <4>1. /\ k \in 1 .. (i + 1) + Len(text) /\ k <= i + 1 /\ k \in 1 .. i + 1
                  /\ k <= i /\ k \in 1 .. i
                BY <2>0
            <4>2. e[k] = q[k] /\ q[k] = a[k]
                BY <2>4, <2>5, <4>1
            <4> QED BY <2>2, <4>1, <4>2
        <3>3. /\ e \in Str /\ 1 \in 1 .. Len(e) + 1 /\ i + 1 \in 1 .. Len(e) + 1
              /\ (i + 1 <= Len(e)) => e[i + 1] = Question
            BY <2>0, <2>5, <3>1
        <3> QED BY <3>2, <3>3, FindIs
    <2>7. parsePath(e) = parseBody(text)
        <3>1. ~ (i + 1 > Len(e)) /\ 1 \in 1 .. Len(text) + 2 /\ i + 1 \in Nat
            BY <2>0, <2>5
        <3>2. parsePath(e) = parseParameters(e, (i + 1) + 1, FALSE)
            BY <2>6, <3>1 DEF parsePath
        <3>3. parseParameters(e, (i + 1) + 1, FALSE) = parseParameters(text, 1, FALSE)
            BY <2>5, <3>1, ParseShifts
        <3> QED BY <3>2, <3>3 DEF parseBody
    <2>8. parsePath(a) = NoParams
        <3>1. 1 \in 1 .. Len(a) + 1 /\ Len(a) + 1 \in 1 .. Len(a) + 1 /\ ~ (Len(a) + 1 <= Len(a))
              /\ \A k \in 1 .. (Len(a) + 1) - 1 : a[k] # Question
            BY <2>0, <2>1, <2>2
        <3>2. Find(a, Question, 1) = Len(a) + 1
            BY <2>1, <3>1, FindIs
        <3>3. Len(a) + 1 > Len(a)
            BY <2>0, <2>1
        <3> QED BY <3>2, <3>3 DEF parsePath
    <2> QED BY <2>7, <2>8 DEF e, q, a, One
<1> QED BY <1>1, TextInvariant, PTL

-----------------------------------------------------------------------------
(* What takes precedence over a part takes precedence over the whole.      *)
LEMMA OverIs ==
    ASSUME NEW a \in Maps, NEW b \in Maps, NEW key \in Str, NEW val
    PROVE  /\ Over(emplace(key, val, a), b) = emplace(key, val, Over(a, b))
           /\ Over(NoParams, b) = b
           /\ Over(a, a) = a
<1>1. a = [k \in DOMAIN a |-> a[k]] /\ b = [k \in DOMAIN b |-> b[k]]
    BY DEF Maps
<1>2. DOMAIN NoParams = {}
    BY NoParamsIsMap
<1>3. Over(NoParams, b) = b
    <2>1. Over(NoParams, b) = [k \in DOMAIN b |-> b[k]]
        BY <1>2 DEF Over
    <2> QED BY <1>1, <2>1
<1>4. Over(a, a) = a
    <2>1. Over(a, a) = [k \in DOMAIN a |-> a[k]]
        BY DEF Over
    <2> QED BY <1>1, <2>1
<1>5. Over(emplace(key, val, a), b) = emplace(key, val, Over(a, b))
    <2> DEFINE l == Over(emplace(key, val, a), b)
               r == emplace(key, val, Over(a, b))
               D == {key} \cup DOMAIN a \cup DOMAIN b
               W(k) == IF k = key THEN val ELSE IF k \in DOMAIN a THEN a[k] ELSE b[k]
    <2>1. l = [k \in D |-> W(k)]
        BY DEF Over, emplace
    <2>2. r = [k \in D |-> W(k)]
        BY DEF Over, emplace
    <2> QED BY <2>1, <2>2
<1> QED BY <1>3, <1>4, <1>5

(* Up to a delimiter that ends a parameter a text is parsed as if it ended *)
(* there; beyond it, as if it began there.                                 *)
LEMMA ParseIsCut ==
    ASSUME NEW data \in Str, NEW i \in 2 .. Len(data),
           data[i] = Ampersand, data[i - 1] # Ampersand
    PROVE  parseBody(data) = Over(parseBody(SubSeq(data, 1, i - 1)),
                                  parseBody(SubSeq(data, i + 1, Len(data))))
<1> DEFINE a == SubSeq(data, 1, i - 1)
           b == SubSeq(data, i + 1, Len(data))
           N == i - 1
           late == parseParameters(b, 1, FALSE)
           S == {k \in 1 .. N : parseParameters(data, k, FALSE)
                                    = Over(parseParameters(a, k, FALSE), late)}
<1>0. Len(data) \in Nat /\ i \in Nat /\ N \in Nat /\ 1 <= N /\ N + 1 = i
    BY TextIs
<1>1. a \in Str /\ Len(a) = N /\ \A k \in 1 .. N : a[k] = data[k]
    <2>1. N \in 0 .. Len(data)
        BY <1>0
    <2> QED BY <2>1, TextIsCut
<1>2. b \in Str /\ IsTail(b, data, i)
    <2>1. i \in 0 .. Len(data)
        BY <1>0
    <2>2. /\ b \in Str /\ Len(b) = Len(data) - i
          /\ \A k \in 1 .. Len(data) - i : b[k] = data[i + k]
        BY <2>1, TextIsCut
    <2> HIDE DEF b
    <2>3. Len(data) = i + Len(b)
        BY <1>0, <2>2
    <2> QED BY <2>2, <2>3 DEF IsTail
<1>3. parseParameters(data, i + 1, FALSE) = late /\ late \in Maps
    <2>1. 1 \in 1 .. Len(b) + 2
        BY <1>2, TextIs
    <2> HIDE DEF b
    <2> QED BY <1>0, <1>2, <2>1, ParseShifts, ParseDef
<1> HIDE DEF a, b, late
<1>4. ASSUME NEW k \in 1 .. N, \A j \in 1 .. N : k < j => j \in S PROVE k \in S
    <2>0. /\ k \in 1 .. Len(data) /\ k \in 1 .. Len(a) /\ k \in 1 .. Len(data) + 2
          /\ k \in 1 .. Len(a) + 2 /\ k <= Len(data) /\ k <= Len(a) /\ k \in Nat
        BY <1>0, <1>1
    <2> DEFINE end == EndOf(data, FALSE, k)
    <2>1. /\ end \in k .. Len(data) + 1
          /\ end <= Len(data) => data[end] = Ampersand
          /\ \A j \in k .. end - 1 : data[j] # Ampersand
        BY <2>0, TurnIs DEF Delimiter
    <2> HIDE DEF end
    <2>2. end <= i
        <3>1. ~ (i \in k .. end - 1)
            BY <2>1
        <3> QED BY <1>0, <2>0, <2>1, <3>1
    <2>3. EndOf(a, FALSE, k) = end
        <3>1. k \in 1 .. Len(a) + 1 /\ end \in k .. Len(a) + 1
            BY <1>0, <1>1, <2>0, <2>1, <2>2
        <3>2. end <= Len(a) => a[end] = Ampersand
            BY <1>0, <1>1, <2>0, <2>1
        <3>3. \A j \in k .. end - 1 : a[j] # Ampersand
            BY <1>0, <1>1, <2>0, <2>1, <2>2
        <3>4. Find(a, Ampersand, k) = end
            BY <1>1, <3>1, <3>2, <3>3, FindIs
        <3> QED BY <3>4 DEF EndOf, Delimiter
    <2>4. ParamFrom(data, FALSE, k) = ParamFrom(a, FALSE, k)
        <3>2. end - 1 \in Nat /\ 1 <= k /\ end - 1 <= Len(data) /\ end - 1 <= Len(a)
              /\ end - 1 \in Int
            BY <1>0, <1>1, <2>0, <2>1, <2>2
        <3> DEFINE l == SubSeq(data, k, end - 1)
                   r == SubSeq(a, k, end - 1)
        <3>3. /\ l \in Str /\ Len(l) = IF k <= end - 1 THEN end - 1 - k + 1 ELSE 0
              /\ \A j \in 1 .. end - 1 - k + 1 : l[j] = data[k + j - 1]
            BY <2>0, <3>2, PartIsText
        <3>4. /\ r \in Str /\ Len(r) = IF k <= end - 1 THEN end - 1 - k + 1 ELSE 0
              /\ \A j \in 1 .. end - 1 - k + 1 : r[j] = a[k + j - 1]
            BY <1>1, <2>0, <3>2, PartIsText
        <3> HIDE DEF l, r
        <3>5. ASSUME NEW j \in 1 .. Len(l) PROVE l[j] = r[j]
            <4>1. j \in 1 .. end - 1 - k + 1 /\ k + j - 1 \in 1 .. N
                BY <1>0, <1>1, <2>0, <3>2, <3>3
            <4> QED BY <1>1, <3>3, <3>4, <4>1
        <3>6. l = r
            BY <3>3, <3>4, <3>5, SameText
        <3> QED BY <2>3, <3>6 DEF ParamFrom, end, l, r
    <2> DEFINE key == KeyOf(ParamFrom(a, FALSE, k))
               val == ValueOf(ParamFrom(a, FALSE, k), FALSE)
    <2>5. key \in Str
        BY <1>1, <2>0, TurnIs, PairIsText
    <2>6. parseParameters(data, k, FALSE)
            = emplace(key, val, parseParameters(data, end + 1, FALSE))
        <3>1. NextOf(data, FALSE, k) = end + 1
            BY DEF NextOf, end
        <3> QED BY <2>0, <2>4, <3>1, ParseDef
    <2>7. parseParameters(a, k, FALSE)
            = emplace(key, val, parseParameters(a, end + 1, FALSE))
        <3>1. NextOf(a, FALSE, k) = end + 1
            BY <2>3 DEF NextOf
        <3> QED BY <1>1, <2>0, <3>1, ParseDef
    <2>8. parseParameters(a, end + 1, FALSE) \in Maps
        <3>1. end + 1 \in 1 .. Len(a) + 2
            BY <1>0, <1>1, <2>0, <2>1, <2>2
        <3> QED BY <1>1, <3>1, ParseDef
    <2>9. parseParameters(data, end + 1, FALSE)
            = Over(parseParameters(a, end + 1, FALSE), late)
        <3>1. CASE end = i
            <4>1. end + 1 \in 1 .. Len(a) + 2 /\ end + 1 > Len(a)
                BY <1>0, <1>1, <3>1
            <4>2. parseParameters(a, end + 1, FALSE) = NoParams
                BY <1>1, <4>1, ParseDef
            <4> QED BY <1>3, <3>1, <4>2, NoParamsIsMap, OverIs, NothingIsText
        <3>2. CASE end # i
            <4>1. end # i - 1
                BY <1>0, <2>0, <2>1, <2>2, <3>2
            <4>2. end + 1 \in 1 .. N /\ k < end + 1
                BY <1>0, <2>0, <2>1, <2>2, <3>2, <4>1
            <4> QED BY <1>4, <4>2
        <3> QED BY <3>1, <3>2
    <2> HIDE DEF key, val
    <2>10. Over(emplace(key, val, parseParameters(a, end + 1, FALSE)), late)
            = emplace(key, val, Over(parseParameters(a, end + 1, FALSE), late))
        <3> DEFINE early == parseParameters(a, end + 1, FALSE)
        <3>1. early \in Maps
            BY <2>8
        <3> HIDE DEF early
        <3>2. Over(emplace(key, val, early), late) = emplace(key, val, Over(early, late))
            BY <1>3, <2>5, <3>1, OverIs
        <3> QED BY <3>2 DEF early
    <2> QED BY <2>6, <2>7, <2>9, <2>10
<1> HIDE DEF S
<1>5. \A k \in 1 .. N : k \in S
    BY <1>0, <1>4, InductionDown
<1>6. 1 \in 1 .. N
    BY <1>0
<1>7. parseParameters(data, 1, FALSE) = Over(parseParameters(a, 1, FALSE), late)
    BY <1>5, <1>6 DEF S
<1> QED BY <1>7 DEF parseBody, a, b, late

(* A body may be cut at any ampersand that ends a parameter, and its       *)
(* halves parsed apart.                                                    *)
THEOREM BodiesAreCutAtDelimiters == Spec => []CutAtDelimiter
<1>1. TextInv => CutAtDelimiter
    <2> SUFFICES ASSUME text \in Str, NEW i \in DOMAIN text,
                        i > 1, text[i] = Ampersand, text[i - 1] # Ampersand
                 PROVE  parseBody(text) = Over(parseBody(SubSeq(text, 1, i - 1)),
                                               parseBody(SubSeq(text, i + 1, Len(text))))
        BY DEF TextInv, CutAtDelimiter
    <2>1. i \in 2 .. Len(text)
        BY TextIs
    <2> QED BY <2>1, ParseIsCut
<1> QED BY <1>1, TextInvariant, PTL

-----------------------------------------------------------------------------
(* A parameter made of two texts is split between them if the first has no *)
(* equals sign.                                                            *)
Pair(a, b) == (a \o One(Equals)) \o b

(* A pair is split at its first equals sign.                               *)
LEMMA PairIsSplit ==
    ASSUME NEW a \in Str, NEW b \in Str, Plain(a)
    PROVE  /\ Pair(a, b) \in Str /\ 1 <= Len(Pair(a, b))
           /\ KeyOf(Pair(a, b)) = percentDecode(a)
           /\ \A cookie \in BOOLEAN : ValueOf(Pair(a, b), cookie)
                 = IF cookie THEN Unquote(percentDecode(b)) ELSE percentDecode(b)
<1> DEFINE o == One(Equals)
           q == a \o o
           e == q \o b
           n == Len(a)
<1>1. o \in Str /\ Len(o) = 1 /\ o[1] = Equals
    BY OneIsText DEF Char, Equals
<1> HIDE DEF o
<1>2. n \in Nat /\ Len(b) \in Nat /\ Len(b) <= Len(b)
    BY TextIs
<1>3. q \in Str /\ Len(q) = n + 1 /\ q[n + 1] = Equals /\ \A k \in 1 .. n : q[k] = a[k]
    <2>1. /\ q \in Str /\ Len(q) = n + Len(o)
          /\ \A k \in 1 .. n + Len(o) : q[k] = IF k <= n THEN a[k] ELSE o[k - n]
        BY <1>1, ConcatIsText
    <2> HIDE DEF q
    <2>2. n + 1 \in 1 .. n + Len(o) /\ ~ (n + 1 <= n) /\ (n + 1) - n = 1
        BY <1>1, <1>2
    <2>3. q[n + 1] = o[1]
        BY <2>1, <2>2
    <2>4. \A k \in 1 .. n : k \in 1 .. n + Len(o) /\ k <= n
        BY <1>1, <1>2
    <2> HIDE DEF n
    <2> QED BY <1>1, <2>1, <2>3, <2>4
<1> HIDE DEF q
<1>4. /\ e \in Str /\ Len(e) = (n + 1) + Len(b)
      /\ \A k \in 1 .. n + 1 : e[k] = q[k]
      /\ IsTail(b, e, n + 1)
    <2>1. /\ e \in Str /\ Len(e) = Len(q) + Len(b) /\ IsTail(b, e, Len(q))
          /\ \A k \in 1 .. Len(q) + Len(b) : e[k] = IF k <= Len(q) THEN q[k] ELSE b[k - Len(q)]
        BY <1>3, ConcatIsText, JoinedIsTail
    <2> HIDE DEF e
    <2>2. \A k \in 1 .. Len(q) : k \in 1 .. Len(q) + Len(b) /\ k <= Len(q)
        BY <1>2, <1>3
    <2>3. \A k \in 1 .. Len(q) : e[k] = q[k]
        BY <2>1, <2>2
    <2> QED BY <1>3, <2>1, <2>3
<1> HIDE DEF e
<1>5. Find(e, Equals, 1) = n + 1
    <2>1. 1 \in 1 .. Len(e) + 1 /\ n + 1 \in 1 .. Len(e) + 1 /\ n + 1 \in 1 .. n + 1
        BY <1>2, <1>4
    <2>2. e[n + 1] = Equals
        BY <1>3, <1>4, <2>1
    <2>3. \A k \in 1 .. (n + 1) - 1 : e[k] # Equals
        <3> SUFFICES ASSUME NEW k \in 1 .. (n + 1) - 1 PROVE e[k] # Equals
            OBVIOUS
        <3>1. k \in 1 .. n + 1 /\ k \in 1 .. n
            BY <1>2
        <3>2. e[k] = a[k]
            BY <1>3, <1>4, <3>1
        <3> QED BY <3>1, <3>2 DEF Plain
    <2> QED BY <1>4, <2>1, <2>2, <2>3, FindIs
<1>6. SubSeq(e, 1, n) = a
    <2> DEFINE l == SubSeq(e, 1, n)
    <2>1. n \in 0 .. Len(e)
        BY <1>2, <1>4
    <2>2. l \in Str /\ Len(l) = n /\ \A k \in 1 .. n : l[k] = e[k]
        BY <1>4, <2>1, TextIsCut
    <2> HIDE DEF l
    <2>3. \A k \in 1 .. n : l[k] = a[k]
        <3>1. \A k \in 1 .. n : k \in 1 .. n + 1
            BY <1>2
        <3> QED BY <1>3, <1>4, <2>2, <3>1
    <2>4. l = a
        BY <2>2, <2>3, SameText
    <2> QED BY <2>4 DEF l
<1>7. SubSeq(e, (n + 1) + 1, Len(e)) = b
    <2> DEFINE r == SubSeq(e, (n + 1) + 1, Len(e))
               m == n + 1
    <2>1. m \in 0 .. Len(e) /\ Len(e) - m = Len(b)
        BY <1>2, <1>4
    <2>3. /\ r \in Str /\ Len(r) = Len(e) - m
          /\ \A k \in 1 .. Len(e) - m : r[k] = e[m + k]
        BY <1>4, <2>1, TextIsCut
    <2>4. \A k \in 1 .. Len(b) : b[k] = e[m + k]
        BY <1>4 DEF IsTail
    <2> HIDE DEF r, m
    <2>5. Len(r) = Len(b) /\ \A k \in 1 .. Len(r) : r[k] = b[k]
        BY <2>1, <2>3, <2>4
    <2>6. r = b
        BY <2>3, <2>5, SameText
    <2> QED BY <2>6 DEF r
<1>8. /\ KeyOf(e) = percentDecode(a)
      /\ \A cookie \in BOOLEAN : ValueOf(e, cookie)
            = IF cookie THEN Unquote(percentDecode(b)) ELSE percentDecode(b)
    <2>1. (n + 1) - 1 = n
        BY <1>2
    <2>2. KeyOf(e) = percentDecode(a)
        BY <1>5, <1>6, <2>1 DEF KeyOf
    <2>3. ASSUME NEW cookie \in BOOLEAN
          PROVE  ValueOf(e, cookie)
                    = IF cookie THEN Unquote(percentDecode(b)) ELSE percentDecode(b)
        BY <1>5, <1>7 DEF ValueOf
    <2> QED BY <2>2, <2>3
<1>9. 1 <= Len(e)
    BY <1>2, <1>4
<1> QED BY <1>4, <1>8, <1>9 DEF e, q, o, Pair

(* Nor has the pair of two texts a delimiter if neither has one.           *)
Undelimited(t) == \A k \in 1 .. Len(t) : t[k] \notin {Ampersand, Semicolon}

(* Texts without delimiters, joined, have none.                            *)
LEMMA JoinedIsUndelimited ==
    ASSUME NEW a \in Str, NEW b \in Str, Undelimited(a), Undelimited(b)
    PROVE  a \o b \in Str /\ Undelimited(a \o b)
<1> DEFINE e == a \o b
<1>1. /\ e \in Str /\ Len(e) = Len(a) + Len(b) /\ Len(a) \in Nat /\ Len(b) \in Nat
      /\ \A k \in 1 .. Len(a) + Len(b) : e[k] = IF k <= Len(a) THEN a[k] ELSE b[k - Len(a)]
    BY ConcatIsText, TextIs
<1> HIDE DEF e
<1>2. ASSUME NEW k \in 1 .. Len(e) PROVE e[k] \notin {Ampersand, Semicolon}
    <2>1. CASE k <= Len(a)
        <3>1. k \in 1 .. Len(a) /\ k \in 1 .. Len(a) + Len(b)
            BY <1>1, <2>1
        <3> QED BY <1>1, <2>1, <3>1 DEF Undelimited
    <2>2. CASE ~ (k <= Len(a))
        <3>1. k - Len(a) \in 1 .. Len(b) /\ k \in 1 .. Len(a) + Len(b)
            BY <1>1, <2>2
        <3> QED BY <1>1, <2>2, <3>1 DEF Undelimited
    <2> QED BY <2>1, <2>2
<1> QED BY <1>1, <1>2 DEF Undelimited, e

(* So a pair of plain texts has none.                                      *)
LEMMA PairIsUndelimited ==
    ASSUME NEW a \in Str, NEW b \in Str, Plain(a), Plain(b)
    PROVE  Undelimited(Pair(a, b))
<1> DEFINE o == One(Equals)
<1>1. o \in Str /\ Undelimited(o)
    <2>1. o \in Str /\ Len(o) = 1 /\ o[1] = Equals
        BY OneIsText DEF Char, Equals
    <2> HIDE DEF o
    <2>2. Equals \notin {Ampersand, Semicolon}
        BY DEF Equals, Ampersand, Semicolon
    <2> QED BY <2>1, <2>2 DEF Undelimited
<1> HIDE DEF o
<1>2. Undelimited(a) /\ Undelimited(b)
    BY DEF Plain, Undelimited
<1>3. a \o o \in Str /\ Undelimited(a \o o)
    BY <1>1, <1>2, JoinedIsUndelimited
<1>4. Undelimited((a \o o) \o b)
    BY <1>2, <1>3, JoinedIsUndelimited
<1> QED BY <1>4 DEF Pair, o

(* A body without a delimiter is one parameter.                            *)
LEMMA BodyIsOneParam ==
    ASSUME NEW p \in Str, 1 <= Len(p), Undelimited(p)
    PROVE  parseBody(p) = emplace(KeyOf(p), ValueOf(p, FALSE), NoParams)
<1>1. /\ Len(p) \in Nat /\ 1 \in 1 .. Len(p) + 2 /\ 1 \in 1 .. Len(p) + 1
      /\ Len(p) + 1 \in 1 .. Len(p) + 1 /\ ~ (Len(p) + 1 <= Len(p))
      /\ (Len(p) + 1) - 1 = Len(p)
    BY TextIs
<1>2. \A k \in 1 .. (Len(p) + 1) - 1 : p[k] # Ampersand
    BY <1>1 DEF Undelimited
<1>3. EndOf(p, FALSE, 1) = Len(p) + 1
    BY <1>1, <1>2, FindIs DEF EndOf, Delimiter
<1>4. ParamFrom(p, FALSE, 1) = p
    <2>1. SubSeq(p, 1, Len(p)) = p
        BY TextIs, SubSeqFull
    <2> QED BY <1>1, <1>3, <2>1 DEF ParamFrom
<1>5. parseParameters(p, NextOf(p, FALSE, 1), FALSE) = NoParams
    <2>1. NextOf(p, FALSE, 1) = (Len(p) + 1) + 1
        BY <1>3 DEF NextOf
    <2>2. (Len(p) + 1) + 1 \in 1 .. Len(p) + 2 /\ (Len(p) + 1) + 1 > Len(p)
        BY <1>1
    <2> QED BY <2>1, <2>2, ParseDef
<1>6. parseParameters(p, 1, FALSE)
        = emplace(KeyOf(ParamFrom(p, FALSE, 1)), ValueOf(ParamFrom(p, FALSE, 1), FALSE),
                  parseParameters(p, NextOf(p, FALSE, 1), FALSE))
    BY <1>1, ParseDef
<1> QED BY <1>4, <1>5, <1>6 DEF parseBody

(* So is a cookie, with the separator that may end it.                     *)
LEMMA CookieIsOneParam ==
    ASSUME NEW p \in Str, 1 <= Len(p), Undelimited(p)
    PROVE  parseCookie(p \o <<Semicolon, Space>>)
              = emplace(KeyOf(p), ValueOf(p, TRUE), NoParams)
<1> DEFINE o == <<Semicolon, Space>>
           e == p \o o
           n == Len(p)
<1>1. o \in Str /\ Len(o) = 2 /\ o[1] = Semicolon /\ o[2] = Space
    <2>1. Semicolon \in Char /\ Space \in Char
        BY DEF Semicolon, Space, Char
    <2>2. o \in Seq(Char)
        BY <2>1
    <2> QED BY <2>2 DEF Str, Char
<1> HIDE DEF o
<1>2. n \in Nat /\ 1 <= n
    BY TextIs
<1>3. /\ e \in Str /\ Len(e) = n + Len(o)
      /\ \A k \in 1 .. n + Len(o) : e[k] = IF k <= n THEN p[k] ELSE o[k - n]
    BY <1>1, ConcatIsText
<1> HIDE DEF e
<1>4. /\ Len(e) = n + 2 /\ e[n + 1] = Semicolon /\ e[n + 2] = Space
      /\ \A k \in 1 .. n : e[k] = p[k]
    <2>1. /\ n + 1 \in 1 .. n + Len(o) /\ ~ (n + 1 <= n) /\ (n + 1) - n = 1
          /\ n + 2 \in 1 .. n + Len(o) /\ ~ (n + 2 <= n) /\ (n + 2) - n = 2
          /\ \A k \in 1 .. n : k \in 1 .. n + Len(o) /\ k <= n
        BY <1>1, <1>2
    <2> HIDE DEF n
    <2> QED BY <1>1, <1>3, <2>1
<1>5. \A k \in 1 .. (n + 1) - 1 : e[k] # Semicolon
    <2>1. \A k \in 1 .. n : e[k] # Semicolon
        BY <1>4 DEF Undelimited
    <2> QED BY <1>2, <2>1
<1>6. EndOf(e, TRUE, 1) = n + 1
    <2>1. /\ e \in Str /\ 1 \in 1 .. Len(e) + 1 /\ n + 1 \in 1 .. Len(e) + 1
          /\ (n + 1 <= Len(e)) => e[n + 1] = Semicolon
        BY <1>2, <1>3, <1>4
    <2>2. Find(e, Semicolon, 1) = n + 1
        BY <1>5, <2>1, FindIs
    <2> QED BY <2>2 DEF EndOf, Delimiter
<1>7. ParamFrom(e, TRUE, 1) = p
    <2> DEFINE l == SubSeq(e, 1, n)
    <2>1. n \in 0 .. Len(e)
        BY <1>2, <1>4
    <2>2. l \in Str /\ Len(l) = n /\ \A k \in 1 .. n : l[k] = e[k]
        BY <1>3, <2>1, TextIsCut
    <2> HIDE DEF l
    <2>3. l = p
        BY <1>4, <2>2, SameText
    <2>4. (n + 1) - 1 = n
        BY <1>2
    <2> QED BY <1>6, <2>3, <2>4 DEF ParamFrom, l
<1>8. parseParameters(e, NextOf(e, TRUE, 1), TRUE) = NoParams
    <2> DEFINE next == SkipSpaces(e, n + 2)
    <2>1. NextOf(e, TRUE, 1) = next
        <3>1. (n + 1) + 1 = n + 2
            BY <1>2
        <3> QED BY <1>6, <3>1 DEF NextOf
    <2>2. /\ next \in 1 .. Len(e) + 1
          /\ next <= Len(e) => n + 2 <= next /\ e[next] # Space
        <3>1. n + 2 \in Nat /\ 1 <= n + 2 /\ n + 2 <= Len(e) + 2
            BY <1>2, <1>4
        <3> QED BY <1>3, <3>1, SkipSpacesIsFirst
    <2> HIDE DEF next
    <2>3. next > Len(e) /\ next \in 1 .. Len(e) + 2
        BY <1>2, <1>4, <2>2
    <2> QED BY <1>3, <2>1, <2>3, ParseDef
<1>9. parseParameters(e, 1, TRUE)
        = emplace(KeyOf(ParamFrom(e, TRUE, 1)), ValueOf(ParamFrom(e, TRUE, 1), TRUE),
                  parseParameters(e, NextOf(e, TRUE, 1), TRUE))
    <2>1. 1 \in 1 .. Len(e) + 2 /\ 1 <= Len(e)
        BY <1>2, <1>4
    <2> QED BY <1>3, <2>1, ParseDef
<1> QED BY <1>7, <1>8, <1>9 DEF parseCookie, e, o

(* A text between two quotes loses exactly them.                           *)
Quoted(v) == (One(Quote) \o v) \o One(Quote)

(* What is quoted is unquoted as it was.                                   *)
LEMMA UnquoteQuoted ==
    ASSUME NEW v \in Str
    PROVE  Quoted(v) \in Str /\ Unquote(Quoted(v)) = v
<1> DEFINE o == One(Quote)
           q == o \o v
           e == q \o o
           n == Len(v)
<1>1. o \in Str /\ Len(o) = 1 /\ o[1] = Quote /\ n \in Nat
    BY OneIsText, TextIs DEF Char, Quote
<1> HIDE DEF o
<1>2. /\ q \in Str /\ Len(q) = 1 + n /\ q[1] = Quote /\ \A k \in 1 .. n : q[1 + k] = v[k]
    <2>1. /\ q \in Str /\ Len(q) = Len(o) + n /\ IsTail(v, q, Len(o))
          /\ \A k \in 1 .. Len(o) + n : q[k] = IF k <= Len(o) THEN o[k] ELSE v[k - Len(o)]
        BY <1>1, ConcatIsText, JoinedIsTail
    <2> HIDE DEF q, n
    <2>2. 1 \in 1 .. Len(o) + n /\ 1 <= Len(o)
        BY <1>1
    <2>3. q[1] = o[1]
        BY <2>1, <2>2
    <2>4. \A k \in 1 .. n : v[k] = q[Len(o) + k]
        BY <2>1 DEF IsTail, n
    <2> QED BY <1>1, <2>1, <2>3, <2>4
<1> HIDE DEF q
<1>3. /\ e \in Str /\ Len(e) = n + 2 /\ e[n + 2] = Quote /\ \A k \in 1 .. n + 1 : e[k] = q[k]
    <2>1. /\ e \in Str /\ Len(e) = Len(q) + Len(o) /\ IsTail(o, e, Len(q))
          /\ \A k \in 1 .. Len(q) + Len(o) : e[k] = IF k <= Len(q) THEN q[k] ELSE o[k - Len(q)]
        BY <1>1, <1>2, ConcatIsText, JoinedIsTail
    <2> HIDE DEF e, n
    <2>2. 1 \in 1 .. Len(o) /\ Len(q) + 1 = n + 2
        BY <1>1, <1>2
    <2>3. o[1] = e[Len(q) + 1]
        BY <2>1, <2>2 DEF IsTail
    <2>4. \A k \in 1 .. n + 1 : k \in 1 .. Len(q) + Len(o) /\ k <= Len(q)
        BY <1>1, <1>2
    <2>5. \A k \in 1 .. n + 1 : e[k] = q[k]
        BY <2>1, <2>4
    <2>6. Len(q) + Len(o) = n + 2
        BY <1>1, <1>2
    <2> QED BY <1>1, <2>1, <2>2, <2>3, <2>5, <2>6
<1> HIDE DEF e
<1>4. Unquote(e) = SubSeq(e, 2, n + 1)
    <2>1. Len(e) >= 2 /\ Len(e) - 1 = n + 1 /\ 1 \in 1 .. n + 1
        BY <1>1, <1>3
    <2>2. e[1] = Quote /\ e[Len(e)] = Quote
        BY <1>2, <1>3, <2>1
    <2> QED BY <2>1, <2>2 DEF Unquote
<1>5. SubSeq(e, 2, n + 1) = v
    <2> DEFINE l == SubSeq(e, 2, n + 1)
    <2>1. 2 \in Nat /\ n + 1 \in Nat /\ 1 <= 2 /\ n + 1 <= Len(e) /\ (n + 1) - 2 + 1 = n
          /\ (2 <= n + 1 <=> 1 <= n)
        BY <1>1, <1>3
    <2>2. /\ l \in Str /\ Len(l) = IF 2 <= n + 1 THEN (n + 1) - 2 + 1 ELSE 0
          /\ \A k \in 1 .. (n + 1) - 2 + 1 : l[k] = e[2 + k - 1]
        BY <1>3, <2>1, PartIsText
    <2> HIDE DEF l, n
    <2>3. Len(l) = n
        BY <1>1, <2>1, <2>2
    <2>4. ASSUME NEW k \in 1 .. n PROVE l[k] = v[k]
        <3>1. 2 + k - 1 = 1 + k /\ 1 + k \in 1 .. n + 1
            BY <1>1
        <3>2. l[k] = e[2 + k - 1]
            BY <2>1, <2>2
        <3>3. e[1 + k] = q[1 + k] /\ q[1 + k] = v[k]
            BY <1>2, <1>3, <3>1
        <3> QED BY <3>1, <3>2, <3>3
    <2>5. Len(l) = Len(v)
        BY <2>3 DEF n
    <2>6. l = v
        BY <2>2, <2>3, <2>4, <2>5, SameText
    <2> QED BY <2>6 DEF l
<1> QED BY <1>3, <1>4, <1>5 DEF e, q, o, Quoted

(* A parameter sent twice is as if it were sent once.                      *)
LEMMA TwiceIsOnce ==
    ASSUME NEW p \in Str, 1 <= Len(p), Undelimited(p)
    PROVE  parseBody((p \o <<Ampersand>>) \o p) = parseBody(p)
<1> DEFINE o == One(Ampersand)
           q == p \o o
           e == q \o p
           n == Len(p)
<1>1. o \in Str /\ Len(o) = 1 /\ o[1] = Ampersand /\ n \in Nat /\ 1 <= n
    BY OneIsText, TextIs DEF Char, Ampersand
<1> HIDE DEF o
<1>2. /\ q \in Str /\ Len(q) = n + 1 /\ q[n + 1] = Ampersand
      /\ \A k \in 1 .. n : q[k] = p[k]
    <2>1. /\ q \in Str /\ Len(q) = n + Len(o) /\ IsTail(o, q, n)
          /\ \A k \in 1 .. n + Len(o) : q[k] = IF k <= n THEN p[k] ELSE o[k - n]
        BY <1>1, ConcatIsText, JoinedIsTail
    <2> HIDE DEF q, n
    <2>2. 1 \in 1 .. Len(o) /\ \A k \in 1 .. n : k \in 1 .. n + Len(o) /\ k <= n
        BY <1>1
    <2>3. o[1] = q[n + 1]
        BY <2>1, <2>2 DEF IsTail
    <2> QED BY <1>1, <2>1, <2>2, <2>3
<1> HIDE DEF q
<1>3. /\ e \in Str /\ Len(e) = (n + 1) + n
      /\ \A k \in 1 .. n + 1 : e[k] = q[k]
      /\ \A k \in 1 .. n : e[(n + 1) + k] = p[k]
    <2>1. /\ e \in Str /\ Len(e) = Len(q) + n /\ IsTail(p, e, Len(q))
          /\ \A k \in 1 .. Len(q) + n : e[k] = IF k <= Len(q) THEN q[k] ELSE p[k - Len(q)]
        BY <1>2, ConcatIsText, JoinedIsTail
    <2> HIDE DEF e
    <2>2. \A k \in 1 .. n + 1 : k \in 1 .. Len(q) + n /\ k <= Len(q)
        BY <1>1, <1>2
    <2>3. \A k \in 1 .. n : p[k] = e[Len(q) + k]
        BY <2>1 DEF IsTail
    <2> HIDE DEF n
    <2> QED BY <1>2, <2>1, <2>2, <2>3
<1> HIDE DEF e
<1>4. /\ n + 1 \in 2 .. Len(e) /\ (n + 1) - 1 = n /\ n \in 1 .. n + 1 /\ n + 1 \in 1 .. n + 1
      /\ n \in 1 .. n /\ n \in 0 .. Len(e) /\ n + 1 \in 0 .. Len(e) /\ Len(e) - (n + 1) = n
    BY <1>1, <1>3
<1>5. e[n + 1] = Ampersand /\ e[(n + 1) - 1] # Ampersand
    <2>1. e[n + 1] = Ampersand /\ e[n] = p[n]
        BY <1>2, <1>3, <1>4
    <2> QED BY <1>4, <2>1 DEF Undelimited
<1>6. SubSeq(e, 1, n) = p
    <2> DEFINE l == SubSeq(e, 1, n)
    <2>1. l \in Str /\ Len(l) = n /\ \A k \in 1 .. n : l[k] = e[k]
        BY <1>3, <1>4, TextIsCut
    <2> HIDE DEF l
    <2>2. \A k \in 1 .. n : l[k] = p[k]
        <3>1. \A k \in 1 .. n : k \in 1 .. n + 1
            BY <1>1
        <3> QED BY <1>2, <1>3, <2>1, <3>1
    <2>3. l = p
        BY <2>1, <2>2, SameText
    <2> QED BY <2>3 DEF l
<1>7. SubSeq(e, (n + 1) + 1, Len(e)) = p
    <2> DEFINE r == SubSeq(e, (n + 1) + 1, Len(e))
               m == n + 1
    <2>1. m \in 0 .. Len(e) /\ Len(e) - m = n
        BY <1>4
    <2>2. /\ r \in Str /\ Len(r) = Len(e) - m
          /\ \A k \in 1 .. Len(e) - m : r[k] = e[m + k]
        BY <1>3, <2>1, TextIsCut
    <2>3. \A k \in 1 .. n : e[m + k] = p[k]
        BY <1>3
    <2> HIDE DEF r, m
    <2>4. Len(r) = n /\ \A k \in 1 .. Len(r) : r[k] = p[k]
        BY <2>1, <2>2, <2>3
    <2>5. r = p
        BY <2>2, <2>4, SameText
    <2> QED BY <2>5 DEF r
<1>8. parseBody(e) = Over(parseBody(SubSeq(e, 1, (n + 1) - 1)),
                          parseBody(SubSeq(e, (n + 1) + 1, Len(e))))
    BY <1>3, <1>4, <1>5, ParseIsCut
<1>9. parseBody(e) = Over(parseBody(p), parseBody(p))
    BY <1>4, <1>6, <1>7, <1>8
<1>10. parseBody(p) \in Maps
    <2>1. 1 \in 1 .. Len(p) + 2
        BY <1>1
    <2> QED BY <2>1, ParseDef DEF parseBody
<1> HIDE DEF n
<1>11. Over(parseBody(p), parseBody(p)) = parseBody(p)
    BY <1>10, OverIs, NothingIsText
<1> QED BY <1>9, <1>11 DEF e, q, o, One

(* Whatever its name and its value contain, a parameter that is encoded    *)
(* arrives as it was sent, and one in a quoted cookie loses its quotes.    *)
THEOREM PairsSurvive == Spec => []PairSurvives
<1>1. TextInv => PairSurvives
    <2> SUFFICES ASSUME text \in Str, NEW i \in 0 .. Len(text)
                 PROVE  LET name  == SubSeq(text, 1, i)
                            value == SubSeq(text, i + 1, Len(text))
                            body  == Encode(name, TRUE) \o <<Equals>> \o Encode(value, FALSE)
                            quoted == Encode(name, TRUE) \o <<Equals>>
                                        \o Encode(<<Quote>> \o value \o <<Quote>>, FALSE)
                        IN  /\ parseBody(body \o <<Ampersand>> \o body) = [n \in {name} |-> value]
                            /\ parseCookie(quoted \o <<Semicolon, Space>>)
                                  = [n \in {name} |-> value]
        BY DEF TextInv, PairSurvives
    <2> DEFINE name  == SubSeq(text, 1, i)
               value == SubSeq(text, i + 1, Len(text))
               a == Encode(name, TRUE)
               b == Encode(value, FALSE)
               c == Encode(Quoted(value), FALSE)
    <2>1. name \in Str /\ value \in Str
        BY TextIsCut
    <2> HIDE DEF name, value
    <2>2. Quoted(value) \in Str /\ Unquote(Quoted(value)) = value
        BY <2>1, UnquoteQuoted
    <2>3. /\ a \in Str /\ Plain(a) /\ percentDecode(a) = name
          /\ b \in Str /\ Plain(b) /\ percentDecode(b) = value
          /\ c \in Str /\ Plain(c) /\ percentDecode(c) = Quoted(value)
        BY <2>1, <2>2, EncodeIs
    <2> HIDE DEF a, b, c
    <2>4. ASSUME NEW key, NEW val
          PROVE  emplace(key, val, NoParams) = [n \in {key} |-> val]
        <3>1. {key} \cup DOMAIN NoParams = {key}
            BY NoParamsIsMap
        <3> QED BY <3>1 DEF emplace
    <2>5. parseBody((Pair(a, b) \o <<Ampersand>>) \o Pair(a, b)) = [n \in {name} |-> value]
        <3>1. /\ Pair(a, b) \in Str /\ 1 <= Len(Pair(a, b)) /\ Undelimited(Pair(a, b))
              /\ KeyOf(Pair(a, b)) = name /\ ValueOf(Pair(a, b), FALSE) = value
            BY <2>3, PairIsSplit, PairIsUndelimited
        <3> DEFINE p == Pair(a, b)
        <3>2. parseBody((p \o <<Ampersand>>) \o p) = parseBody(p)
            BY <3>1, TwiceIsOnce
        <3>3. parseBody(p) = emplace(name, value, NoParams)
            BY <3>1, BodyIsOneParam
        <3> QED BY <2>4, <3>2, <3>3
    <2>6. parseCookie(Pair(a, c) \o <<Semicolon, Space>>) = [n \in {name} |-> value]
        <3>1. /\ Pair(a, c) \in Str /\ 1 <= Len(Pair(a, c)) /\ Undelimited(Pair(a, c))
              /\ KeyOf(Pair(a, c)) = name
              /\ ValueOf(Pair(a, c), TRUE) = Unquote(percentDecode(c))
            BY <2>3, PairIsSplit, PairIsUndelimited
        <3>2. ValueOf(Pair(a, c), TRUE) = value
            BY <2>2, <2>3, <3>1
        <3> DEFINE p == Pair(a, c)
        <3>3. parseCookie(p \o <<Semicolon, Space>>) = emplace(name, value, NoParams)
            BY <3>1, <3>2, CookieIsOneParam
        <3> QED BY <2>4, <3>3
    <2>7. Pair(a, b) = a \o <<Equals>> \o b /\ Pair(a, c) = a \o <<Equals>> \o c
        BY DEF Pair, One
    <2>8. c = Encode(<<Quote>> \o value \o <<Quote>>, FALSE)
        BY DEF c, Quoted, One
    <2> QED BY <2>5, <2>6, <2>7, <2>8 DEF a, b, name, value
<1> QED BY <1>1, TextInvariant, PTL

=============================================================================
