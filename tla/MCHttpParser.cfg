\* The characters & ; = % + space " ? a: the ones the parser tells apart, and one more.
CONSTANTS
    Alphabet = {38, 59, 61, 37, 43, 32, 34, 63, 97}
    MaxLength = 5
    MaxEncoded = 2
SPECIFICATION Spec
INVARIANTS
    DecodeInvertsEncode
    DecodeIsLocal
    FirstOccurrenceWins
    PathIsItsQuery
    PairSurvives
    CutAtDelimiter
\* Texts stop growing at MaxLength.
CHECK_DEADLOCK FALSE
