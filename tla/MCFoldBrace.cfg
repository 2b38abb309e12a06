\* libinjection_sqli.c:1675-1676: what the rule for a brace strips.
CONSTANTS
    Tokens <- BraceStreams
    Phrases <- MCPhrases
    Underscored <- MCUnderscored
    MaxRead = 5
SPECIFICATION Spec
PROPERTIES
    StripsBraceAndWord
\* The function has returned.
CHECK_DEADLOCK FALSE
