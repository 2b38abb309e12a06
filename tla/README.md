# A verification development for WAF-wasm

WAF-wasm is an Envoy filter, compiled to WebAssembly, that blocks requests with
an SQL injection in their headers, cookies, path or form body. This directory
holds TLA+ models of the filter, TLC configurations that check them on small
instances, and proofs checked by TLAPS. Paths below are relative to the
repository's root.

## 1. The system

| component | source | state it keeps | operations |
|---|---|---|---|
| root context | `WAF_wasm.cc` 27-37, 58-80 | one `Config`, live, edited in place | `onConfigure`, `onStart` |
| stream contexts | `WAF_wasm.cc` 39-54, 82-177 | a copy of the `Config`, the content type | `onCreate`, `onRequestHeaders`, `onRequestBody`, `onResponseHeaders`, `onDone`, `onLog`, `onDelete` |
| configuration parser | `utility/config_parser.cc` | none; writes through a pointer into the root's `Config` | `parseConfig`, `validate_config_field` |
| HTTP parameter parser | `utility/http_parser.cc` | none | `percentDecode`, `parseParameters`, `parsePath`, `parseBody`, `parseCookie` |
| detection over parameters | `utility/sqli.cc` | none | `detectSQLiOnParams`, `pickKeysForDetection`, `detectSQLi` |
| libinjection: driver | `libinjection_sqli.c` 1890-2325 | fingerprint, statistics | `libinjection_is_sqli`, `_fingerprint`, `_blacklist`, `_not_whitelist` |
| libinjection: folding | `libinjection_sqli.c` 1314-1888 | eight token slots, `pos`, `left`, the last comment | `libinjection_sqli_fold` |
| libinjection: tokenizer | `libinjection_sqli.c` 400-1257 | a position in the input | `libinjection_sqli_tokenize` and one parser per kind of character |
| tables | `libinjection_sqli_data.h` | none (generated) | word and fingerprint lookup |

**How they interact.** The host calls `onConfigure` on the root context, once
at start and again when the plugin's text is replaced; `parseConfig` edits the
root's `Config` through a pointer. The host creates a context for every HTTP
stream; `onCreate` copies the root's `Config`. The callbacks of many streams are
interleaved in one single-threaded VM. `onRequestHeaders` parses the cookies and
the path, and hands the parameters of each part to `detectSQLiOnParams`, which
runs libinjection on the names and values that the policy selects. `onRequestBody`
does the same for each buffer of the body if the content type that
`onRequestHeaders` recorded is that of a form. A refusal is a local reply and a
return value that stops the stream; a pass is `Continue`. Inside libinjection
the driver calls the folding, which calls the tokenizer for one token at a time,
and looks the resulting string of types up in a table.

**What is hard.**

* `parseConfig` works in place: what a refused document leaves behind, and what
  an exception in the middle of an assignment leaves behind, is what the next
  stream copies. Without exceptions in the build a JSON type error ends the VM.
* A stream's callbacks are interleaved with other streams' and with
  reconfigurations; `content_type_` is written by one callback and read by later ones.
* The body arrives in buffers cut anywhere; each is judged on its own and passed on at once.
* A response may begin before the body is complete, a stream may be reset, the VM may trap.
* The scanners look ahead of their index at the end of a text, each by another distance.
* One struct serves up to five parses of an input; what decides on the next is left in it by the last.
* `libinjection_sqli_fold` is one loop around some thirty rules that shorten an
  array used as a stack, with unsigned indices, tokens left above the top, and
  rules that go back to the bottom. It must neither leave the array nor loop.

**What makes each component correct.** The root context: every policy in force
is one that a single document asked for (or the default), and a refused document
is a prefix of an accepted one. The parser: it finds exactly the parameters that
are there, decoded. The filter: nothing is forwarded that the stream's policies
object to, nothing is blocked without a part to name, a blocked stream is over,
and each stream is answered. The folding: it stays in its array, counts only
tokens, leaves no pair its rules promise to remove, and returns. The tokenizer: each
call moves on and stays in the input, and a token ends where its own marks say.
The driver: it tries every context an input calls for, by the counters of the
parse just made, and decides every input.

## 2. Modules

| module | models | extends |
|---|---|---|
| `Params` | the two container types of `utility/common.h` | |
| `ConfigParser` | `parseConfig` as a function from a JSON value and the `Config` before to a status and the `Config` after | `Params` |
| `RootContext` | the root context: `onConfigure` as the one action | `ConfigParser` |
| `HttpParser` | `http_parser.cc` as operators on sequences of bytes | `Params` |
| `Sqli` | `sqli.cc` for an arbitrary detector | `Params` |
| `WafFilter` | the stream contexts, the root context and the host around them | `RootContext`, `HttpParser`, `Sqli` |
| `Gate` | what the filter is for: a gate that judges messages by one policy, without the code | |
| `WafGate` | the filter seen as a `Gate`: the refinement mapping | `WafFilter` |
| `Fold` | `libinjection_sqli_fold`, one action per rule | |
| `Tokenizer` | `libinjection_sqli_tokenize` and its parsers, as operators on sequences of characters | |
| `IsSqli` | `libinjection_is_sqli`: the parses in up to five contexts, the fingerprint, its lookup and the whitelist | `Fold`, `Tokenizer` |
| `LeastTheorems` | lemmas about least and greatest elements, induction, and functions defined by recursion | |
| `RootProofs`, `WafProofs` | theorems about `RootContext` and `WafFilter` | the module they are about |
| `GateProofs` | that `WafFilter` implements `Gate` | `WafGate` |
| `FoldProofs` | theorems about `Fold` | `Fold` |
| `HttpProofs` | theorems about `HttpParser`, for texts of any length | `MCHttpParser` |
| `TokenizerProofs`, `IsSqliProofs` | theorems about one call of the tokenizer, and about `IsSqli` | `IsSqli`, `FoldProofs` |
| `MC...` | instances for TLC | the module they name |

**`ConfigParser` and `RootContext`.** `root`, `vm` are `config_` and whether the
VM runs; `given` and `answered` are history: the documents delivered and what
`onConfigure` returned. A JSON value is a record with a kind, since the parser
can only tell kinds, members, strings and arrays apart. A "throw" outcome keeps
what was assigned before it: `*include` is written before the keys are read.
What the host does after a refusal is not in the repository; both keeping the
plugin in service and taking it out are allowed. `Config::content_type` is never
read and is left out.

**`HttpParser`.** The while loops are recursive functions on the start index. The
lookahead of `percentDecode`, its eight-bit arithmetic (letters beyond F are
accepted and wrap), `emplace` keeping the first of several names, the spaces
skipped after a semicolon, and the quotes removed after decoding are as in the
code.

**`WafFilter`.** `config` and `content_type_` are the members of a stream's
context. The others are the host's side: `phase` is where the stream is in its
callbacks, `request` what the client sent, `unread` the part of the body still
to be delivered, `upstream` what the server has received, `blocked` the argument
of `onSQLi`, `response` what the client has received. `OnRequestBody(s, n)`
delivers the next `n` bytes for any `n`, so a body is cut in every way.
`HeaderVerdict` is the chain of checks of `onRequestHeaders` with its line 129 as
it stands: the check under the path policy is given the cookies. The host is
modelled from the callbacks and return values the filter uses: what `Continue`
lets pass is upstream at once, nothing passes after a local reply, a reply
reaches the client only if no response has begun, a trap makes the host answer
503, and either side may reset the stream at any time. `getRequestHeader` gives
the first value of a name. Header names arrive in lower case, as HTTP/2 and Envoy
have them. The detector is a constant operator: the properties of the filter hold
for any.

**`Gate` and `WafGate`.** `Gate` says in its own words what the filter promises:
a message is judged by the policy that was in force when it began; its head passes
only if that policy lets it and is refused only if the policy has something to refuse it for;
then its body passes in pieces, none lost, doubled
or out of order, each exactly when the policy allows it; the first that is not
allowed ends it. There are no callbacks, no content type remembered from one to the next, no
parser and no detector. `WafGate` maps `phase` to a verdict and the context's
copy to the policy; what is allowed is stated by the policies (`HeadersClean`,
`Clean`), while `WafFilter` decides by the code's chain of checks. `HeadMayPass` asks
for clean headers and cookies, `HeadMayBeRefused` for an injection in what the header or path policy
inspects, or in any cookie. Between the two lie the two promises of the README that the code does
not keep, and of which the run `filter_path` tells: that the path is inspected, and that an excluded
cookie is not. The gate leaves these two open, so it demands neither
of line 129 as it stands nor of the line repaired: with the path's parameters in place of the cookies
`filter` passes as well, and `filter_path` finds no violation any more.

**`Fold`.** `tokenvec`, `pos`, `left`, `more` and `last_comment` are the
function's variables; `pc` is the place in the loop, `result` the return value.
Each call of the tokenizer is a step that stores any token, or the end, which
clears the slot. Texts are abstract: the rules compare them with words only.
`PairOrder` and `TripleOrder` are the two else-if chains, `PairCondition` and
`TripleCondition` their conditions; the rule taken is the first that applies,
whether or not it then changes anything. The code's `assert`s are conditions of
the properties, not guards. The table of phrases is a parameter. The field
`stats_folds` and the counters of the tokenizer are read only by the driver and
are left out here.

**`Tokenizer`.** An input is a sequence of characters, an offset is the code's.
Each parser is an operator from the input and the offset to the token it leaves
and the offset it returns. A `memchr` or a while loop that looks for something is
the least offset that has it; a pointer that may be `NULL` is the length of the
input. `ClosingQuote` stands for the loop of `parse_string_core` from quote to
quote: it says which quote the loop stops at. A token keeps its text in upper case
(`val`, by which words are looked up), where it stands and its quotes. `White`
and the other classes hold the zero byte, since `strchr` finds the end of its
string. The word table is the constant `Words`; the binary search over it is
modelled by what it finds. `TokenSize` is 32 in the code.

**`IsSqli`.** `s`, `flags`, `scan` (`sf->pos`), the two comment counters and
`fingerprint` are the struct's fields; `phase` is the place in
`libinjection_is_sqli`; `parses` is history: the contexts tried and how many tokens each read.
`TokenIsRead` is a step of `Fold` in which the environment is replaced by one call
of `Tokenizer`: the modules are composed by taking `Fold`'s `Skip` and `Fetch` at the
token that call returns. `InputIsUsedUp`, `TokensAreFolded` and `FingerprintIsMade` complete
`libinjection_sqli_fingerprint`; the four that follow are the nested conditions
of `libinjection_is_sqli`, each beginning the next parse with `Reset`. `detectSQLi` (`sqli.cc`
3-8) is `DetectInit` and the verdict. The model's tokens and verdicts were compared
with those of the compiled library on some hundred thousand random inputs over
the alphabets of the runs; that comparison found the rule for `IF` to hold for every
function that begins with those letters, which is now `IfWords`.

## 3. Runs

| run | instance | what it shows |
|---|---|---|
| `root_configure` | any two of 138 documents (or none), one after the other: each way to write a section, alone and before or after another | `PartsFromOneDocument`, `RefusalIsAPrefix`, `AcceptedPartsApply`, `RootTypeOK` |
| `http_parser` | every text of up to 5 of 9 characters; every byte after each text of up to 2 for the decoding | the parser agrees with definitions by positions (`FirstOccurrenceWins`), `PathIsItsQuery`, `PairSurvives`, `CutAtDelimiter`, `DecodeIsLocal`, `DecodeInvertsEncode` |
| `filter` | two streams, seven requests, four documents, two reconfigurations, every way to cut a body of four bytes | `ForwardedHeadersClean`, `ForwardedChunksClean`, `BlockNamesThePart`, `BlockedIsRefused`, `SnapshotIsCoherent`, `BlockedIsFinal`, `TypeOK`, and `ImplementsGate`: the filter refines `Gate` |
| `filter_liveness` | two streams, three requests, a document that may trap the VM between any two callbacks | `EveryStreamIsAnswered` |
| `fold` | every stream of up to 3 of 32 tokens, one at least for each condition of a rule | `WindowInBounds` (three tokens reach its lower bounds, `is_sqli` the upper one), `NoHoleInFingerprint`, `CommentEndsFingerprint`, `NoTwinsLeft`, `TypeOK`, `Terminates`, `FoldingAdvances` |
| `is_sqli` | some 6,800 inputs in ten families: each group of parsers over the characters it tells apart, short sentences, SQL types before tokens that change theirs, and the five-token cases with what may follow and texts of more tokens than the array keeps | `WindowInBounds`, `ScanAdvances`, `StringEndsAtItsQuote`, `CommentIsWhole`, `QuotedContextIsPrefixedInput`, `CountersAreOfThisParse`, `NothingLeftUntried`, `FingerprintIsInOrder`, `DetectTypeOK`, `Decides`, `DetectionAdvances` |

Six runs end in a violation; each checks a sentence of the documentation, the
tests or a comment against what the code does:

| run | the sentence | what the code does |
|---|---|---|
| `root_defaults` | README.md 98-99: a part nothing is passed for has the default configuration | it keeps what an earlier document asked for |
| `filter_path` | README.md 96-101 and `main.go` 44-53, 76-81: detection on the entire path, and none on an excluded cookie | the path's parameters are parsed and never inspected, the check under their policy inspects all the cookies (`WAF_wasm.cc` 129): TLC shows the injection in a path that reaches the server, and without the request with that path an excluded cookie that blocks one |
| `filter_body_empty` | `integration-test.go` 250: the server receives an empty body | buffers before the refused one have been forwarded |
| `filter_whole_body` | README.md 100-101: all query parameters in the body | a parameter that spans two buffers is never seen whole |
| `fold_brace` | `libinjection_sqli.c` 1675-1676: strip away the `{ foo` part | two tokens are taken off the top, while the brace may be further down |
| `tokenizer_tags` | `libinjection_sqli.c` 1068: we have `$foobar$` ... find it again | the tag is looked for from an offset of the input and over a length that are not counted from the token (1071), so the string ends elsewhere unless it begins the input |

Met while modelling, without a run of their own: the README's example
configuration (79-91) is refused, since the code looks for `content-type` and the
example has `Content-Type`; DEPLOY.md 123 announces a header `filter: WAF_wasm` that nothing adds;
`libinjection_sqli.h` 253 says folding gives up to five tokens, while the return
for an empty word after a brace (`libinjection_sqli.c` 1673) can give six; and
several rules besides the one for a brace (SQL types, comparisons, variables,
lists) match at `left` but shorten the stack at its top, which may be further up. The one for SQL
types (1609-1610) then leaves the token after the type twice and loses another: `\ int \ -`
has the fingerprint `11` and both ones are the second backslash, and `a int like ((1` has
`nff1`. This is why `FingerprintIsInOrder` allows a token to stand beside itself; with a
strict order TLC finds the first of these, and the compiled library does the same. In the tokenizer and the driver: a comment that is not
closed is never taken for a nested one, because the length of the inner search wraps
round; `libinjection_sqli_not_whitelist` looks for the character after a number
(2126) at the length of the number's token, which is that character only if the
number begins the input; the rule for `IF` looks at two letters of a function's name; and
`strchr` puts the zero byte into every class of characters.

**Bounds, and why they are enough.** `MaxConfigures = 2`: every property of the
root context relates one document to the `Config` before it, and two documents
already leave any of the policies behind. Two streams: what one stream could do to another
goes through the one root context or through shared members, and two are enough
to show it; the streams are interchangeable, so `filter` uses symmetry (no liveness is
checked there). The detector of the instances takes two x's in a row for an
injection: the shortest verdict that a buffer boundary can cut in two. `MaxLength = 5` is
one more than the longest thing the parser treats as a unit, an escape and its
neighbour. `MaxRead = 3` fills the longest window of the rules once with each
combination of tokens; longer streams, which fill the array, are in `is_sqli` (`Long`)
and, for every length, in the theorems about `Fold`. In `is_sqli` `MaxRead` is 40
and never reached, as no input has that many tokens; `Tokens` is empty, since the tokenizer takes the place of
`Fold`'s environment; `TokenSize = 8` stands for 32 so that words, comments and numbers
longer than a token occur; and the lengths are the shortest at which each
construct can be opened, closed, doubled or escaped, and followed by another: six characters
for quotes with backslashes and for comments, three or four for the others. The
theorems of section 5 remove the bounds of the safety properties they state.

**Deadlock.** Every run turns the check off: the folding returns, documents run
out, texts stop growing, and a VM that has trapped serves nobody.

## 4. Fairness

`filter_liveness` assumes weak fairness of each stream's callbacks, of the
server's answer, of the host's failing the streams of a trapped VM and of the
destruction of a finished stream. The first holds because the host is an event
loop that delivers what it has received, one callback at a time; the filter
returns from each callback. A client that never sends its body is a stream that
times out, which here is `Reset`, and a reset stream counts as ended. Nothing is
assumed of clients, of configuration or of resets. `Terminates` assumes weak
fairness of the whole of `Next` in `Fold`: one sequential function that keeps
running. The input is finite (`MaxRead`), so a loop can only come from the rules.
`Decides` assumes the same of `DetectNext` in `IsSqli`, for the same reason; there the input
is a finite text and nothing else bounds the loop.

## 5. Proofs

`tlapm` checks every leaf. The assumptions are about constants only:
`NamesAssumption` and `DocumentsAssumption` (the strings of the program and of
the documents' lists are strings), `RequestsAssumption` (names, values and bodies
of requests are strings), `NoPolicyAssumption` (no policy is the mark for none), `TokensAssumption` (the tokenizer returns tokens: a type
of `sqli_token_types` and a text), `MaxReadAssumption` (there are finitely many) and `PhrasesAssumption` (a phrase of the table
is a token and no comment), `InputsAssumption` and `WordsAssumption` (inputs are
sequences of characters, and no word of the table is a comment or unparsable) and
`TokenSizeAssumption` (a token has room for a character and a zero) and `AlphabetAssumption`
(the characters texts are made of are bytes). Nothing is assumed of how many documents, requests,
streams, tokens or phrases there are, of how long texts are, or of the detector.

* `RootProofs`: `NoTornPolicy`, `AcceptedApplies` and `RefusedIsPrefix` - the
  three properties of `RootContext` hold of any documents and any number of calls,
  and `RootTyping` its types.
  `FieldOutcome` and `BodyOutcome` say, by cases on the kinds of the JSON values,
  what validating a section does: refused, it has not touched its policy; accepted,
  the policy is what the section asks for; a trap may tear it. `ParseOutcome`
  joins the four sections: the first that is not accepted is where the effect
  ends. `PartsFromOneDocument` with `RootTypeOK` is inductive.
* `WafProofs`: `HeadersForwardedClean`, `ChunksForwardedClean`, `Refusal`,
  `CoherentSnapshots`, `RefusalIsFinal` and `WafTyping` - what the run `filter`
  checks, except what is proved in `GateProofs`, holds of any detector, any traffic and any
  number of streams.
  The properties are not inductive: that a piece of the body was inspected needs
  to know that `content_type_` is the one of this request whenever a piece can
  arrive, and that a blocked stream gets no callback. `Good(s)` adds that for one
  stream, in the words of the code's own checks; `OthersAreSame` says that a
  stream's step leaves the others alone, and each action has a lemma that it
  keeps its own stream good. `DetectIsNotClean` and `HeadersCheck` then say that
  what the checks let pass is what the policies call clean; with several headers of
  one name this rests on `LeastTheorems`.
* `GateProofs`: `FilterIsGate` - every behaviour of `WafFilter` is one of `Gate`
  under the mapping. The initial states map by definition; each action has a lemma
  that it is the step of `Gate` it should be, or none. The proof uses the
  invariants of `WafProofs`: a stream that can receive a piece of its body has
  passed its head and has recorded its own content type; the chain of checks of
  `onRequestHeaders` passes only what `HeadMayPass` and refuses only what `HeadMayBeRefused`
  (a policy that objects to a text would object to it with nothing left out, `EverythingIsMore`);
  and a buffer is refused exactly when the policy objects to it.
  `BlockedForTheNamedPart` - `BlockNamesThePart` is an invariant. For headers, cookies and bodies the named
  part is the one its policy objects to; for a block named "path" the property says that the policy
  objects to the path or that a cookie holds an injection, since it is the cookies that line 129 inspects. That the refused buffer
  is what lies between the received and the unread needs where every byte of the body
  is: `AllAccounted` says that the pieces passed on, the buffer in question if there
  is one, and the unread rest are the body; `FlattenAppends` and `MiddleIsFound` are what
  joining and cutting come to.
* `FoldProofs`: `Typing`, `Bounds`, `Fingerprint`, `Comments` - the properties
  `TypeOK`, `WindowInBounds`, `NoHoleInFingerprint` and `CommentEndsFingerprint`
  are invariants of `Spec`. They are not inductive: that a rule takes off no more
  than there is needs to know that the window is in the stack, that the slots
  below `pos` hold tokens and no comment, and that the value returned is `left` or
  lies within `pos`. `Inv` is the conjunction (`TypeOK`, `WindowInBounds`, `Proper`,
  `Returning`, and the two fingerprint properties). `Continues` states once what every step that goes on does,
  `RewriteInv` what a rule must supply, and `PairInv` and `TripleInv` go through
  the rules.
  `NoTwins` - `NoTwinsLeft` is an invariant. Every rule may expose
  a pair that was not adjacent before. `Quiet` says that the pairs which begin below `Looked`
  have no twins; `Room` says that reading stops only with something left to look
  at, so that none is skipped when the input ends. A rule that drops tokens
  goes back far enough, or gives a token a type without a rule for twins.
  `FoldingReturns` - `FoldingAdvances`: every step decreases nine numbers, read as one number is,
  from the left. What is left to read, whether the end has been reported and the height of the
  stack account for most steps; the rules that change a type and look again take
  nothing off. A backslash that becomes a number and a name that becomes an SQL type
  make fewer of what no rule makes more of. IF, IN and the function words move neither `left` nor
  `pos`: `RetypedOnce` says that none of those three rules applies to what they leave, whichever
  of them it was. A window that cannot be filled is given up, and the head of the loop then ends it.
* `TokenizerProofs`: `TokenizerIsGood` - one call of the tokenizer, at any position
  of any input and in any context, returns a token whose text stands between the old
  position and the new one, which is further on and within the input, and fits
  its array. `Good` is that promise; each search has a lemma that bounds what it
  returns, and each of the parsers one that it keeps the promise. A word needs that
  its first character begins one (`BeginsWord`), which `WordEndsAreParsed` supplies: every
  character that ends words has a parser of its own. `ReturnedIsWhole`, `ReturnedEnds` and
  `QuotedStartIsPrefixed` are the lemmas about comments, strings and quoted contexts. For strings
  two readings are shown to agree: the code's, which jumps from quote to quote and looks back
  over backslashes, and that of the property, which goes forward unit by unit; within a
  stretch of backslashes or quotes every other character begins a unit. For quoted contexts the
  forward reading is shown not to depend on where in a text it takes place.
* `IsSqliProofs`: `DetectTyping`, `ScanProgress`, `DetectBounds`, `FoldingIsSafe` and `FingerprintOrdered` - the types,
  `ScanAdvances`, that the array of tokens is not overrun in any parse nor between two, that the folding keeps `WindowInBounds`, `NoHoleInFingerprint`
  and `CommentEndsFingerprint` over the tokens the tokenizer really returns, through all the
  parses, and `FingerprintIsInOrder`. The invariant is `Fold`'s while a parse runs (`ParseInv`): `SkipInv` and `FetchInv` of
  `FoldProofs` hold for any token, `TokenizerIsGood` says it is one, and `ClearedInv` that each parse
  begins as the folding does. For the order, `RulesMoveTexts` says that every rule leaves
  each slot with its own text or that of the next one, which cannot swap two;
  `StackOrder` adds that what is read stands after the stack and the comment remembered,
  and that only the return for an unparsable word gives more than five tokens.
  `CommentsWhole`, `StringsEndAtTheirQuotes` and `QuotedContextsPrefix` carry the lemmas of
  `TokenizerProofs` to the detection. `CountersOfThisParse` rests on `ScanInv`: in a parse,
  the scan is where the first `read` calls from the start of the input lead, and
  `reparse_as_mysql` says what the tokens of those calls say. `NoContextLeftUntried` rests on `TriedInv`, which gives for
  each context being parsed which have been tried before it and why; the five contexts are gone through
  in the order of the code.
  `EveryInputIsDecided` - `DetectionAdvances`: the contexts have ranks and each is followed by one of
  a higher rank; within one, `TokenizerIsGood` says that the scan moves on and `StepIsNearer` of
  `FoldProofs` that the folding between two calls of the tokenizer gets nearer to the next, or to its
  return.
* `HttpProofs`: `DecodingIsLocal`, `DecodingInvertsEncoding`, `FirstOccurrencesWin`,
  `PathsAreTheirQueries`, `BodiesAreCutAtDelimiters`, `PairsSurvive` - what the run
  `http_parser` checks of short texts holds of all, over any bytes. The parser's loops are
  recursive functions of the index, so each proof is an induction over positions: that the
  function exists (`Recursion`), what it is at one index, and then that the set of indices at which
  the claim is true contains them all (`Induction`, `InductionDown`).
  `DecodeJoined` says where decoding may be cut and `ParseFindsFirsts` what the loop
  over parameters finds, and the others follow.
* `LeastTheorems`: a non-empty set of natural numbers has a least element and
  `Min` is it, which is what "the first rule that applies" and "the first header of
  a name" mean; a bounded one has a greatest. From there being a least element follow
  induction, stated about sets of numbers, as the provers can instantiate no theorem
  about operators, and that a function defined by recursion down to a bound exists.

Every safety invariant and action property that a run checks has a theorem.
Only model-checked: liveness (`Terminates`, `EveryStreamIsAnswered`, `Decides`), which is
out of the prover's reach, and what the violating runs show. That `Fold` and `IsSqli` return is proved
as far as their measures go; the step from there to `Terminates` and `Decides`, by fairness
and because such numbers cannot decrease for ever, is not. Not proved at all: that the
tables of the program satisfy the assumptions about them, which is data.

## 6. Not modelled

The 9352 rows of `sql_keywords`, which are generated data, and the binary
search over them, which is taken at what it finds; the fields of the struct that are only
written (`reason`, `stats_folds`, three of the comment counters), and `count`, which the
tokens of variables have and nothing reads; JSON parsing and the rest of the
JSON library, which are third-party code; `onStart`, `to_string`, `printParams`
and all logging; the tests, the build and deployment files. The Envoy
configurations under `src/` name a part `query_param` that `parseConfig` never
reads; they are deployment data and not modelled.

## 7. Plan

Done, in this order of dependence: `ConfigParser`, `RootContext`, `HttpParser`,
`Sqli`, `WafFilter`, `Gate`, `Fold`, `Tokenizer`, `IsSqli`, with the runs above and the
theorems of section 5.

What would come next: the binary search over the word table against its
definition, for any table sorted as the code compares; and the token that the rule for
SQL types leaves twice, as a property of the folding alone once the intended
result is documented.
