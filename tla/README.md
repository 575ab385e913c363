# Verification of easy-json

TLA+ specifications of the JSON library in `src/json.c` and `src/json.h`, model
checked with TLC on small instances, with theorems about the allocator, the white
space scan, the decoding of strings, the parser, the output buffer, the selector and the
program that composes them proved by TLAPS.
Modelled are the library, from `jsonParse` to `jsonRelease`, the selector of
`src/json-selector.c`, and the program `src/main.c` around them. Every definition is
translated from the C source; where the code does something a comment, the README or
a test says it does not, a run shows it.

## The system

easy-json is a sequential library: one thread, one call at a time, no I/O but
`printf`, nothing persisted. What is hard about it is not concurrency but long
sequences of small steps over shared mutable state: a cursor, an error code that
is set in one function and looked at in another, a "current node" pointer that
three mutually recursive functions overwrite, an arena whose three allocation
paths can alternate in any order, and loops that are vectorised differently
before and after a 16-byte boundary.

| component | source | state | operations | interacts with |
|---|---|---|---|---|
| arena allocator | json.c:59-151 | list of blocks, active block, list of full ones | `jsonAllocatorNew`, `jsonAlloc`, `jsonAllocatorRelease` | called for every node and string; freed as a whole by `jsonRelease` |
| whitespace skipping | json.c:427-608 | position, bytes of the lane | `getNextNonWhitespaceIdx` (SSE2, NEON, naive) | called by the cursor before every token |
| parser cursor | json.c:153-178, 622-689 | `offset`, `errno`, `type`, `ptr` | peek, advance, advance to error, terminator, white space | shared by all parsers below |
| number parser | json.c:365-411, 717-1021 | cursor, current node | `countNumberLen`, `stringToI64`, `stringToHex`, `jsonParseFloat`, `jsonParseNumber` | reads through the cursor, writes `p->ptr` |
| string parser | json.c:1023-1225 | cursor, output buffer | `parseHex4`, `utf8Encode`, `jsonParseUTF16`, `jsonParseString` | allocates its result in the arena |
| value parser | json.c:1227-1504 | call stack, nodes, `p->ptr`, `p->type` | `jsonParseObject`, `jsonParseArray`, `jsonParseValue`, `jsonSetExpectedType`, `jsonParseBool`, `jsonParseNull` | calls itself, the string and the number parser |
| public API | json.c:1676-1679, 1838-2016 | the result tree and `J->state` | `jsonParse*`, `jsonRelease`, getters, `jsonOk` | begins and ends everything |
| serialiser | json.c:180-351, 1512-1591 | growing buffer, recursion over the tree | `jsonString*`, `escapeString`, `jsonToString` | walks the tree, uses `malloc` and not the arena |
| selector | json-selector.c | position in the format, path buffer, a second buffer, variable arguments | `jsonSelect`, `jsonArrayAt`, `jsonObjectAt*` | walks the tree |
| printing, error texts | json.c:1593-1836 | recursion over the tree | `jsonPrint`, `jsonPrintError`, `jsonGetStrerror` | walks the tree, the messages use the serialiser's buffer |
| program | main.c | none of its own | parse, print, report, release | the whole API in one order |
| tests | test.c, test-jsons | none | the unit tests | the API |
| prototypes | parse-number, parse-string, chartest | none | stand-alone experiments | nothing; not linked |

What makes each component correct:

* arena: a span handed out lies in one chunk and overlaps no other; every chunk is
  freed exactly once, at the pointer `malloc` returned; the release ends.
* whitespace: the answer does not depend on where the text lies in memory, no
  lane behind the text is loaded, and the scan ends.
* strings: the two passes agree on the extent of the literal, the copy fits the
  allocation made from the first pass, what is returned is what the literal spells,
  and a NULL result always comes with an error.
* numbers: the value and the kind (int or float) are those written, and the cursor
  does not leave the number.
* values: the nodes form a tree at every moment; in a result, each union holds the
  field its type promises; a result without error is exactly the tree the text
  spells; a document is accepted; parsing stops at the first error; every call
  returns.
* serialiser: the buffer is never overrun and always terminated, in whatever order
  pieces of whatever length arrive; a tree that is written and parsed again is the same.
* selector: the path buffer is not passed, the format is not read behind its end, and
  the value is the one the format's steps lead to.
* program: what a string is copied into is the grant made for it; what a failed parse
  leaves can be walked and printed; every block is freed at the end, whichever way the
  parse ended.

## Modules

| module | models | variables | actions and operators |
|---|---|---|---|
| `JsonArena` | the allocator, block headers with `mem` as an offset in the chunk, unsigned arithmetic modulo `UIntMod` | `phase blocks arena walk freed grants` (`grants`, `freed` are history) | `jsonAllocatorNew`, `jsonAlloc(size)` = `AllocOversized`, `AllocInHead` or `AllocInNewHead`, `ReleaseHead`, `ReleaseNext`, `ReleaseDone` |
| `JsonRegions` | what an arena promises, abstractly | `phase chunks live` | `Open`, `Allocate`, `Close`, `GiveBack`, `Closed` |
| `JsonChars` | the character macros and the error codes | | `isNum`, `isNumTerminator`, `toHex`, ... |
| `JsonCursor` | the text, the cursor record and its operations, white space skipping as one operator | constant input record | `jsonAdvance`, `jsonAdvanceWhitespace`, ... |
| `JsonWhitespace` | the SSE2 loops step by step | `input pc start ptr result` | `FirstByte`, `ByteLoop`, `AtBoundary`, `LaneLoop` |
| `JsonUnicode` | `parseHex4`, `utf8Encode` | | functions on bytes, and UTF-8 as RFC 3629 defines it |
| `JsonString` | `jsonParseString` with `jsonParseUTF16` | `input cur str` | `SizeStep`, `SizeEnd`, `CopyPlain`, `CopyEscape`, `CopyUnicode`, `CopyBadEscape`, `CopyQuote` |
| `JsonNumber` | the number parser | | operators from a cursor to a cursor, a type and a value |
| `JsonParser` | `jsonParseWithLenAndFlags` and all below it; composes `JsonString` (its steps are steps of the parser) and `JsonNumber` | `input cur str pc stack nodes ptr ptype state` | `Begin`, `Enter`, `Element`, `Member`, `Key`, `Value`, `TextValue`, `AfterValue`, `Finish`, `StringRuns` |
| `JsonBuffer` | the growing buffer of json.c:180-266, bytes of the allocation included, `size_t` modulo `SizeMod`; a `realloc` that may fail by constant | `js overrun` | `jsonStringNew`, `jsonStringCatLen`, `jsonStringCatf`, `Extended` (`jsonStringExtendBufferIfNeeded`) |
| `JsonOutput` | `escapeString` and the walks of `jsonToString` and `jsonPrint` over the parser's nodes; extends `JsonParser` and `JsonBuffer` | `js overrun style walk pending stdout` | `VisitScalar`, `VisitContainer`, `ReturnFromWalk`, `WalkEnds`, `Put` |
| `JsonRoundTrip` | parse, write, parse what was written (test.c:234-256); composes the parser with `JsonOutput` | those, and `stage tree` | `Parse`, `Parsed`, `Write`, `ParseAgain`, `Reparsed` |
| `JsonProgram` | `main`: the parser, the walk of `jsonPrint`, the message of the error and the arena, which every allocation of the parser is a call of (`Arena == INSTANCE JsonArena`) | those of parser, output and arena, and `stage` | `jsonParserInit`, `jsonParse`, `jsonPrint`, `ReadsStateOfNull`, `PrintRuns`, `PrintReturns`, `jsonPrintError`, `jsonRelease` |
| `JsonSelector` | `jsonSelect` turn by turn, the lookups | `call pc j ptr next path buf args` | `Start`, `First`, `Segment`, `Character`, `WildIndex`, `WildKey`, `WildType`, `Lookup`, `Undefined` |
| `Json*Proof` | theorems, see Proofs | | |
| `MCJson*` | inputs, meanings of inputs and properties that need them | | |

What extends what: `JsonChars` <- `JsonCursor` <- `JsonUnicode`, `JsonString`,
`JsonNumber` <- `JsonParser` <- `JsonOutput` <- `JsonRoundTrip`, `JsonProgram`;
`JsonWhitespace` shows that the one operator `JsonCursor` has for white space is what the
loops compute. `JsonSelector` works on a tree given as an input.

How state corresponds:

* A text is a sequence of one-character strings; reading at its length gives `NUL`.
  `base` is the address of its first byte modulo the lane, chosen with the input: the
  address is the caller's.
* `cur` is `p->offset` and `p->errno`. The other fields of `jsonParser` are `ptr`
  (`p->ptr`), `ptype` (`p->type`) and `input.strnum` (`p->flags`).
* A C activation of `jsonParseObject` or `jsonParseArray` is a frame with its locals
  `val` and `J`; `pc` says where the innermost one is. Each place where such a function
  calls another, or a loop turns, is a step.
* A `json *` is an index into `nodes`, 0 is NULL. The union carries the field last
  written; what `jsonNew` returns has none (`Uninit`).
* A string is a sequence of units, `<<ch>>` or `<<"utf8", b1, .., bn>>`; its length in
  bytes is counted beside it.
* The bytes after the text in the last SSE2 lane are not the program's: `Mismatches`
  takes them from every subset.
* The value of a float is its two decimal parts and a power of ten, exact; how a
  double rounds them is left out.
* `mem` and `used` of a block are offsets; the oversized path leaves `used` zero and
  `mem` at the chunk's start, as the code does.
* `js.buffer` is a function from the bytes of the allocation; those nobody wrote are
  `Unwritten`. `overrun` is TRUE once a write lies outside it. A text that `"%s"` prints
  ends at its first NUL.
* A C activation of `_jsonToString` or `__json_print` is an element of `walk`: the node
  it is at. One turn of its loop makes several calls that append; `pending` has what
  those still to be made append, and each is a step.
* In `JsonProgram` sizes stand for `sizeof(json)` (`NodeSize`), the error state
  (`StateSize`) and the strings' own lengths. `freeing` is `block` in
  `jsonAllocatorRelease`.
* `jsonSelect`: `path` is `path[0 .. path_len - 1]`, `buf` the bytes of the second buffer
  that were ever written, `args` the variable arguments left. A byte of `buf` nobody
  wrote is any of `Garbage`; an argument that is missing, or a character behind the
  format's NUL, is undefined in C and may give any node. `int` is `IntRange`, where
  `strtol` stops is `LongMax`.

## Runs

Bounds are constants of the modules: `MaxAllocs` calls of `jsonAlloc`, `MaxLen` bytes
written by one string, `MaxDepth` nested containers. `Lane`, `MantissaLimit` and
`MaxPow10` are constants of the code that the small instances shrink so that their
boundaries are reached by short texts: digits up to and beyond a mantissa limit of 4,
exponents up to and beyond a table that ends at 10^8.

| run | instance | shows |
|---|---|---|
| `arena` | blocks of 8 bytes aligned to 2, sizes 1, 3, 5, 8 and 9, up to five calls, `UIntMod` 64 | spans in bounds, apart, aligned; exact frees, each block once; the release ends; `JsonArena` implements `JsonRegions` |
| `whitespace` | lanes of two bytes, all texts of up to six of blank, vertical tab and letter, from every position and alignment | the loops compute the operator used by the parser, load only lanes with text, agree with the naive version on JSON white space, end |
| `unicode` | every four characters of 13 | an escape without decimal digits is decoded to its UTF-8 bytes; `utf8Encode` is right up to U+FFFF |
| `string` | literals of up to three pieces (plain, escaped, `\u`, halves of pairs, bad escapes) with seven tails, and the same cut short behind a piece or behind the backslash of one more escape | the copy fits but for `OpenEscape` and `QuoteInPair`, NULL comes with an error, the decoded text is what is spelled, both passes end but for `StuckOnLast` |
| `number` | ints, floats and hexadecimals with signs, exponents of both signs up to nine digits, and terminators, and every text of up to four characters of numbers; mantissa limit 4, powers to 8 | kind and cursor are right, and the value but for `ExponentUnread`, `BeyondTable` and `NotWhole`; an accepted number does not reach beyond itself |
| `parser` | every sequence of up to five of eight pieces that begins with a bracket and does not end in `[` (see `parser_open_bracket`); all documents up to two containers deep over seven scalars, the nested ones in two further layouts from an even and an odd address; texts cut short in white space at every alignment, and in an escape; malformed scalars; the texts of `test-jsons/invalid*.json` | a tree, from which an accepted text has no node missing, unions, meaning, stopping at errors, returning, also on texts that are no JSON, unless a string is `StuckOnLast`; documents are accepted; each invalid text gets the error `test.c` names |
| `selector` | formats of up to three segments of 29 in a tree of 15 nodes and in one a parse left half built; wildcards, `test.c`'s invalid selections, 18 formats that spell no steps; a path buffer of 4, ints of 8 bits | the path buffer is not passed, a format that ends in a segment is not read behind its end, the value is the one its steps lead to |
| `roundtrip` | documents up to two containers deep with texts to be escaped, floats and empty containers, and texts that are no documents, each written in both styles; a buffer of 4 bytes at first | what comes back is the tree that was written; no overrun, always terminated; the round trip ends |
| `program` | objects of two scalars, arrays with a string longer than a block, nested lists, texts cut short (also in an escape), malformed texts and those of `test-jsons/invalid*.json`; blocks of 9 bytes aligned to 2, nodes of 5 | a string is copied within its own grant; the trees of failed parses print; every block is freed at exit; the program ends, unless a string is `StuckOnLast` |
| `parser_open_bracket` | `[` | violation of `StopsAtError`: `jsonParseArray` calls itself for the same bracket without end |
| `selector_wildcard` | `.a[1].*` with the argument `"b"` | violation of `SelectsMeaning`: the bytes are copied from the other buffer (json-selector.c:236) |
| `program_blank` | a file of four blanks | violation of `HandlesNull`: the NULL `jsonParse` returns is read (main.c:69, json.c:1677), though README.md:48 says `jsonRelease` handles nulls |

Why the bounds are enough. The arena's control depends on whether a size is below,
at or above what is left and the block size; the five sizes take every path and
five calls reach every order of three paths with two full blocks behind them. The
whitespace loops see at most three regions of a text (before a boundary, whole lanes,
the last lane); six characters and lanes of two cover them, twice over for whole lanes.
A string literal of three pieces has every pair of neighbours with something before or
after it, and the passes look one character back and eleven ahead (a pair), which is
within pieces. A call of the value parser depends on its text up to the next token,
its own frame and its caller's; five pieces give every adjacency of tokens in two and
three nested frames. The selector's state between segments is a node, so three segments
have every pair of kinds at two depths; the buffer of four is filled by a key, by
digits, and by characters before and behind digits. The walk of the serialiser depends
on a node's type, on whether it has a key and a next, and on its container; lists of two
in lists of two have them all, and from four bytes the buffer grows at almost every
position of a text. In `program` a node takes more than half a block, so that documents
alternate the arena's three paths.

Excepted from `RoundTrip` by name (`Lost`): control characters, and floats that print
without a point, for both styles; for `jsonToString` also empty containers, keys with a
character to be escaped, and a number in front of a closing brace, which the parser does
not read back. `MCJsonRoundTripLost` and `MCJsonRoundTripControl` show them.

`CHECK_DEADLOCK` is off in every configuration: each behaviour is one call, or one
arena's life, and stops when that is over.

What the code does against its documentation, or against memory, is treated in one of two
ways. Either the input is in the passing run and the property names the exception:

* `OpenEscape`, `QuoteInPair` (`JsonString`): the sizing pass stopped at a backslash that
  is the text's last character (json.c:1150), or a quote was read as the backslash of the
  second half of a pair (json.c:1098). The copy then goes beyond what was allocated.
* `StuckOnLast` (`JsonString`): the copying loop is on the text's last character, from
  which `jsonAdvance` has failed; the loop does not test `errno` (json.c:1166) and writes
  that character for ever. So it is for `["a\`. It is the exception of `StringReturns`,
  `ParseReturns` and `ProgramEnds`, and `NeverUnstuck` proves that it is no temporary one.
* `ExponentUnread`, `BeyondTable`, `NotWhole` (`MCJsonNumber`), `Lost` (`JsonRoundTrip`).

Or the input is left out, or the property asks nothing of it. These are texts that end in
an opening bracket (`parser_open_bracket`), decimal digits behind `\u` and pairs, a closed
literal that ends in an escaped backslash (which `AcceptsMeaning` does not ask to be
accepted), the documents and the accepted texts of `MCJsonParserRejected` and
`MCJsonParserAccepted`, the formats and arguments of `MCJsonSelectorUnread`, a wildcard for
a key (of which `SelectsMeaning` asks nothing; `selector_wildcard`), and the file of blanks
(`program_blank`). Each kind has the run named or a configuration below. Of texts read with
`JSON_STRNUM_FLAG` the `parser` run has one and asks only that the parser keeps its
invariants and returns.

### Further configurations

These are run by hand, `tlc -config X.cfg M` (with `-continue` where several inputs or
properties are named, to see each); each ends in a violation of each property named.

| configuration | module | property | what the code does |
|---|---|---|---|
| `MCJsonArenaWide` | `MCJsonArena` | `OversizedGetsItsOwnBlock` | a size within 7 of 2^32 rounds to 0 and is served from the active block, where json.c:101-102 says it is simply allocated |
| `MCJsonWhitespaceNaive` | `MCJsonWhitespace` | `SameAsSimple` | on text that ends in white space the SSE2 version finds the terminator or not, by address |
| `MCJsonUnicodeMisread` | `MCJsonUnicode` | `HexIsConverted`, `PairEncodes` | a decimal digit is converted as if it were a letter (json.c:1034); four bytes begin with 0xE0 instead of 0xF0 (json.c:1069) |
| `MCJsonStringRefused` | `MCJsonString` | `DecodesMeaning`, `AcceptsMeaning` | the digits of a pair's second half are copied as characters (json.c:1122 tests and does not advance); `"\\"` is not closed by its quote (json.c:1145 looks one character back) |
| `MCJsonStringOverrun` | `MCJsonString` | `CopyFits`, `EveryCallReturns` | on `"a\` the last character is copied for ever (json.c:1166); on `"\uDADA"uDCAB` the quote is swallowed and the copy passes it; on `0,"]`, begun at no quote as with `JSON_STRNUM_FLAG`, the terminator has no room |
| `MCJsonNumberLost` | `MCJsonNumber` | `EveryValueMeant` | the exponent of a float beyond the mantissa limit is lost; `7e-2` is the int 0; a power beyond the table is its own exponent (json.c:406), as in `1e9` and `7.5e10` with a table up to 8 |
| `MCJsonParserBadKey` | `MCJsonParser` | `StopsAtError` | the value of a member whose key failed is parsed |
| `MCJsonParserRejected` | `MCJsonParser` | `AcceptsDocuments` | `[]` is rejected with `JSON_EOF`; `{"k":42}`, since `}` ends no number (json.c:30); `[42]` with `JSON_STRNUM_FLAG`, which is read as a quoted string |
| `MCJsonParserAccepted` | `MCJsonParser` | `OkMeansClosed` | `[[0]`, whose last bracket closes both arrays; `[nope]` as `[null]` |
| `MCJsonSelectorUnread` | `MCJsonSelector` | `SelectsMeaning`, `AnyFormatIsRead` | an index beyond an int selects another element; with an empty argument for the last wildcard, or behind a last separator, the format is read behind its NUL |
| `MCJsonRoundTripLost` | `MCJsonRoundTrip` | `WrittenIsParsed` | an empty object, a key with a quote (json.c:271), a number before a brace |
| `MCJsonRoundTripControl` | `MCJsonRoundTrip` | `NothingUnwritten` | `escapeString` counts seven bytes for a control character and writes six (json.c:1543) |
| `MCJsonRoundTripRealloc` | `MCJsonRoundTrip` | `NoOverrun` | a failed `realloc` is not seen by `jsonStringCatLen` (json.c:216) |
| `MCJsonProgramMessage` | `MCJsonProgram` | `MessageIsWhole` | for `[1-` the message prints the text's terminator as its character (json.c:1730) and ends there, without the offset README.md:28-30 promises |

Met while reading, without a configuration: `-0` and `0e1` are rejected; `[+5]` is -45
and `[1-2]` is 72; the sign of `-0x10` is dropped; what stands between a key and its
colon is skipped; text behind the outermost bracket is ignored; a later error may take
the place of an earlier one. The number runs give such texts no meaning and check only
where the cursor ends.

### Fairness

`JsonArena` has weak fairness on `ReleaseNext` and `ReleaseDone` only: the caller
decides whether to allocate or release, but a release that has begun is a loop of the
one thread there is. `JsonWhitespace`, `JsonString` and `JsonParser` have weak fairness
on `Next`: a call is a computation of that thread, which nothing can suspend inside the
library. `RoundTripSpec` and `ProgramSpec` have it on their one next-state relation for
the same reason: the calls are made one after the other by one thread. No step is assumed
to be fair in competition with another.

## Proofs

Each theorem is about the specification the runs check, for every value of its constants
that satisfies the module's assumption (`ArenaAssumption`, `CursorAssumption`,
`SelectorAssumption`, `BufferAssumption`, `ProgramAssumption`). `Inputs` is one of those
constants: the theorems about the parser and the program are about every set of texts of
any length, documents or not. (The two of the buffer are about `BufferSpec`, which the
runs contain.)

| module | theorem | statement | assumes further |
|---|---|---|---|
| `JsonArenaProof` | `TypeCorrect` | `Spec => []TypeOK` | |
| | `FreesAreExact` | `Spec => []FreesExact` | |
| | `InBounds` | `Spec => []GrantsInBounds` | `SizesFit` |
| | `Disjoint` | `Spec => []GrantsDisjoint` | `SizesFit` |
| | `Aligned` | `Spec => []GrantsAligned` | |
| | `FreedOnce` | `Spec => []EachBlockFreedOnce` | |
| | `ArenaImplements` | `Spec => ImplementsRegions` | `SizesFit` |
| `JsonWhitespaceProof` | `LoopsCorrect` | `Spec => []LoopsComputeOperator` | |
| | `LoadsInText` | `Spec => []LanesHoldText` | |
| | `AgreesWithSimple` | `Spec => []SameAsSimpleOnJson` | |
| `JsonUnicodeProof` | `EscapesEncoded` | `Spec => []EscapeEncodes` | |
| | `BasicPlaneEncoded` | `Spec => []BasicPlaneEncodes` | |
| | `PairsMiswritten` | `~Encodes(utf8Encode(cp), cp)` for every `cp` beyond U+FFFF | |
| `JsonStringProof` | `CursorsInText` | `StringSpec => []StrTypeOK` | |
| | `FailuresReported` | `StringSpec => []FailureIsReported` | |
| | `SuccessesClean` | `StringSpec => []SuccessIsNoError` | |
| | `OutputAlwaysFits` | `StringSpec => []OutputFits` | a quote first |
| | `NeverUnstuck` | `StringSpec => StuckForEver` | |
| | `LiteralsDecoded` | `StringSpec => []DecodesMeaning` | `SpelledOut` or `MisspelledOut` |
| | `LiteralsAccepted` | `StringSpec => []AcceptsMeaning` | `SpelledOut` |
| `JsonParserProof` | `TreeIsShaped` | `Spec => []TreeShaped` | |
| | `UnionsMatch` | `Spec => []UnionMatchesType` | |
| | `ParserTyped` | `Spec => []TypeOK` | |
| | `ParserReportsFailures` | `Spec => []FailureIsReported` | |
| | `ParserOutputFits` | `Spec => []OutputFits` | no `strnum` |
| | `ResultIsRoot` | `Spec => []NullOnlyForBlank` | |
| | `EntersExcused` | `Spec => EntersOnlyExcused` | |
| | `ParserStopsAtError` | `Spec => StopsAtError` | never `KeyFailed`, never `BracketEnds` |
| | `ErrorsStay` | `Spec => ErrorStays` | |
| | `NumbersStay` | `Spec => []AcceptedStaysInNumber` | |
| `JsonProgramProof` | `PrintsWhatIsWritten` | `ProgramSpec => []PrintReadsWritten` | |
| | `ReleasesOnExit` | `ProgramSpec => []ReleasedOnExit` | |
| | `ParseGrantsDisjoint` | `ProgramSpec => []` of `GrantsInBounds` and `GrantsDisjoint` of `JsonArena` | `RequestsFit` |
| | `CopiesInGrant` | `ProgramSpec => []StringInGrant` | `RequestsFit`, no `strnum` |
| | `NeverOverrun` | `BufferSpec => []NoOverrun` | `Grows`, `SizesFit` |
| | `AlwaysTerminated` | `BufferSpec => []Terminated` | `Grows`, `SizesFit` |
| `JsonSelectorProof` | `PathNeverOverflows` | `Spec => []PathFits` | |
| | `FormatAlwaysRead` | `Spec => []FormatIsRead` | |
| | `LoopAdvances` | `Spec => TurnsAdvance` | |

`JsonCursorProof` has the lemmas about the operators on the cursor that the proofs about
strings, the parser and the white space share: how far each moves it, and that none
leaves the text and its terminator; and those about hexadecimal digits.

**Arena.** `ArenaAssumption` says that alignment, capacity and sizes are positive, sizes
are unsigned ints, and twice the block size is one too: a block never has more than
`Capacity + Alignment` bytes, so that `used + allocation_size` in json.c:115 does not
wrap. `SizesFit` says that no size is so large that rounding it up wraps to zero; the
configuration `MCJsonArenaWide` shows the allocator needs it.

None of the properties is inductive. Frees are exact because in every block
`mem = used` (the two move together in `Bump`, and neither moves for an oversized
block): that is `BlocksInv`. Spans are in bounds because a grant in the active block
never reaches past its `used`, and a block that stops being active is never bumped
again: `GrantsInv`. That needs the active block to exist and to differ from every block
of the used list: `HeadInv` and `ChainInv`, with the value `Garbage` that
`jsonAllocatorBlockNew` leaves in `next` excluded for every linked block. The lemmas
`AlignUpBound` and `AlignUpCovers` are what rounding guarantees; `Placed` says where the
new span of a `jsonAlloc` lies for each of its three paths, and `PlacedKeepsGrants` that
the others stay where they are. `Disjoint` follows from `GrantsInv` at the step that adds
a span: it begins at the active block's `used` or in a block that is new. `Aligned` holds
because each bump pointer is a multiple of the alignment (`BumpsAligned`) and rounding
gives one even when it wraps.

**Release.** That each block is freed once is about a list that only pointers make. The
order of the used list is not the order of block numbers, because an oversized block is
pushed when it is made and a full one when it is replaced. The invariant `ReleaseOrder`
names the list: `UsedList(s)` says `s` has every block but the active one once, that the
`next` of each is the one before it in `s`, and that `arena.tail` is the last.
`PushKeepsList` is the one way it grows; `FreedBut(s, k)` says that with `k` blocks to go
the active block and the others were freed, in the order of the list. With the list at
hand, the loop stops at `NULL` exactly when all were freed. `ArenaImplements` maps each
step to one of `JsonRegions`: the span `Placed` describes is the region of `Allocate`, and
a block that is freed was not freed before (`FreedOnce`), so that its chunk is taken away.

**White space.** `ScanInv` says at each loop what was already passed: white space up to
the boundary in the byte loop, lanes of white space up to `ptr` in the lane loop, which
is a whole number of lanes behind the boundary. From it follows, where a loop leaves,
that the position is the one the operator `getNextNonWhitespaceIdx` of `JsonCursor`
defines as a minimum; so every module that uses the operator has what the SSE2 code
computes, for every lane width and text. The lemma `Remainder` gives that a position
between two boundaries has the rest its distance to the lower one says. On text whose
white space is that of JSON, what is passed and where the scan stops are the same for the
loop of one character a turn (`ScanFinds`, `ScanFails`), which is `AgreesWithSimple`.

**Escapes.** `JsonUnicodeProof` extends `MCJsonUnicode`, for every `Alphabet`. What four
hexadecimal digits name (`DigitsName`) splits into the bits that the bytes carry
(`SixBits`), which puts `Decode` of what `utf8Encode` writes back together, for one, two
and three bytes. For four bytes the lead byte 0xE0 makes it wrong always: no code point
beyond U+FFFF is ever written right (`PairsMiswritten`).

**String.** `StringInv` is the types of the cursor and of the activation, with both
cursors inside the text or on its terminator, in each pass. A failure is reported because
each path to NULL sets an error or follows one.

That the copy fits the allocation relates two loops that read the same characters by
different rules: the first looks one character back for a backslash, the second decodes
escapes. `CopyInv` says that the first stopped at a quote not behind a backslash and that
the second has not passed it, and that each unit it wrote stands for at least as many
characters as it has bytes, so that the distance of the cursors bounds the length. The
second loop reaches the quote exactly: an escape of two characters cannot step over it,
because the quote would be behind the backslash, and four hexadecimal digits hold none.
For the second half of a surrogate pair the proof needs more, since `jsonParseUTF16`
refuses it only when neither the `\` nor the `u` is there (json.c:1098, `&&`): hence the
exception `QuoteInPair` of `OutputFits`, that a quote directly behind `\uXXXX` has a `u`
behind it. And where the first pass stopped at a backslash, nothing is claimed of the
copy: that is `OpenEscape`. No JSON document is either.

`CallSound` follows an error the call has set without returning it: `jsonAdvance` does so
on the text's last character, which the cursor then never leaves, so that a quote found
there is not a closing one. Hence `SuccessesClean`: a string and an error are never
returned together.

**Literals.** `SpelledOut` says of an input what its record says of itself, but for a
literal of any length: there is a list of places at each of which a piece begins (a plain
character, an escape of one character, or `\u` with four letters that name no surrogate),
the next place is behind it, its unit is the next of `meant.units`, and at the last place
is the closing quote; if the literal is to be accepted, something other than a quote
follows and no backslash is before its closing quote (json.c:1145 would not see it). The
invariant `SpellInv` says that the copying pass is always at one of the places and has
written the units of the pieces before it, and that the sizing pass, which knows nothing
of pieces, is at a place or among the digits of a `\u`: so it cannot stop before the
closing quote. `MisspelledOut` is a text that goes wrong at the last of its places: it
ends there, or has an escape that is none, or a `\u` without four hexadecimal digits or
with half of a pair. `MisspellInv` says that the copying pass walks the places and then
fails, or is stuck on the text's last character (`Stuck`), from which no quote is ever
found to close (`StuckStays`). Every literal of the `string` run is one or the other. Left
out by name are `\u` with a decimal digit, which `parseHex4` misreads, and pairs, after
which the digits are copied; both have a configuration of their own.

**Parser.** `TreeShaped` says nothing of the C stack, and is not inductive: an activation
of `jsonParseObject` hangs its list below its caller's node only after it returned. The
invariant `NodesInv` is about the stack of frames. `ControlInv`: the pointers in frames
and `p->ptr` are NULL or nodes wherever the code dereferences them. `TreeInv`: the list each
activation has begun is loose, no other activation has it, and it was made after the node
it will be hung below, so that hanging it there keeps the tree. `UnionInv`: the nodes whose
union does not match their type yet are the callers of the activations and the node a
string is read for, and `p->ptr`, whose type the code overwrites, is none of the callers; with
the stack empty there are none, which is `UnionsMatch`. `CallInv` is `StringInv` of the
activation of `jsonParseString` the parser made, whose callers need to know what the
cursor may be left at, for every path through the number, white space and literal
parsers. `StringsFit` says that strings are begun at a quote (without `JSON_STRNUM_FLAG`;
with it a number is read as one) and gives `CopyInv` in the parser. `ResultInv` follows the
root from its making to the result: NULL is returned for blank texts alone, so that
`jsonGetError` may be asked of every other. That an accepted text loses no node needs
more again: `LinkInv` says that, while there is no error, each node but the root is pointed
to by another or is the list some activation has begun, and that the node an activation
will hang its list on has no list yet, so that nothing is overwritten. A node is dropped
only on a path that sets an error, no step clears one (`ErrorsStay`), and `LastInv` carries
this to the state the caller reads.

`ErrorInv` is about what the parser does after an error. It looks at `errno` behind each
value and not behind each call, and so goes on in two places: behind a key that failed
(the result of json.c:1357 is not looked at) and at an opening bracket that is the
text's last character. `KeyFailed` says that some activation of `jsonParseObject` is at
a node whose key is NULL, `BracketEnds` that the text ends in `[`. `EntersExcused` says
that these are the only two: in any other state with an error no container is entered.
`ParserStopsAtError` is `StopsAtError` for the parses without them;
`parser_open_bracket` and `MCJsonParserBadKey` show that both are needed.

`NumbersStay` follows the cursor through `countNumberLen` and each of the three
conversions, from any position of any text: what converts does not pass what was counted.

**Program.** The steps of `JsonProgram` are steps of the parser with calls of the arena
beside them. `Allocator == INSTANCE JsonArenaProof WITH walk <- freeing` brings the lemmas
about the arena to the program's own variables, and each step is shown to be a `Call` of
it or to leave it alone; so `PartsInv`, the invariants of the parts, are kept together.
`MainInv` relates them to where `main` is (`StageInv`), to the nodes on the walk
(`WalkInv`: the walk only follows pointers that were written) and to the one text `main`
does not return from (`LostInv`). `PrintsWhatIsWritten` follows with `UnionsMatch`,
`ReleasesOnExit` with what `FreedOnce` rests on: blocks freed once each and as many as there
are. `GrantedInv` adds that while a string is copied the last grant is the one made for it
(`OwnGrant`): `jsonAlloc` is called between the passes and by nothing else until the copy
ends. With `InBounds` and `StringsFit` this gives `CopiesInGrant`, that what is written
is inside the memory malloc gave. `RequestsFit` is `SizesFit` for the
program: neither a node, the error state nor the longest text is so large that rounding
it up wraps; a string is not asked to be longer than its text.

**Buffer** (the last part of `JsonProgramProof`). `BufferSpec` is the buffer alone,
extended by any sequences without a NUL, by either function, in any order; what
`JsonOutput` and the error messages append are among them. `BufferInv` keeps the
capacity beyond the length and in proportion to it. `Grows` says `realloc` succeeds,
`SizesFit` that `size_t` does not wrap for texts up to `MaxText`.

**Selector.** `PathInv`: `path` holds at most `MaxBuf` bytes, or one more at the moment
the call returns NULL (`path` is declared one longer). The wildcards test before they
copy, the plain character after it was written. `ReadInv` says that as long as a segment
has no character one is left to be read, whatever arguments the wildcards before it took:
the loop looks for the terminator only once a segment has one (json-selector.c:182).
`EndsInSegment` is the hypothesis `FormatIsRead` itself makes; `MCJsonSelectorUnread`
shows what formats and arguments outside it do. With `LoopAdvances` the loop turns at
most once for each character of such a format.

Only model-checked:

* the meaning of what is parsed, written and selected: `NumberMeaning`, `OkMeansMeant`,
  `AcceptsDocuments`, `RejectsAsTested`, `RoundTrip`, `SelectsMeaning`. What they compare
  with is computed by recursion over a text or a tree, so that for all texts they need
  induction over data, which the installed provers do not have. For strings it could be
  said without (`SpelledOut`), because a literal is a list of pieces and no tree;
* liveness under fairness: `ReleaseTerminates`, `ScanReturns`, `StringReturns`,
  `ParseReturns`, `RoundTripReturns`, `ProgramEnds`. Of the exception three of them make,
  `StuckOnLast`, it is proved that it lasts (`NeverUnstuck`).

`DecodesMeaning` and `StopsAtError` do not hold of every text (`MCJsonStringRefused`,
`parser_open_bracket`) and are proved with the exceptions named.

## Not modelled

* The NEON version of whitespace skipping: an x86-64 build does not compile it.
* The getters of the public API: each tests a tag and reads one field.
* Opening and reading the file, and the clocks, in `main.c`; the wording of messages; the
  debug macros.
* The prototypes in `parse-number`, `parse-string`, `chartest`: not part of the library.
  Together they are a third of the repository's lines of C.
* A failing `malloc`: the code uses its result unchecked; the models take it non-NULL.
* Overflow of signed 64-bit sums, rounding of doubles, lengths beyond 2^32.
* `jsonParseWithLen` with a length other than the text's; every caller in `src/` passes
  `strlen`.
* The C stack: nesting is bounded by `MaxDepth` instead.

## Plan

1. Done: the models of the allocator, the scan, the strings and numbers, the parser, the
   serialiser and printing, the selector and the program, and the theorems above.
2. Done: the proofs about the parser (`TreeShaped`, `UnionMatchesType`, types, results)
   and about the program (`PrintReadsWritten`, `ReleasedOnExit`).
3. Done: `OutputFits`, and from it and `InBounds`, through the instance,
   `StringInGrant` of `JsonProgram`.
4. Done: `AcceptedStaysInNumber`, the bytes of escapes, `StopsAtError` with the parses on
   which it fails named, the format of a selection, and what literals are decoded to.
5. An abstract `JsonGrammar`, a pushdown reader of tokens, and the parser shown to
   implement it on the texts it accepts.
