# zuu_json: specification, model checking and proofs

This directory holds a TLA+ development of zuu_json, a C++23 JSON library:
modules translated from the sources, TLC configurations that check them on small
instances, and theorems checked by TLAPS. Source paths are relative to the
repository (`src/` in `PROJECT.json`). `PROJECT.json` maps every definition to the lines it models.

## 1. The system

`Json::parse` runs on the caller's thread and calls nothing back: a lexer engine produces
tokens, the parser pulls them one at a time and fills a `Storage`, and the storage, moved into a
`Json`, is read through cheap views (`Value`, `ArrayView`, `ObjectView`, `MemberView`) or
written out by the `Serializer`. No concurrency is created by the library, nothing is
persisted, and no error is thrown: errors are values of `JsonError` that every caller has
to pass on. What is hard here is bookkeeping under recursion, manual memory, stale
flags and views, and block-wise scanning that must agree with the byte-wise definition.

| Component | State | Operations | Interacts with | What makes it correct |
|---|---|---|---|---|
| Parser (`internal/parser/parser_base.hpp`) | current token, `status_`, `depth_`, two `FastStack`s shared by all nesting levels, the `Storage` being filled, the C++ call stack | constructor, `parse`, `buildValue`, `buildArray`, `buildObject`, `buildString`, ..., `result` | pulls from the lexer; pushes and cuts back the stacks; commits and seals into the storage | accepts exactly JSON up to `kMaxDepth`; each container holds exactly its own items in order; recursion is bounded; after an error nothing more is built than the one container whose bracket was just read; every parse ends |
| FastStack (`internal/models/fast_stack.hpp`) | `data_`, `size_`, `capacity_`, inline buffer, heap block | construct, destroy, move, `push_back`, `resize` | `malloc`/`free`; owned by the parser | a block has one owner; contents survive growth and moves |
| Storage (`src/models/storage.cpp`) | chunk list, `strings_`, `arrays_`, `objects_`, root | `allocate`, `commitString`, `sealArray`, `sealObject`, `setRoot`, `sortAllObjects`, moves | filled by the parser, read by every view | pieces in bounds, aligned, disjoint; chunks owned once; what was stored reads back |
| Document access (`src/models/json.cpp`, `value.cpp`, `*_view.cpp`) | `is_sorted` per object; views held by the user | `operator[]`, `at`, `contains`, `sort`, iteration | reads the storage, `sort` reorders members under the views | lookup exact before and after `sort()`; the three lookups agree |
| Lexer (`internal/lexer`) | position, `status_`, scan pointer | `next_token`, one handler per first byte; whitespace and string scanning in SWAR or AVX2 blocks | reads the text the caller owns | tokens equal the byte-wise definition for every block width; always advances |
| Unescaping (`internal/parser/engine`) | source and output pointers | `unescapeString` in two engines | writes into a storage buffer | output fits its buffer; engines agree; surrogate pairs at every position |
| Numbers (`internal/utils/parse_int.hpp`, `parse_double.hpp`), NaN boxing (`json_value.hpp`) | accumulators; 64-bit word | `parse<T>`, boxing and unboxing | called by the parser | no wrap-around unnoticed; what is boxed is read back |
| Serializer (`src/serializer/serializer.cpp`) | output, current indentation | `dump` and one function per type | reads the storage | output is the document again, token by token; indentation returns to zero |

Error translator, file helpers, traits, constants, examples and benchmarks keep no state of interest
and are listed in `PROJECT.json` as not modelled.

## 2. Plan

In order of importance; 1 to 8 are built.

1. **JsonParser**, with **ContainerBuilder** (abstract: every open container has a list of its own) and
   **JsonGrammar** (reference: the grammar over tokens).
2. **FastStack** with **Stacks** (abstract: sequences).
3. **StorageArena** with **Tables** (abstract: tables of byte sequences).
4. **Document**: lookups, `sort()`, held views.
5. **SwarLanes** (the masks) and **Lexer**, against **Lexemes** (reference: the byte-wise definition of tokens).
6. **StringCodec**: unescaping, escaping, and the round trip, against a reference meaning.
7. **NumberCodec**: integers and doubles modulo their widths.
8. **Serializer**: the traversal, composed with JsonParser for the round trip.
9. **Handles**: `Json` moves and the views that hold its storage; typed accessors; array access.
10. Every safety property the runs check is proved but those of NumberCodec (section 6). 9 is not built.

## 3. Modules

### JsonParser, ContainerBuilder, JsonGrammar

The recursion `parse -> buildValue -> buildArray/buildObject` is the sequence `calls` of
activation records (kind, `start_size`, the member's key), `pc` the place in the running function and
`ret` the value just returned. One action is the code between two pulls of the lexer or two
calls: `OpenArray`, `EnterLoop`, `AddElement`, `ReadComma`, the object
counterparts, the scalar builders, the error exits and `Unwind`. Where something is stored after a pull, the pull is an
action of its own: `ReadClosing` is the `advance()` over a closing bracket, which may set an error, and `EmptyArray`, `CloseArray`
and the object counterparts seal the container afterwards, error or not, as the code does: only the caller of `buildArray` checks.
(`buildNull` to `buildInteger` and the colon store nothing shared after their pull, and strings are committed before it.)
`advance()` is `Advance`: it appends a token to
`pulled`, whose last element is `current_token_`, and copies a lexer error into `status_` exactly
when the code does. A lexer error stays set, and the parser may overwrite it.

Abstractions: the lexer is any stream over `SourceTokens` and errors, ended after `MaxTokens`; texts are
atoms that are short or long (`LongTexts`, kept inline or by index) and either unescape to another text
or are `Malformed`; numbers are small integers with the 48-bit truncation as arithmetic modulo
`IntegerModulus`; doubles are atoms, some `OutOfRange`. The failure of `parse<long long>` in `buildInteger` is left out: the lexer
makes an `Integer` token only of what it reads.

`ContainerBuilder` has no tokens, no depth and no shared stacks. `ImplementsBuilder`
maps the segment of each activation record on the shared stack to that container's
own list and everything after an error to a rejected document that left nothing behind.
`JsonGrammar` derives all documents of bounded length bottom up, with their trees.

### Serializer

Extends JsonParser: after a parse that returned a document, `Dump` is called with one of `Indents`.
`visits` are the activation records of `serializeArray` and `serializeObject` that are in their loop, with the
position of the next item; `SerializeItem` is one turn of the loop, into the loop of a nested container when the item
is one, `SerializeClose` what follows the loop. The output is a sequence of tokens with `Newline` and `Space` between
them, the same alphabet as `pulled`: that is what makes the comparison with the source text possible. How a string is
escaped is StringCodec's; how a number is spelt is the library's (`to_chars`), but for one thing that changes the token: a double that
`to_chars` writes without point and exponent, one of `WholeDoubles`, is an integer in the output (`DoubleText`).

### FastStack, Stacks

One action per member function; `push_back` is two, with and without growth. `data_` is `Inline`
or a block, `heap` gives each block its cells or `Freed`; cells not written are `Garbage`. `malloc` returns any
free block and, as the code assumes, never fails. Capacities are computed modulo `Word`. The parser never
moves a stack; the moves are modelled because the class offers them. `resize` only cuts back, as the
parser uses it.

### StorageArena, Tables

`chunks[s]` is the list from `head_` to `tail_`, `entries[s]` the three tables, `heap` the regions that `new` has
returned, `memory` a byte per address. `allocate` is `Cut` (room in the last chunk) or `CutNew`, with the
padding computed on addresses and all sums modulo `Word`. `new` returns any free region aligned for every element,
which is what `operator new[]` guarantees. Strings without escapes are views of the caller's text and take no memory
here; an unescaped string reserves its source length and uses less. The bytes of a piece are all alike,
which is enough to see another piece's bytes in it.

### Document

`objects` is `objects_` with each object's members and `is_sorted`; `parsed` remembers the text for reference.
Keys are `[sso, text]` or `[index, length]` as in `JsonMember::KeyStore`; `at`/`contains` compare with
`KeyLess`, which reads lengths from the key, `operator[]` with `TextLess`. `std::lower_bound` returns the partition point,
and any position if the range is not partitioned by the comparison; `std::sort` any ordered permutation.
`view` is a `MemberView` the user holds, `source` whether the parsed text is still there.
`Sort` requires the text to be there, since it reads keys that are views of it.

### SwarLanes

A block is the sequence of its bytes, lowest lane first. Words are added and subtracted as whole words:
`Minus` and `Plus` compute each lane with the borrow or carry out of the lanes below it, so that the false flags the
tricks of `utils/swar.hpp` produce above a match are in the model. The masks are sets of flagged lanes and
`FirstLane` is `countr_zero(mask) >> 3`. Widths are free: eight lanes in the code, any number in the proofs.

### Lexer, Lexemes

`Next` is `Lexer::Tokenize` driving `next_token`: one action per case of the dispatch, then one per block or tail byte of
the scan it started. `Swar` and `Avx2` have actions of their own where their code differs (`SwarSpaceBlock`,
`Avx2SpaceBlock`, with the shuffle table; `SwarStringBlock`, `Avx2StringBlock`) and share the rest. A token is its
type, the span of its value and `has_escape_`. `Lexemes` defines byte by byte, without blocks or state, what a string
body, a number and a word are.

### StringCodec

One string goes through three passes: `unescapeString` by either engine, `serializeString`, and `unescapeString` of what
was written. `ptr`, `start` and `out` are the pointers of the code as offsets; `seen` remembers the highest offset
read. `At` beyond the body is the closing quote, which is what follows the body in the text. `Meaning`, the reference, is
computed from the end of the body with its own UTF-8 encoder.

### NumberCodec

`parse_int.hpp` block by block (`Paired` doubles the width of the lanes, as the three multiplications do; `Shifted` moves
a partial block to the top), `Box` and `Unbox` of `JsonValue`, and `parse_double.hpp` character by character up to the
choice of the fast path. All widths are constants: `Word`, `Payload`, `IntRange`, `MaxDigits`, `Precision`, `MaxPower`.
`Round` and `Times` are IEEE arithmetic on a significand of `Precision` bits, to nearest, ties to even, and external.

## 4. What the runs check

| Run | Shows |
|---|---|
| `parser` | over three kinds of source texts (below): `StructureInv` (shared stacks, depth and activation records agree), `RecursionBounded`, `NothingLeftOver`, `IndicesResolve`, `NothingAfterError`, `ImplementsBuilder`; against the grammar, that exactly the derivable documents are accepted (`RejectedIsUnderivable`) and exactly their trees stored (`AcceptedIsDerived`); that `dump()` writes one token for each token of the source, in order, the same but for decoded strings, integers of 48 bits and whole doubles, which come back as integers (`DumpRepeatsTokens`), with each line indented by its nesting (`LayoutNested`), recursing no deeper than the parser lets through (`DumpRecursionBounded`); that `parse()` and `dump()` return (`EveryCallReturns`) |
| `fast_stack` | `BufferHoldsItems`, `BlocksOwnedOnce`, `ImplementsStacks` |
| `arena` | `PiecesInChunks`, `ChunksOwnedOnce`, `ImplementsTables`, over two documents that allocate, move and die |
| `document` | `MembersKept`, `SortedInOrder`, `LookupExact`, `LookupsAgree`, `ViewsStable` (a held `MemberView` reads its own key until its object is first sorted), `SortKeepsLookups` |
| `lexer` | `TokensAreLexemes`, `NothingSkipped`, `RejectsNoLexeme`: tokens, gaps and errors agree with the byte-wise definition; `EndsOrMeetsFormFeed`: tokenizing ends, but for the case of section 7 |
| `strings` | `InBounds` (reads and writes stay in text and buffer), `DecodesTruly` (both engines against `Meaning`), `RoundTrip` |
| `numbers` | `IntegersReadBack` (what is accepted, and the value that is boxed), `FastPathFaithful` (nothing wrapped when the fast path is taken; with a power of ten that is a double the result is correctly rounded) |

Every run also checks its module's `TypeOK`. Five runs end in a violation, each of a sentence in the repository (section 7).

Bounds and why they are enough:

* `parser`: `Samples` names three kinds of texts, and the constraint `InSamples` cuts every other. Six
  tokens of every kind reach every place of every function, an error at each, a member with a container value and the
  depth limit (`MaxDepth = 3`). Interference between levels needs a non-empty container between two items of its
  parent: `[x,[y],z]` has nine tokens, the bound of the second kind (containers, `null` and one string).
  `{k:{k:v},k:v}` has thirteen, the bound of the third (objects only). The samples contain every prefix of
  each of their texts, so the constraint cuts no behaviour short that it started, and `EveryCallReturns` is checked on whole
  parses and dumps. Of the three doubles one is whole, one is not and one is out of range. `Indents` are minified, newlines without spaces, and two spaces.
  The structural claims and both comparisons with the grammar are also proved for texts of any length (section 5).
* `fast_stack`: capacity one inline, so three items cross two growths; three blocks let both stacks be on the heap
  while one grows. `Word = 16` is above every capacity reached.
* `arena`: chunks of six bytes and pieces of up to seven: pieces that fit, need padding, do not fit, and exceed a chunk;
  fourteen addresses, two documents with two pieces between them. Stores and bytes are interchangeable, hence the symmetry.
* `document`: three members make the order of a duplicate and of equally long keys visible; four texts, two lengths around
  `SsoMax`.
* `lexer`: blocks of three and four bytes and texts of up to seven, so that every byte that matters falls into the first, the last
  and the middle place of a block, across two blocks and into the tail. Each group of texts contains the bytes one handler
  tells apart, and those one above and below what a mask looks for. The masks themselves are proved for any width.
* `strings`: blocks of three and five; up to three of sixteen pieces (plain bytes, every kind of escape, whole and cut short), four of
  the surrogate pieces. Three pieces put an escape at every offset of a block and a broken one before, between and after others.
* `numbers`: words of 2^16 with blocks of four digits, a payload of 12 bits, an exponent of 8 bits, four safe digits, a significand of
  five bits and exact powers up to 10^2 keep the relations of the real widths (`WidthsAssumption`), and texts on both sides of each.
  The exact bound on the significand, `2^Precision - 1`, is the code's `9007199254740991`.

Fairness: `Lexer!FairSpec` is weak fairness of the steps of `next_token`, `Serializer!FairDumpSpec` of the parser's and the serializer's
steps together. Both are plain function calls on the caller's thread: while they have a next step they take it, and nothing else
runs. Nothing else assumes fairness. In `EveryCallReturns` a pull of the lexer is one step: that it returns is `EndsOrMeetsFormFeed`, and does not
hold of the AVX2 engine at a form feed (section 7).

`CHECK_DEADLOCK FALSE` is used for Document only: a user who has freed the text and holds no view does nothing more.

## 5. What is proved

For every value of the constants that satisfies the named assumptions, with no bound on the length of texts,
numbers of objects or sizes:

* `JsonParserProofs`: `StructureSafe` (`TypeOK` and `StructureInv`), from which follow `TypesSafe`,
  `RecursionSafe` (at most `MaxDepth + 1` activation records), `NothingLeftOverSafe` and
  `NothingAfterErrorSafe`. `NothingLeftOver` is not inductive: that the stacks are empty at the end follows
  because, at every moment, the segments of one kind lie nested on their stack with the lowest at 0 and a
  stack without open container is empty (`SharedStacksNested`), and `depth_` equals the
  number of records past the check (`DepthCountsCalls`). Both are abandoned while an error unwinds, so one has to know
  where an error can be pending (`PendingErrorIsLexers`). The conjunction `StructureInv` is inductive together with `TypeOK`.
  `NothingAfterErrorSafe` is about what may still follow an error. It is not "nothing": on `[1]x` the error is set by the `advance()`
  over the bracket, and the array is sealed after it. It says that this is all: the error stays, no token is read, no string stored and no root
  set; pushes and seals stop too, but for the one container whose bracket has been read (`Sealing`), and no step leads to
  such a place again. That needs `PendingErrorIsLexers`: with an error pending the current token is `Unknown`, which closes nothing.
  `IndicesSafe`: `IndicesResolve` is inductive given these, because the tables are only appended to (`ResolvesKept`): what resolved
  before a step resolves after it, and a new index is that of the entry just appended.
  `BuilderImplemented`: every step of the parser is a step of ContainerBuilder or a stutter. The segments between the
  `start_size` of one record and the next of its kind are the lists of the abstract containers; a push lengthens
  the last one only, sealing removes exactly the last one, and opening a container starts an empty one (`Opened`, `Nested`).
  An error on the way maps to one abstract step, rejection, and all that follows it to stutters.
  `TextsLieSafe`: what is stored is what was read. To every stored and every open container belong its marks, the places of
  its opening bracket, its commas and its closing bracket in the text; between two marks lies exactly one item (`Marked`), which
  is a scalar token or again what lies between the marks of a stored container (`Spans`). The model keeps no marks: `TextsLie` says that
  they exist, and each step names those of the next state. They are kept by everything that only appends to the text and
  to the tables (`SpansKept` to `OpenKept`), and a container's marks move from the open ones to the stored ones as it is sealed (`SealLies`).
* `SerializerProofs`: `ParserBeneath` (dumping leaves the parser alone) brings every theorem about the parser to `DumpSpec`.
  `DocumentsBounded` and from it `DumpRecursionSafe`: `serializeValue` has no limit, so its recursion is bounded only if
  no stored document is higher than `MaxDepth`, and "higher" is a recursive notion. The invariant `HeightsBounded` says instead that
  heights exist: two sequences of numbers, one per stored array and object, each above those of the items,
  that fit under the containers still open (`Stacked`). The witness is extended when a container is sealed: it gets the height
  that the open records leave below the limit. The records of a dump then descend in height (`Deep`).
  `LayoutSafe`: everything written is laid out up to its last token (`Laid`), which is never layout between two steps (`Ready`);
  the level of a prefix, brackets opened less brackets closed, equals the number of records, and one token
  changes it as `Change` says.
  `AcceptedDerived`: `AcceptedIsDerived`, for token sets and texts of every size, from `TextsLieSafe` and `DocumentsBounded`. What
  lies between the marks of a container is a list of the grammar (`ListDerives`, from the last item backwards), and a span of tokens derives
  the tree read back from it by induction on its length (`AllDerive`); the nesting of the derivation is at most the height of the value, so no
  accepted document nests deeper than `MaxDepth`. The recursions over the length of a text (`Derivations`) and over the height of a
  tree (`Forest`) are recursive functions on numbers up to a bound, and every induction is one over such an interval (`UpTo`).
  The assumption `IntegersFit`, that the integers of the text fit in 48 bits, is needed: without it the stored integer is another
  one (section 7).
  `RejectedUnderivable`: the converse, `RejectedIsUnderivable`, with no assumption on the texts, so that the two together say the parser decides
  exactly the language of the grammar. That a text is refused for good reason is a claim about its future, what could still
  follow, so the invariant is stated for one document at a time: while the tokens read begin the document `w`, the parser has found no error and
  everything it will meet is foreseen (`Foreseen`). There are places for the closing brackets of the open containers, one for each record and each
  within the next (`Enclosing`), such that at every place in the code the rest of `w` is what the running function expects: the rest of a list up to the
  innermost bracket, a value and then such a rest, a colon before it (`Outlook`); between a closing bracket and the seal, what follows that bracket. What the code then does follows from how such a piece of text can
  begin (`ValueHere`, `ListHere`), which is the grammar's derivations taken apart: `ScalarShape`, `ContainerShape`, `PairShape`, `ListShape`, with the length
  of a derived text equal to its place in the table (`DerivedSized`). The nesting of `w` left at the innermost record bounds the depth still to come,
  so the check of the depth never fails within a document of at most `MaxDepth` levels. `DocumentsForeseenSafe` gives this for every
  document the grammar derives, and not only for those sampled by the run.
  `DumpFaithful`: `DumpRepeatsTokens`, from `TextsLieSafe`. At every moment of a dump the text written so far is, but for layout, the
  first tokens of the source, respelt (`Copied`, `Respelt`), and how many is told by the innermost record: up to the mark before its next item (`Reached`, `Place`). Writing a
  container must then end where the record around it goes on, so the invariant chains the records: each one's container ends
  at the place the outer one has reached, the first at the end of the source (`Nests`). No assumption on numbers is
  needed, since `DumpRepeatsTokens` compares with the 48 bits that are read and with the integer a whole double becomes: it is not
  the identity, and does not claim that parsing the dump gives the same document.
* `FastStackProofs`: `TypesSafe`, `BuffersSafe`, `OwnershipSafe` (`TypeOK`, `BufferHoldsItems` and `BlocksOwnedOnce` are
  inductive together: a write through `data_` touches one stack because no other owns the block, and a freed block is
  owned by nobody because it had one owner) and `StacksImplemented`, each operation being the operation
  of the same name on sequences. Assumption: twice the largest stack is below `Word`.
* `StorageArenaProofs`: `TypesSafe`, `PiecesSafe`, `OwnershipSafe` and `TablesImplemented`. `ChunksOwnedOnce` is not inductive alone: that a new
  region is nobody's chunk needs that chunks are live regions (`TypeOK`), and that a dying document's chunks are not in
  another's list. What was stored reads back because every piece lies in the used part of a chunk of its own document
  (`DocumentsOK`), and a write goes above the used part or into a region no chunk overlaps.
* `DocumentProofs`: `TypeOK`, `Kept` (an object's members are a permutation of what was stored) and
  `SortedInOrder` are inductive together: a sort composes permutations, and that its result is in order needs
  only that `TextLess` is total, hence `TextAssumption`. `Kept` is stronger than `MembersKept`: it says which keys are
  stored, not what they read as, and so survives the release of the text. From the invariant follow, without another
  induction over steps, `LookupSafe`, `AgreementSafe` and `SortTransparent`: the members less than the key
  form an initial segment (`InitialSegment`), so the partition point exists, is unique, and is the member or shows
  its absence; and a permutation reaches every position (`ReorderingOnto`). `ViewsSafe` strengthens `ViewsStable` by where the view
  points (`ViewInv`).
* `SwarLanesProofs`: each mask finds the first byte of its class (`FindsZeroByte`, `FindsControl`, `FindsNonSpace`, `FindsNonDigit`,
  `FindsByte`, `FindsStringEnd`). The argument is one: below the first match no lane borrows or carries (`NoBorrow`, `NoCarry`), so up to it
  the lanes are computed as if they were alone, and what is flagged above it is never looked at. `ScanStopsAtFirst` says what a scan
  may conclude from that, `StringScansAgree` that both engines stop at the same byte. These hold for blocks of every width, so
  the small blocks of the runs lose nothing. The lemmas on escapes (`NoRun`, `EscapeAlternates`) are here because the lexer's and
  the string codec's proofs both use them.
* `LexerProofs`: `OffsetsSafe`, `LexemesTrue`, `OnlySpaceSkipped` and `ErrorsJustified`, the four invariants of the lexer's run, for every
  text, both engines and blocks of any width. They speak of finished tokens and of the end, so the invariant adds what is known inside
  a token. In a string (`Body`): no byte before the scan pointer could end it and the byte at the pointer is not
  escaped; one byte decides whether the next is escaped (`NoRun`, `EscapeAlternates`), so no count of backslashes is carried across a
  block. In a number (`StartsPart`, `EndsPart`): what has been read is an integer, a fraction or an exponent so far. That the token is the
  longest number there, and that a number given up could only have gone on, both come from `NumbersAgree`: of two numbers that
  start at one byte the shorter is followed by a digit, by a dot and a digit, or by an exponent with a digit. Blocks enter through
  `BlockScan`, the offset form of `ScanStopsAtFirst`. `Texts` is any set of byte sequences.
* `StringCodecProofs`: `BoundsSafe` and `TypesSafe`. The invariant adds that a character or an escape about to be handled lies before
  the end (`Waiting`). The step that needs an argument is the surrogate pair looked for one byte too far: the digit read there is the
  closing quote, which makes the number too large for a second half (`UnicodeRange`), so the pass gives up before it would move
  past the end.
  `DecodingTrue`: both engines decode what `Meaning` says. The invariant (`TInv`) is that the meaning of the whole body is what has been
  written so far followed by the meaning of the rest, from `ptr` on (`Truth`), while no escape met so far is broken (`Alive`). `Meanings` is a
  recursive function over the offsets; that it is the function its equation describes (`MeaningsIs`) and what it does on a run of plain bytes
  are inductions on offsets. They are not done with the library's induction theorems but on sets: a set of numbers that contains 0 and the
  successor of each of its members is all of `Nat` (`Induct`, from the well-foundedness of `<`).
  `RoundTripHolds`: what `serializeString` writes is decoded to what it was given. The written text is at every moment a body of its own
  (`Clean`, joined by `CleanJoins`) that means the bytes copied so far (`Written`), because the meaning of two bodies in a row is the one
  followed by the other (`MeaningJoins`), and a piece is either a run of plain bytes (`PlainBody`) or one escape of one byte (`EscapeBody`).
  The third pass then decodes it by `DecodingTrue`'s argument (`ReadBack`). The UTF-8 encoder of the code and that of
  the reference agree on every code point by `Utf8Encodes`.

## 6. What is only model-checked, and what is left out

Only checked by TLC: `EveryCallReturns` and `EndsOrMeetsFormFeed` (liveness, out of the prover's reach); and the
invariants of NumberCodec (`TypeOK`, `IntegersReadBack`, `FastPathFaithful`). Every one of those rests on powers with a variable exponent: a mantissa of `n` digits is below
`10^n`, a register wraps at `2^w`, the fast path multiplies by a power of ten. The installed provers have no theory of
such powers (not even `10^n \in Nat` or `10^(n+1) = 10 * 10^n` is found), and stating those laws as assumptions would be taking them on trust.

Left out: allocation failure (the code does not handle it); the counters
`total_array_elements_` and `total_object_elements_`, read only to reserve the serializer's buffer; documents of 2 GiB and
more (`WordAssumption`); `std::from_chars` and `to_chars`; the bit patterns of NaN boxing; the typed accessors, array access and moves of `Json`;
`LexerBase::reset`, used by a benchmark, and `ParserBase::finish_string_scalar`, which has no caller.

## 7. Where code and documentation disagree

Shown by a run:

| Run | The repository says | The code |
|---|---|---|
| `lexer_form_feed` | `docs/ARCHITECTURE.md:160`: a single pass that emits tokens | the AVX2 engine loops for ever at a form feed with a block of text left: the dispatch table calls it whitespace, the shuffle table does not |
| `numbers_exact` | `internal/utils/parse_double.hpp:4`: an exact parser | multiplies by a rounded `1e-k`: `0.3` becomes `0.30000000000000004` |
| `parser_integers` | `docs/ARCHITECTURE.md:167`: wide integers are promoted to double | the high bits are dropped |
| `document_duplicates` | `docs/ROADMAP.md:53`: the last duplicate wins | the first, or any after `sort()` |
| `document_source` | `docs/API.md:77`: the text is not retained | strings without escapes are views of it |

Read off the code while modelling, without a run of their own; each is part of the model as the code
has it (the last surprises, but contradicts no sentence of the documentation):

* `docs/API.md:51` says `LeadingZero` is reported for a leading zero; inside a container the parser overwrites the lexer's error with its own
  (`parser_base.hpp:242`, 290, 331).
* `docs/API.md:106` says members are sorted when an object is sealed; only `sort()` sorts them (`storage.cpp:136`).
* `docs/ARCHITECTURE.md:207` calls a document read-only; `sort()` changes the key a held `MemberView` reads (`object_view.cpp:17`), as
  `ViewsStable` allows for.
* After whitespace, the SWAR engine passes over every byte up to the space, control characters included (`engine/swar.hpp:33`); `NothingSkipped` allows
  exactly that.
* `docs/ARCHITECTURE.md:168` says "invalid surrogates and code points return `InvalidSurrogate` / `InvalidUnicode`"; a second half without
  a first is decoded as a code point (`parser/engine/swar.hpp:79`), and a broken pair reports `InvalidValue`.
* The exponent of a double wraps at 2^31 (`parse_double.hpp:79`): `1e4294967297` is read as 10. `FastPathFaithful` excludes it by name
  (`ExponentFits`).
* A double without a fraction is dumped as `to_chars` spells it, `1.0` as `1`, and read back as an integer (`serializer.cpp:137`): `DoubleText`,
  and `Respelt` in `DumpRepeatsTokens`.
