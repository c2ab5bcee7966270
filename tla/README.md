# A verification project for the Tula front end

Tula is a C99 compiler front end: a **reader** turns a file into characters, a
**scanner** turns characters into tokens, a **parser** turns tokens into a tree.
The code generator and the virtual machine are not written yet. The program has
one thread and no persistent state. What makes it hard is not concurrency but
lookahead: three stages, each of which decides with a little lookahead into the
one below, over a file that arrives in chunks, fails, or ends at any point. Around
the stages it is ownership: who frees which block, on every way out of the program,
when any allocation may be refused.

Paths below are relative to the repository's root; `src/` is its C source.

## Inventory

| Component | State | Operations | Hard part |
|---|---|---|---|
| Reader `src/common/buffered_reader.c` | buffer, length, position, `FILE*`, line, column, two flags | new, destroy, open, close, read, peek, peek_n, consume | refills in the middle of lookahead; short reads; reopening; the order of flags |
| Scanner `src/engine/scanner/scanner.c` | the reader, the token array, the locals of a recogniser | new, destroy, read_next, read_all | loops that must end with the file; pairs of characters across a chunk; two passes over a number |
| Words `get_identifier_type` (same file) | none | classify | a hand-written trie that must agree with the token table |
| Token array `src/engine/scanner/token.c` | count, capacity, elements | new, init, add, destroy | growth while callers hold tokens; a text shared by the element and the caller's struct |
| Parser `src/engine/parser/parser.c` | current token, `hadError` | one function per rule | errors as nodes, errors that are swallowed, trees given up half built |
| AST `src/engine/parser/ast.c` | the node graph | new, add, destroy | who owns a node; node kinds that destroy forgets |
| Conversions `src/common/numeric.c` | none | text to integer per width | ranges at each width; a minus in front of an unsigned number |
| Strings, paths `src/common/strings.c`, `os.c` | none | bounded copy, compare, normalise | off-by-one, prefixes taken for the whole, dots in paths |
| Command line `src/state/cli.c` | the parameters, the configuration | parse, destroy | values that look like options; four builds; what is freed on each way out |
| Global state, exit `src/state/gstate.c`, `src/common/exit.c` | one singleton | set up, get, tear down, exit | teardown before, in the middle of and after set-up |
| Drivers `src/tula.c`, `src/test.c` | the pointers of the run | main, run_test, test_version, test_scanner, test_parser | what a NULL from below becomes |
| Tracing, allocation `src/common/trace.c`, `src/util.c` | a buffer of the caller | trace_sprint, growth, realloc | the line that no longer fits |
| Opcode table | constants | | nothing to check: data |

How they interact: all calls are synchronous and owning. The parser pulls tokens
from the scanner, the scanner pulls characters from the reader; tearing down the
parser destroys the scanner, which destroys the reader. Line and column are
counted by the reader only and stamped on tokens and nodes. The driver that builds this
chain takes its file and its mode from the global state, which `main` sets up from the
command line; wherever an allocation fails or an option is wrong, `tula_exit` tears the
global state down and leaves.

What makes each part correct: the reader delivers the file, byte for byte, with
the right positions and a final end; the tokens tile the source and carry its
text; only the spellings of the token table are keywords; the parser consumes
what it accepts, reports an error exactly when there is one, and loses no node;
a conversion gives the number the text denotes or says that it cannot; the
configuration says what the arguments say; no block is freed twice or used after it;
the array keeps its tokens while it moves; the exit status tells the reason, and the
global state is released in front of every exit.

## Modules

| Module | Models |
|---|---|
| `BufReader` | the reader, one action per operation, with the file and `fread` |
| `CharStream` | the abstract reader: a cursor over a text |
| `BufReader_proofs` | the theorems about `BufReader`: its invariant; its stream, positions and refinement |
| `Scanner` | the scanner, composed with `BufReader` |
| `Scanner_proofs`, `ScannerSource_proofs`, `ScannerTokens_proofs` | the theorems about `Scanner`: its types and buffers; the positions and the end in the file; the texts, types, ends and values of its tokens |
| `Parser` | every rule of the parser over a stream of token types, with the nodes it allocates and frees |
| `Grammar` | the reference: the derivations of `docs/language/EBNF.md` and their trees |
| `ParserCorrectness` | what `Parser` promises, over `Grammar` |
| `Process` | the heap, the global state, the ways out of the program |
| `CommandLine` | `cli_parse_args`, composed with `Process` |
| `TokenArray` | the tokens and their array in the heap, composed with `Process` |
| `Program` | `main` and the drivers: `CommandLine` and `TokenArray` composed |
| `Lifecycle` | the abstract program: its global state, status and end |
| `Program_proofs` | lemmas about the heap; the theorems about `Program` |
| `Keywords` | the trie of `get_identifier_type` |
| `Numeric`, `Paths`, `Options`, `Trace` | conversions; path normalisation; option words and values; a stack trace in a bounded buffer |
| `PureCalls` | one call of any of these five, with what each should return |
| `Numeric_proofs`, `PureCalls_proofs` | what a numeral denotes and a conversion answers, with lemmas on recursive definitions from `Recursion_proofs`; the theorems about `PureCalls` |
| `MCBufReader`, `MCScanner`, `MCParser`, `MCProgram`, `MCPureCalls` | files, texts, token streams, command lines and arguments for TLC |

**BufReader.** The record `reader` is `buf_reader_t`, field by field; its `FILE*`
is the three fields `file`, `offset` and `feof`. `fread` is external: it returns
as many bytes as it was asked for, or fewer at the end of the file (which sets
the indicator) or, for the files in `Failing`, fewer at any point. `Refill` is
`buf_reader_refill` and is part of the action of whichever operation calls it.
Buffer bytes past the valid ones are kept as they are in memory, because the
refill moves them. `delivered`, `clean`, `opens`, `streams` and `reopenings` are history: the
bytes taken since the last opening; whether a lookahead has refilled a short
buffer or an open reader was reopened by its stored name; the openings; the `FILE*`s
open; the calls of `fopen` for a reader that was open. An opening may fail at either
check of the path (`CheckFails`, which leaves a stream that the reader has) or at `fopen`
(`FopenFails`, whose NULL overwrites it, while buffer, position and flags stay). So there
is a reader without a stream that still holds bytes, and which the next opening by a name
finds closed and does not reset. A character call is modelled on an open reader or one
whose opening failed; on any other it would hand a NULL `FILE*` to `fread`.

**CharStream.** A text, a cursor, and the answer of the last call. `BufReader`
implements it (`ImplementsStream`) with the cursor mapped to the number of
delivered bytes: buffer, chunks and refills disappear.

**Scanner.** Each step that touches a character is one action of `BufReader`,
and uses its answer; so what the scanner sees at a chunk's edge or past the end of
the file is what the reader really does there. `pc` is the place in the code,
`frame` the C locals, `tokens` the array. Characters are bytes. The wording of
messages is left out; positions, types and texts of tokens are kept. The macros
`char_is_digit` and `char_is_alpha` evaluate their argument more than once; the
calls this repeats are kept where the first could change the buffer (`Third`).
`start` and `end` of a token are history: the characters taken before and by it.
`path` is the file that the scanner is made for.

**Keywords.** Each label of the C function is an operator; a comparison keeps its
offset, because what it skips is the point. Words are strings, cut with `SubSeq`.

**Numeric, Paths, Options, Trace.** The other functions without state. `Numeric` is the
two macros behind the eight conversions; `strtoll` and `strtoull` are external, and the
widths of the types a constant; `Spelled`, the reference, is the sum of the digits times
their powers of ten. `Paths` is `os_path_normalize`: what fits its working copy, read byte by
byte as `strtok` does, and the loops over its components that drop and put together again;
the separator of the build and the longest path are constants. `Options` is `parse_option_type`
in each of the four builds, the comparison of modes, and the text and room of a file's
name. `Trace` is `trace_sprint`; a frame is the length of its line, so that a byte that
is copied from behind the line shows. `PureCalls` starts with one call and answers it.

**Process.** A block of the heap is `<<what it is for, its number>>`, so that a pointer
to a freed block is told from the one to its successor. `Malloc` and `Realloc` are the
set of their outcomes: refused, or a new block; `realloc` may also leave the block where
it is. `Touch` and `Free` of a block that is not live, and `Touch` of NULL, raise
`fault`. Which roles have been refused, and how many blocks each has had, is history.
`gstate` and `config` are the structs; an exit is a decision (`ExitWith`) followed by
`TulaExit`, which tears down.

**CommandLine.** `params.pointer` is the index into `argv`; `consume_argument` stops at
the end. `ConsumeNextOption` has one disjunct per case of the switch, with what that
case frees. **TokenArray.** The steps of `scanner_read_next` that touch the heap: the buffer
of a number (`ScanNumber`), then those of `CONSUME_TOKEN`, the struct, its text, the array.
`source` is any stream of what may be found: lexemes, errors, numbers, with the end for ever
behind it. Of numbers there are three: one that fits its buffer; one that is refused once it
is copied; and one longer than the buffer, which the code copies all the same (`overrun`).
Such a copy ends the program or goes unnoticed, and then the heap is taken as if it had not
been hit. `ENDLESS` is text that the scanner never gets past, a block comment that the file ends in or
a slash in front of a backslash: no step leads out of `Scan` there.
Growth and the copy into the array are one step, because nothing can happen between
them. The elements live as long as the block `values`.

**Program.** `pc` is the place in the call tree, one label per call that allocates or
chooses. The existence checks have any outcome (on a POSIX build they always fail, see
below), and each normalises the path once more. The parser is any caller that takes
tokens until an error, the end, or a syntax error of its own, and needs nodes, which are
one block; `Parser` counts them one by one. `crashed` is the NULL that `test_scanner`
prints, or an overrun that was noticed.

**Lifecycle.** The global state comes to life once, is complete before the program uses
it, and is released before the program exits, with a status that is decided once.
`Program` implements it (`ImplementsLifecycle`): arguments, file, tokens and heap disappear.

**Parser.** Each `ast_*` function is an operator from the parser's fields (cursor,
`hadError`, live nodes) to its status, the node it leaves in `*out`, and the fields
after it. The idioms that the C code repeats at every call are operators of their
own: `On` tells what a caller makes of a node, an error, or a failure that is no error;
`Then` is the commonest case (an error stays in its parent, any other failure turns the
parent into one); `Expect` is `parser_check_and_advance`. What each
function does differently is kept: which of them destroys what it built, which
overwrites it, which returns its parent. A node is its kind, its operator, the position
of its token (line and column) and its children, NULL pointers included. `live`
counts allocations less frees, where `Freed` follows the switch of
`ast_node_destroy`; so a node that is dropped or freed twice shows as a number.
Wording of errors and values of literals are left out; a literal is in range or not.
`ParserNew`, `ParserParse` and `ParserDestroy` are the three public functions. The
operators are mutually recursive, like the functions, by way of `Rule`, so this module
holds no theorem.

The model was compared with the C code itself, compiled with a counter in
`ast_node_new` and `ast_node_destroy`: on 86,000 streams (all of the run's, and
programs with up to four random changes) tree, positions, flag and both counts agree.

**Grammar.** `G(i)` is a set of pairs of a tree and the position behind it: all
derivations from there, none preferred. It shares with `Parser` only the node
constructor and the table of tiers' operators. `Begins` is what may begin a statement
behind another: all tokens (`Any`), or those that cannot continue the one before
(`Plain`), since the language has no statement separator and `a (b)` has two readings.

## Runs

| Run | Shows |
|---|---|
| `reader` | all calls in all orders on a long and a short file, `fread` stopping short anywhere and openings failing at each check and at `fopen`: faithful stream, real and final end, positions, lookahead, no `FILE*` lost but by reopening an open reader under its stored name, and the inductive invariant of the proofs |
| `reader_refines` | refinement of `CharStream` over three files and two spellings of one path; a reading caller reaches the end |
| `scanner` | about 10,800 texts: tiling, positions, texts, types, maximal munch, stack buffers, the values of integers; the end-of-stream token stands behind the whole file, also when reads fail; `scanner_read_all` returns |
| `functions` | one call of each function without state: 428 words near the keywords, numerals at the bounds of every type, every path of up to six bytes, where six are one too many, near-spellings of every option, traces that fit or do not; each answer against a definition of what it should be |
| `program` | the program in its four builds, every allocation refused (the buffer of a number among them) and every check failing somewhere: no block is misused but the buffer of an overlong number, the array keeps its tokens, the exit status tells the reason, the configuration is what the arguments say, nothing is kept after a good run, refinement of `Lifecycle`, and the program ends unless its file catches the scanner |
| `parser` | about 46,000 token streams: a program is parsed into its structure, what is parsed without an error is a program, errors are flagged, nodes in the tree are alive, a program leaves none behind |
| `reader_stale`, `scanner_comments`, `scanner_number_end`, `keywords_spelling`, `parser_malformed`, `parser_structure` | each violates one documented claim, see below |

**Bounds.** `SIZE` (the buffer, 4096 in the code) is 2, 3 or 5. The files are
shorter than, equal to and longer than it, so that every relation of position,
length and end of buffer occurs, and up to three refills. `MaxDelivered` bounds the
bytes taken from one opening: at least as many as the longest file has, and more than the
others have, so that reading past the end happens. `MaxStreams` bounds the `FILE*`s open at a time: two in `reader`, so
that one can be lost while another is open, and one where the caller is disciplined and needs no
more. The scanner's limits (`TOKEN_MAX_LENGTH` 128,
`TOKEN_STRING_MAX_LENGTH` 2048, the numeric spaces) are 2 to 4, so that short texts
reach them. Its texts are all texts of up to four characters over an alphabet for
words, for numbers and for strings, five for comments, three for operators, and
seven over `a`, `=` and space, which is longer than the buffer; and numbers that are as
long as the buffer or end with it. They include every
pair and triple of the characters a recogniser tells apart; its decisions look no
further than two characters. A few hundred more texts over words, operators, comments and
strings are read from files that fail, after any byte of any chunk, some of them between two
characters that belong together. The parser's streams are all of up to five tokens over
two alphabets of operators (all pairs of tiers, both kinds of associativity,
prefixes, parentheses), all of up to four over accessors and definitions, all pairs of
tokens, and ten programs that hold every statement, each also with one token left out,
put in or replaced; that reaches every return of every function but those that cannot
fail.

The integer types have 4, 5, 7 and 10 bits: the macros do not depend on the widths,
only on their order, and every type has values that only its bounds tell from the next
wider one's. A path has room for five bytes and the NUL, so every
way of cutting it off occurs. A trace has up to three frames of up to four characters, a line of five bytes
and a buffer of up to eight, so each frame may be the one that is cut. The command lines
are all of up to three arguments out of twelve and longer ones that reach the drivers with
options repeated, swapped and cut off; an option never looks further than the argument
behind it. The array grows first to two elements, then by two (8 and 2 in the code), and
up to six tokens make it grow three times: the first allocation, a growth behind tokens
that a caller has seen, and one behind elements that have moved. Numbers stand alone, among
lexemes and behind errors, and the overlong one also in front of another.

**Preconditions.** `clean` and `Undisturbed` restrict properties to readers whose
stream is still the file; `reader_stale` shows what happens on others.
`TokensTile` is limited to plain comments, and `LexemeIsSlice` to numbers the file does not
end in: the runs `scanner_comments` and `scanner_number_end` show why. `Foreseen` leaves out
files whose reads fail, where a lookahead may see less than the next read; it is a condition
of the properties that depend on one. `Looked` limits `TypeFromShape`, `LiteralDenotes` and
the numbers of `MaximalMunch` to those whose last character the lookahead saw. `ScanEnds` is of files whose reader stays `Intact`: of an
unclosed block comment, a slash before a backslash, and a file longer than the buffer with
stale bytes behind its end the loops do not end, nor do those of a comment in which a read
fails (`StuckInComment`). `Undisturbed` ends with a failed read, whose token is cut short;
`EndTokenAtEnd` goes on behind it, for a reader that has looked ahead into no short buffer:
one that has reads the NULs behind it and takes them for the end of the file. `functions`
leaves out the words of `keywords_spelling` (`Misread`). `PathsAgree` and `ConversionExact` state what the code gives where it
departs from its documents: a leading separator, every later component that begins with
a dot and whatever exceeds `OS_MAX_PATH_LENGTH` are dropped; a minus in front of an unsigned number is taken modulo the type.
`NothingKept` leaves out what the program leaks (below), by the conditions it names.
`NoBadFree` leaves out the copy of a number longer than the space of its type, and says that there is no
other write behind a block; `Ends` leaves out a file that catches the scanner (`Caught`). Both
are disagreements listed below, and the text that causes them is in the run.
`Grammar` follows the parser, not the document, where the parser declares a construct
unimplemented (arrays, tables, decimal literals, `%`) or narrower: `return` has an
expression, a for loop a condition, arguments begin with an identifier, `isSet` takes
one. `ValidIsParsed` compares trees without the arguments of calls, which the parser
drops. `ParsedIsValid` leaves out blocks and overwritten prefix operators, as
`parser_malformed` and `parser_structure` show it must; `NothingLeft` leaves out blocks and
arguments, which leak.

**Fairness.** One thread runs to completion, so `ScannerSpec` has weak fairness on
its next step, and so has `ProgramSpec`: a step that can be taken is taken. `ReadingSpec` has it on
`buf_reader_read` only: the caller that keeps reading, which the loops of the
scanner are. Nothing is assumed of `fread`.

**Deadlock** is checked for the reader and the functions. The scanner and the parser stop
once destroyed and the program once it has exited, so their runs do not check it; `ScanEnds`
and `Ends` say that they stop nowhere else.

## Proofs

The theorems hold for every value of the constants: every buffer size, every set of files
and names, every limit and width, every command line, every stream of tokens, with and without
failed reads and refused allocations. They assume what the modules' `ASSUME`s say: sizes and
limits are positive, contents are sequences of bytes, names normalise to names, no type is
wider than `INT64` and `UINT64` is as wide, a numeral is blanks, a sign, digits and what is
none, a path of one byte fits its buffer, words and arguments are strings. Seven theorems have a
hypothesis of their own, named below.

| Module | Theorems |
|---|---|
| `BufReader_proofs` | `IInvHolds`, `Typing` (`TypeOK`), `BoundsHold`, `FaithfulHolds`, `EndIsRealHolds`, `EOFIsFinalHolds`, `NoStreamLeakHolds`, `PositionTrackedHolds`, `LookaheadKeptHolds`, `StreamImplemented` |
| `Program_proofs` | `Invariance`, `ProgramTyping`, `NoBadFreeHolds`, `ElementsKeptHolds`, `LifecycleImplemented`, `ConfigFromArgumentsHolds`, `StatusTellsReasonHolds`, `NothingKeptHolds` |
| `Scanner_proofs` | `ScannerUsesReader`, `ScannerTyping`, `BuffersHoldHolds` |
| `ScannerSource_proofs` | `EndTokenAtEndHolds`, `TokenPositionsHolds` |
| `ScannerTokens_proofs` | `TypeFromShapeHolds`, `MaximalMunchHolds`, `LexemesAreSlices`, `LiteralDenotesHolds`, `TokensTileHolds` |
| `PureCalls_proofs` | `OnlyExactSpellingsHolds`, `ConversionExactHolds`, `PathsAgreeHolds`, `OptionsRecognisedHolds`, `TraceFitsHolds` |
| `Numeric_proofs`, `Recursion_proofs` | lemmas only |

**The reader.** The inductive invariant is `IInv`. `Faithful` (what a clean reader
delivered, followed by what it holds, is what `fread` handed out) is not inductive by
itself, because a refill moves bytes according to position and length (`Bounds`), and the
end needs to know that the flag came from `fread`'s indicator for this file (`EndFlag`),
which is only up when the offset has reached the file's length (`Bounds`). `Drained`, a part
of `Bounds`, says that a clean reader without a stream is empty; of the others it is false, since a
failing `fopen` over an open reader leaves its bytes. `NoStreamLeak` holds of every caller: the
streams not closed are the reader's own and one for each reopening of an open reader. The lemmas follow
the code: what `fread` returns, what a refill keeps and leaves, what a read takes, what
opening and closing leave behind. Then there is one step per action.

**Its stream.** `PositionTracked` chooses the last newline of what was delivered. That there
is one is an induction over the text, which `PlaceInv` avoids: it carries the newline along
as a witness, and each read either keeps it or brings the next. `EOFIsFinal` and
`LookaheadKept` are action properties and follow from `IInv` by the kinds of character
calls. `StreamImplemented` shows `CleanSpec => ImplementsStream` from `StreamInv`: a stream
that is not open owes no byte, and an error leaves none to show. Each call is then one step
of `CharStream`, and each refill nothing. Its hypothesis is `Failing = {}`, as in the run
`reader_refines`: `CharStream` has no failure, and a reader whose read has failed half way
does answer differently from a text.

**The program.** `ProgramInv` says who owns what. `Owned`: each pointer is NULL or refers to a
live block of its role. Roles keep two pointers from being the same block, so a free
through one leaves the others alone, which is all that most steps need (`Spares`).
`Staged` and `Relied` say what each place in the code may count on: which
pointers are not NULL, how far the global state has come, whether the status is decided.
`Underway` is the token between its allocation and the array, whose text belongs to nobody
else yet. The buffer of a number has a role of its own. `Stored` ties the elements to their block and capacity. `NoBadFree` and
`ElementsKept` are parts of it or follow; for the former, `Overran` says that an overrun
is of a number that the source holds. `LifecycleImplemented` maps every step to a step of
`Lifecycle` or a stutter; `Staged` is what excludes the others.

**Its arguments, status and leftovers.** `ConfigFromArguments` reads all arguments at once,
from the first to the end of the options; the program takes one option after the other. `ArgumentsInv`
connects the two: in front of each option, the configuration says what the options
behind it say (`Says`), and the places that the reading reaches are those behind and those it
reaches from here on (`Consuming`). That theorem's hypothesis is
`STRING = Seq(Character)`, for any set of characters: this is how TLA+ defines a string, but
the prover knows strings only as values, and the quotes are taken off a name by cutting it. `ReasonInv`
says that whatever the code checks has not been refused as long as it runs, which of the
three reasons is behind each status once it is decided, and which is behind a crash. `KeptInv` asks for
owners from the other side: each live block belongs to a pointer or is of a kind that is known
to leak (`Attached`), and the pointers that are still to be set are NULL (`Unset`), since a
pointer set twice loses a block. The buffer of a number is set again with each number; `Handed` says
that it is NULL wherever no number is on its way. `ProgramInv` does not say that, because no block is misused by it.

**The scanner.** `ScannerUsesReader` proves that every step of the scanner is one of the
reader or none, so that all of the reader's theorems hold of the reader inside the scanner.
`ScanInv` adds what the locals are good for at each place (`Suits`): a text within its
buffer, a lookahead within the reader's reach, a type that is known before it is copied.
`ScanStepShape` divides the steps into those that go on (`Lands`) and those that make a
token (`Makes`), and the theorems about tokens need only these two.

**The scanner and the file.** `Intact` allows a reader that has looked ahead into a short
buffer if the file is shorter than the buffer. `Whole` says what such a reader
holds: all of the file in what was taken and what is left, whatever bytes follow.
`StreamLife` carries that from the opening on. `EndTokenAtEndHolds` supposes `TextFiles`: no
file holds a NUL. It needs this because `scanner_read_next` takes a NUL for the end, wherever
it stands. `TokenPositionsHolds` has no hypothesis; its invariant `MarksInv` says of the
running recogniser and of every token that its line and column are those of a place in what
was taken, with the newline as witness again. With a reader that is `Intact`, that place is
one in the file.

**The tokens.** `View` says what a reader shows: the bytes of the text from the cursor on,
and a NUL behind the last. From it follow the two facts that every recogniser rests on,
`PeekDoes` and `LookSeen`: a lookahead that answers, answers with the next character of the
file or with that NUL, wherever a chunk ends. `LexInv` has three parts. `Base` is what was
known of the reader. `LocalsInv` says at each place what the locals stand for: of a word or a
string, that the text so far is that of the bytes taken since it began (`Recog`); of a number,
that the characters passed by the lookahead are a sign, digits and one point, and what its
flags know of them (`Looks`, `Marked`, `Decided`). `TokensInv` says the same of the tokens
made (`Lexeme`, `Complete`). The two passes over a number meet in `Decided`: the first
fixes type and length, the second copies as many characters or ends with the file. So
`TypeFromShape` and `MaximalMunch` follow; the latter supposes `SIZE >= 2`, as a buffer of one
byte cannot show the second character of an operator. `LexemesAreSlices` also needs
`EdgeInv`: what a character literal and the body of a comment find behind the end of
a file that the buffer holds as a whole. `TokensTileHolds` needs `TileInv`, for the noise
between the tokens: where the running loop is, in the reading of whitespace and comments
that the text calls for (`NoiseAt`). It supposes `SIZE >= 2` too.

**Numbers.** `LiteralDenotes` joins the scanner to the conversion. The scanner's part is
`IntegerForm`: at most one minus, in front, and never of an unsigned type; digits; nothing
that is a digit behind them. The conversion's is `ConvertSays`, of any text of that shape:
`strtoll` finds just these digits (`NumberFound`), the loop over them computes
what they spell (`SpelledIsValue`, by induction over the partial sums), and the checks against
the bounds answer rightly because the range of each type lies in that of the widest
(`RangesNest`). The latter needs that powers of two grow, which the provers do not know of `^`: they
are counted as subsets (`PowerCounts`). `ConversionExactHolds` says the same of every
numeral with blanks, a plus sign and other characters behind it.

**Paths and traces.** That a normalized path stays what it is needs two facts: a path that is
rebuilt from parts is read as these parts (`RebuiltRead`), and what is kept once is kept again
(`KeptShrinks`). That it fits its buffer needs `RebuiltFits`: with a separator behind
each piece, a scan has used no more bytes than it has read. Each is an induction over a sequence
that grows at its end; `ScannedGrows`, `KeptGrows`, `RebuiltGrows` and `NamesGrow`
say what one element more does in each loop. `TraceFitsHolds` follows the loop of
`trace_sprint` with the lines it has written. A call is one step, so the invariant of all five
theorems of `PureCalls`, `CallsInv`, only says what the result is.

**Words and options.** Both theorems are of every string, with the hypothesis
`STRING = Seq(Character)` as above. What the provers cannot know are the characters of the words
in the code: `LettersAssumption` and `HyphensAssumption` list these, as facts about constants that
TLC evaluates ("--mode" is "--" and "mode"; no long option begins with another), and say nothing of what
the code does with them. The trie is left with a comparison behind a prefix that both sides
have (`InferSays`, `PrefixSays`), so what it takes for a keyword is one (`TrieSays`), unless the word
is `Misread`: `OnlyExactSpellingsHolds` supposes that none is, and `keywords_spelling` shows
such a word. An argument begins with two pieces where it begins with the first and goes on with
the second (`BeginsBoth`); from this follow which of its characters are looked at and what it was
taken for (`HyphensBegin`, `OptionCases`, `OptionSays`).

**Recursive definitions.** A recursive function is, for the provers, some function that
satisfies its equation *if there is one*. `Recursion_proofs` proves that there is, when
the calls lead downwards (`RecursionExists`, `LoopExists`), and induction over numbers
(`NumbersUpTo`) and over sequences (`SequencesGrow`), from the least number of a set. A loop
over a sequence (`RunsTo`) is unique, and over a longer one takes a turn more (`RunUnique`,
`RunAppend`). So the invariants above can speak of the reading of a
text or of arguments and be proved.

`IInv`, `ProgramInv`, `StreamInv` and `KeptInv` were model-checked on the runs' instances before
they were proved; `IInv` still is, in the run `reader`.

**What the proofs found.** An attempt at `MaximalMunch` showed that it, `TokensTile`
and `TypeFromShape` did not hold as they were stated first, over instances whose files were too short to tell. A
read that fails under a lookahead is forgotten (`buffered_reader.c:90`, below), so two
characters on either side of a chunk become two tokens; and a number as long as the
buffer has its type decided before its suffix is seen. The properties now say so
(`Foreseen`, `Looked`), and the instance holds such files (`Straddled`, `LongNumberTexts`).
`LexemeIsSlice` failed for tokens that do not begin in the file: behind a block comment that
the file ends in, the bytes that a refill leaves behind the end may be scanned, and end as
words; it is now of tokens that begin in the file. `TokensTile` failed for comments whose first
star, or first character in front of a slash, is not that of their end; `PlainComments` says this now.

**Left to TLC.** Liveness (`Ends`, `DrainEnds`, `ScanEnds`) and everything about fairness is
out of the provers' reach. `EverySpelling` is about the 25 spellings alone, and the run has all of
them; the provers, which know nothing of the characters of a string constant, could only be told. The parser's operators are recursive, and its module can hold
no theorem. `CommentsDropped`, `NumberIsSlice` and the other properties of the violated runs do not hold.

## Disagreements with the documents

Six have a run and are listed in `PROJECT.json`. Others met while modelling, each of
which follows from the lines given, and all of which the model contains:

- `buffered_reader.c:209`: `buf_reader_open(reader, NULL)` on an open reader overwrites
  the `FILE*`, which is then never closed, whether `fopen` succeeds or fails (`reopenings`).
  If it fails, the buffer, the position and `stateEOF` stay. An opening by another name then finds
  the reader closed, resets nothing (`:184`), succeeds, and delivers the bytes of the
  old file as those of the new one, or its end. The reader is not `clean` then.
- `scanner.c:714`: an unclosed block comment never ends: the lookahead at the end of
  the file makes the reader count bytes that were read before. `Ends` leaves it out.
- `buffered_reader.c:195-213`: a failed opening sets `stateError`. A later successful
  opening does not clear it unless it closes an open reader first; no refill reads anything then,
  and the reader delivers at most what it still held.
- `os.c:287`: the POSIX branch passes a NULL result to `stat`, which fails.
- `scanner.c:1482`: the test for `\` after a slash (a comment opener is `*` or `/`)
  makes `scanner_read_next` call itself without consuming anything. `Ends` leaves it out.
- `scanner.c:1025`: a fractional number that the file ends in is an `INT32`; one with
  the unsigned suffix is an error (`:935`).
- `scanner.c:1017`: the type of a number is decided by `buf_reader_peek_n`, which looks no
  further than a buffer; a number of 4096 characters or more is an `INT32`, also with a dot,
  and what follows the buffer is scanned as another token.
- `buffered_reader.c:90`: a read that fails sets `stateError` only when it leaves the buffer
  empty. Under a lookahead with bytes left it shows nothing, and the next read may succeed: `==`
  on either side of a chunk becomes two `=`.
- `scanner.c:1128`: the copy of a number is not bounded by the space for its type, so a long
  one is written behind its block of the heap (`overrun`).
- `scanner.c:1203`: a string the file ends in is a string token, not an error.
- `scanner.c:795`: a word of exactly the maximum length is rejected as longer.
- `buffered_reader.c:62`: a read that fails while the scanner looks ahead into a short
  buffer makes the bytes behind it part of the source, and the NULs among them end it: the
  rest of the file is silently dropped (`EndTokenAtEnd` needs `clean` for this).
- `scanner.c:1543`: a failed read becomes an error token, which
  `docs/architecture/SCANNER.md:193` says is always about the source, and the loop
  over a line comment (`:697`) does not end after one.
- `parser.c:503`: every block ends by a failed statement, so `hadError` ("Whether a
  syntax error has been encountered") is set by any program with a block, and a scanner
  error behind it (`:457`) is not surfaced. A bare `return`, which EBNF.md allows, is such
  a failure, and disappears from a block.
- `parser.c:805`: an error in the initialiser of a for loop is overwritten with NULL:
  `for (define , a, ) {}` is accepted.
- `parser.c:3122`: a function whose value failed without being an error node is a
  success with the error inside.
- `parser.c:3422`: the arguments of a call that parse are stored nowhere and leak; the
  errors among them are what the node keeps.
- `ast.c:106`: `ast_node_destroy` has no case for a function value, whose body and
  parameters leak; `ast.h:108` says that it "recursively releases the whole subtree".
- `parser.c:2696` and `:3397` describe crashes (a failing operand, `f()`) that the code
  below them no longer has.
- `os.c:110`: the working copy of `os_path_normalize` is never freed. `:143` compares one
  character, so every component but the first that begins with a dot, `..` and `.hidden`
  too, counts as `.` and is dropped; `/a` becomes `a`. `:116`: a path of `OS_MAX_PATH_LENGTH`
  bytes or more is cut off silently, and names another file. `os_path_basename`, which would
  allocate one byte too few, has no caller.
- `strings.c:95`: `str_equals` compares as many bytes as it is told, also behind the end of
  a shorter argument.
- `numeric.c:57`: an unsigned conversion accepts `-1`; the range check behind it is never
  false. Only the scanner keeps a sign away from it.
- `cli.c:41` documents `--interactive`, which the full build rejects; `--helpme` is
  `--help`; in the compiler and the runner `-i` falls through to `-h` (`:259`).
- `cli.c:359`: `-i` or `-m` without a value, and `-m` with an unknown one, are silently
  accepted; a repeated `-i` and `-i f -h` leak the name; `exit_err_bad_usage_f` (`:315`)
  leaves both structs behind.
- `exit.h:59`: `tula_exit_err_bad_usage` exits with the status of a lack of memory; the
  command line does not use it.
- `scanner.c:1318`: the struct of a token is copied into the array and never freed, where
  `docs/guidelines/ENGINE_CONVENTIONS.md` (its section 1) gives it an owner.
- `scanner.c:1277`: the reader and the scanner answer NULL to a lack of memory, the other
  parts exit; `test.c:72` prints the token read from a NULL scanner.
- `trace.h` promises the semantics of `snprintf`; `trace.c:393` counts what it wrote, and
  of a line of 512 bytes or more copies what is behind it.
- `tula.c:61`: the result of `run_test` is ignored, and the program exits with 0.

## Not modelled

A parser over the scanner is not composed: the error tokens of one in the tree of the other. The
two meet in the types of tokens only.

Left out for good: the opcode table (data), the text of help, messages and debug printing
(output), the capture of a stack (the platform's), the string searches and
`os_path_basename` (no caller), the former parser `parser_bak.c` (not built), the code
generator and the machine (not written), the test framework.
