------------------------------ MODULE Program ------------------------------
(***************************************************************************)
(* The program as a whole: main of src/tula.c and, in a debug build, the   *)
(* drivers of src/test.c, which open the input file and scan or parse it.  *)
(* Every allocation on the way may be refused, every check of the file may *)
(* fail.  What the scanner finds and what the parser makes of it are the   *)
(* matter of modules Scanner and Parser; here it is who owns which block,  *)
(* and how the program ends.                                               *)
(***************************************************************************)
EXTENDS CommandLine, TokenArray

VARIABLE driver     \* the pointers of the running driver, and those in its structs

programVars == <<processVars, cliVars, tokenVars, driver>>

NoDriver == [reader |-> NULL, path |-> NULL, stream |-> NULL,
             scanner |-> NULL, parser |-> NULL, tree |-> NULL]

ProgramInit == ProcessInit /\ CommandLineInit /\ TokenArrayInit /\ driver = NoDriver

\* TULA_EXIT_ACCESS_STATE_BEFORE_INIT
EARLY_ACCESS == 4

\* The return of a driver.  main does not look at what it returns.
DriverReturns == Goto("teardown")

-----------------------------------------------------------------------------
\* main and run_test; the builds other than debug do nothing yet.
RunTest ==
  /\ pc = "run"
  /\ IF build # "debug" THEN DriverReturns /\ UNCHANGED mem
     ELSE IF gstate.block = NULL THEN ExitWith(EARLY_ACCESS) /\ UNCHANGED mem
     ELSE /\ mem' = Touch(mem, gstate.cli)
          /\ IF config.mode = "version" THEN DriverReturns ELSE Goto("reader_new")
  /\ UNCHANGED <<cliVars, gstate, config, tokenVars, driver>>

\* buf_reader_new(NULL), and the first checks of buf_reader_open.
ReaderNew ==
  /\ pc = "reader_new"
  /\ \E o \in Malloc(mem, "reader") :
       /\ mem' = o.mem
       /\ driver' = [driver EXCEPT !.reader = o.pointer]
       /\ IF o.pointer = NULL \/ config.file = NULL THEN DriverReturns ELSE Goto("open")
  /\ UNCHANGED <<cliVars, gstate, config, tokenVars>>

\* os_path_normalize: a working copy, which is not freed, and the path.
Normalized(m) ==
  UNION {IF t.pointer = NULL THEN {t} ELSE Malloc(t.mem, "path") : t \in Malloc(m, "temp")}

\* buf_reader_open: the path is stored, NULL when there is no memory for it.
OpenPath ==
  /\ pc = "open"
  /\ \E o \in Normalized(Touch(mem, config.file)) :
       /\ mem' = o.mem
       /\ driver' = [driver EXCEPT !.path = o.pointer]
       /\ IF o.pointer = NULL THEN DriverReturns ELSE Goto("open_exists")
  /\ UNCHANGED <<cliVars, gstate, config, tokenVars>>

\* os_path_exists and os_path_is_file, each with a normalized path of its own; a
\* check whose path could not be made fails.
OpenChecks ==
  /\ pc \in {"open_exists", "open_is_file"}
  /\ \E o \in Normalized(Touch(mem, driver.path)) :
       /\ mem' = Free(o.mem, o.pointer)
       /\ \/ DriverReturns
          \/ /\ o.pointer # NULL
             /\ Goto(IF pc = "open_exists" THEN "open_is_file" ELSE "fopen")
  /\ UNCHANGED <<cliVars, gstate, config, tokenVars, driver>>

\* fopen: from here on there is a source.
OpenFile ==
  /\ pc = "fopen"
  /\ \E o \in Malloc(Touch(mem, driver.path), "stream") :
       /\ mem' = o.mem
       /\ driver' = [driver EXCEPT !.stream = o.pointer]
       /\ IF o.pointer = NULL THEN DriverReturns /\ UNCHANGED source
          ELSE Goto("scanner_new") /\ source' \in TokenStreams
  /\ UNCHANGED <<cliVars, gstate, config, tokens, token, buffer, overrun, caller>>

\* scanner_new: two blocks, and NULL when one of them is refused.  test_scanner hands
\* the NULL it then reads to token_print; test_parser gives up quietly.
ScannerNew ==
  /\ pc = "scanner_new"
  /\ \E s \in Malloc(mem, "scanner") :
       \E t \in (IF s.pointer = NULL THEN {s} ELSE Malloc(s.mem, "tokens")) :
         IF t.pointer = NULL
         THEN /\ mem' = Free(t.mem, s.pointer)
              /\ IF config.mode = "scanner" THEN Goto("crashed") ELSE DriverReturns
              /\ UNCHANGED <<tokens, caller, driver>>
         ELSE /\ mem' = t.mem
              /\ driver' = [driver EXCEPT !.scanner = s.pointer]
              /\ tokens' = NoTokens(t.pointer)
              /\ IF config.mode = "scanner" THEN ReadToken("print_first")
                 ELSE Goto("parser_new") /\ UNCHANGED caller
  /\ UNCHANGED <<cliVars, gstate, config, source, token, buffer, overrun>>

\* The token that a caller of scanner_read_next holds, with its text.
HeldTouched(m) ==
  IF token.content = NULL THEN Touch(m, token.shell)
  ELSE Touch(Touch(m, token.shell), token.content)

-----------------------------------------------------------------------------
(* test_scanner: prints the first token whatever it is, and the others up to *)
(* the end or an error.  It destroys nothing.                                *)

TestScanner ==
  /\ pc \in {"print_first", "print"}
  /\ mem' = HeldTouched(mem)
  /\ IF pc = "print" /\ token.type \in {"ERROR", "EOS"}
     THEN DriverReturns /\ UNCHANGED caller
     ELSE ReadToken("print")
  /\ UNCHANGED <<cliVars, gstate, config, source, tokens, token, buffer, overrun, driver>>

-----------------------------------------------------------------------------
(* test_parser *)

ParserNew ==
  /\ pc = "parser_new"
  /\ \E o \in Malloc(mem, "parser") :
       /\ mem' = o.mem
       /\ driver' = [driver EXCEPT !.parser = o.pointer]
       /\ IF o.pointer = NULL THEN ExitWith(NO_MEM) /\ UNCHANGED caller ELSE ReadToken("parse")
  /\ UNCHANGED <<cliVars, gstate, config, source, tokens, token, buffer, overrun>>

\* parser_parse begins the tree; its nodes are one block here.
ParserParse ==
  /\ pc = "parse"
  /\ \E o \in Malloc(mem, "tree") :
       /\ mem' = o.mem
       /\ driver' = [driver EXCEPT !.tree = o.pointer]
       /\ IF o.pointer = NULL THEN ExitWith(NO_MEM) ELSE Goto("parsing")
  /\ UNCHANGED <<cliVars, gstate, config, tokenVars>>

\* The parser looks at the current token: it needs a node and gets none, it takes
\* the token, or it has come to its end, which a syntax error may be at any token.
Parsing ==
  /\ pc = "parsing"
  /\ \/ mem' = RefusedTo(HeldTouched(mem), "tree").mem /\ ExitWith(NO_MEM) /\ UNCHANGED caller
     \/ /\ token.type \notin {"ERROR", "EOS"}
        /\ mem' = HeldTouched(mem)
        /\ ReadToken("parsing")
     \/ mem' = HeldTouched(mem) /\ Goto("parsed") /\ UNCHANGED caller
  /\ UNCHANGED <<cliVars, gstate, config, source, tokens, token, buffer, overrun, driver>>

\* buf_reader_destroy closes the stream first.
ReaderDestroy(m) == Free(Free(Free(m, driver.stream), driver.path), driver.reader)

\* Slip: the reader is not destroyed with its scanner.
ScannerDestroyAlone(m) == Free(ArrTokenDestroy(m), driver.scanner)

\* scanner_destroy owns the reader.
ScannerDestroy(m) == Free(ArrTokenDestroy(ReaderDestroy(m)), driver.scanner)

\* ast_node_print, then parser_destroy, which owns the scanner and the tree.
ParserDestroy ==
  /\ pc = "parsed"
  /\ mem' = Free(Free(ScannerDestroy(Touch(mem, driver.tree)), driver.tree), driver.parser)
  /\ tokens' = NoTokens(NULL)
  /\ driver' = NoDriver
  /\ DriverReturns
  /\ UNCHANGED <<cliVars, gstate, config, source, token, buffer, overrun, caller>>

-----------------------------------------------------------------------------
ProcessOnly == UNCHANGED <<cliVars, tokenVars, driver>>
CommandLineOnly == UNCHANGED <<tokenVars, driver>>
TokensOnly == UNCHANGED <<cliVars, driver>>

ProgramNext ==
  \/ SetupGlobalState /\ ProcessOnly
  \/ ParseArgs /\ CommandLineOnly
  \/ NewParams /\ CommandLineOnly
  \/ NewConfig /\ CommandLineOnly
  \/ ConsumeNextOption /\ CommandLineOnly
  \/ Operand /\ CommandLineOnly
  \/ Configured /\ CommandLineOnly
  \/ RunTest \/ ReaderNew \/ OpenPath \/ OpenChecks \/ OpenFile \/ ScannerNew
  \/ Scan /\ TokensOnly
  \/ ScanNumber /\ TokensOnly
  \/ TokenNew /\ TokensOnly
  \/ TokenContent /\ TokensOnly
  \/ ArrTokenAdd /\ TokensOnly
  \/ TestScanner \/ ParserNew \/ ParserParse \/ Parsing \/ ParserDestroy
  \/ MainTeardown /\ ProcessOnly
  \/ TulaExit /\ ProcessOnly

\* One thread, which takes its next step.
ProgramSpec == ProgramInit /\ [][ProgramNext]_programVars /\ WF_programVars(ProgramNext)

-----------------------------------------------------------------------------
(* Properties *)

Labels ==
  {"main", "cli", "new_params", "new_config", "options", "operand", "configured", "run",
   "reader_new", "open", "open_exists", "open_is_file", "fopen", "scanner_new", "scan", "token_new",
   "token_content", "token_add", "print_first", "print", "parser_new", "parse", "parsing",
   "parsed", "teardown", "exit", "exited", "crashed"}

\* What a command line may say, and the file names it may name.
Words == UNION {{args[i] : i \in 1 .. Len(args)} : args \in ArgumentLists}
FileNames == {""} \cup {FileName(word) : word \in Words}
Element == [type : TokenType, content : Pointer]

\* Type correctness of the program.
ProgramTypeOK ==
  /\ pc \in Labels
  /\ status \in {Running, GOOD, BAD_USAGE, NO_MEM, EARLY_ACCESS}
  /\ mem \in Heap
  /\ gstate \in [block : Pointer, cli : Pointer]
  /\ config \in [block : Pointer, mode : Modes \cup {"none"}, file : Pointer,
                 name : FileNames, interactive : BOOLEAN]
  /\ build \in Builds
  /\ argv \in ArgumentLists
  /\ params \in [block : Pointer, pointer : Nat]
  /\ source \in TokenStreams \cup {<<>>}
  /\ tokens \in [block : Pointer, count : Nat, capacity : Nat, values : Pointer,
                 elements : Seq(Element)]
  /\ token \in [type : TokenType, shell : Pointer, content : Pointer]
  /\ buffer \in Pointer /\ overrun \in BOOLEAN
  /\ caller \in Labels \cup {"none"}
  /\ driver \in [reader : Pointer, path : Pointer, stream : Pointer,
                 scanner : Pointer, parser : Pointer, tree : Pointer]

\* The program frees no block twice, uses none after it is freed or before it is
\* made, and writes no token behind its array: by every way out of it, whatever is
\* refused.  Only a number longer than the space of its type is written behind its
\* buffer; for the rest of such a run the heap is taken as if it had not been hit.
NoBadFree ==
  /\ ~mem.fault
  /\ overrun => \E i \in 1 .. Len(source) : source[i] = "OVERLONG"

TypeAt(i) == IF i <= Len(source) THEN TypeOf(source[i]) ELSE "EOS"

\* The places of the tokens with a text.
Filled == {i \in 1 .. tokens.count : tokens.elements[i].content # NULL}

ArrayKept ==
  /\ tokens.count <= tokens.capacity
  /\ tokens.capacity > 0 => tokens.values \in mem.live
  /\ \A i \in 1 .. tokens.count :
       /\ tokens.elements[i].type = TypeAt(i)
       /\ i \in Filled <=> TypeAt(i) # "EOS"
  /\ \A i \in Filled : tokens.elements[i].content \in mem.live
  /\ \A i, j \in Filled : tokens.elements[i].content = tokens.elements[j].content => i = j

LastHeld ==
  /\ token.shell \in mem.live
  /\ tokens.elements[tokens.count] = [type |-> token.type, content |-> token.content]

\* However often the array has moved, it holds the tokens read so far, in order, each
\* with a live text of its own; and the token that the caller holds is the last one.
ElementsKept ==
  tokens.block # NULL /\ pc \notin {"exit", "exited"} =>
    /\ ArrayKept
    /\ pc \in {"print_first", "print", "parse", "parsing", "parsed"} => LastHeld

(* The arguments, read at once *)

Option(i) == ParseOptionType(build, argv[i])
TakesValue == {"INPUT_FILE", "TEST_MODE"}

\* The places of the options, with the argument that ends them.
Reached ==
  LET from[i \in 1 .. Len(argv) + 2] ==
        IF i > Len(argv) THEN {}
        ELSE IF Option(i) \in TakesValue THEN {i} \cup from[i + 2]
        ELSE IF Option(i) = "INTERACTIVE" THEN {i} \cup from[i + 1]
        ELSE {i}
  IN  from[1]

Has(options) == \E i \in Reached : Option(i) \in options
Greatest(S) == CHOOSE i \in S : \A j \in S : j <= i
Values(option) == {i + 1 : i \in {j \in Reached : Option(j) = option /\ j < Len(argv)}}
Unquoted(arg) == IF IsQuoted(arg) THEN SubSeq(arg, 2, Len(arg) - 1) ELSE arg

\* The arguments that name the file: the values of -i, or in the full build the
\* operand behind the options.
Files ==
  IF build = "debug" THEN Values("INPUT_FILE")
  ELSE IF build = "full"
  THEN {i \in 1 .. Len(argv) :
          IF Has({"UNKNOWN"}) THEN i = Greatest(Reached)
          ELSE Has({"END_OF_OPTIONS"}) /\ i = Greatest(Reached) + 1}
  ELSE {}

\* The exit status tells why the program ended: out of memory, whichever of the
\* checked allocations was refused; a bad option, if the options reach one; good in
\* every other case.  The global state is never missed, only the drivers' reader and
\* scanner may be refused without a word, and only a refused scanner or an overlong
\* number crashes the program.
StatusTellsReason ==
  /\ pc = "exited" =>
       /\ status = NO_MEM <=>
            mem.refused \cap {"gstate", "params", "config", "file", "number", "shell",
                              "content", "values", "parser", "tree"} # {}
       /\ status = BAD_USAGE <=> status # NO_MEM /\ Has({"INVALID"})
       /\ status \in {GOOD, BAD_USAGE, NO_MEM}
  /\ pc = "crashed" => mem.refused \cap {"scanner", "tokens"} # {} \/ overrun

\* What the driver runs with is what the arguments say: of each option the last value
\* counts, of the modes the last that is one; and a file's name loses its quotes.
ConfigFromArguments ==
  pc = "run" =>
    LET modes == {i \in Values("TEST_MODE") : IsMode(argv[i])}
    IN  /\ IF modes = {} THEN config.mode = "version"
           ELSE BeginsWith(argv[Greatest(modes)], config.mode)
        /\ IF Files = {} THEN config.file = NULL
           ELSE /\ config.file \in mem.live
                /\ config.name = Unquoted(argv[Greatest(Files)])
        /\ config.interactive <=> Has({"INTERACTIVE"})

\* When all went well, what test_parser, the commands that only print and the builds
\* without a driver leave behind are the structs of the tokens and the working copies of
\* the paths.  Left out: a file named twice or named in front of --help (its name is
\* lost), an opening that failed and test_scanner, which free nothing.
NothingKept ==
  /\ pc = "exited" /\ status = GOOD /\ mem.refused = {}
  /\ mem.made["reader"] = 0 \/ mem.made["parser"] = 1
  /\ mem.made["file"] <= IF Has({"HELP", "VERSION_SHORT", "VERSION_FULL"}) THEN 0 ELSE 1
  => \A block \in mem.live : block[1] \in {"shell", "temp"}

Life == INSTANCE Lifecycle WITH
  Statuses <- {GOOD, BAD_USAGE, NO_MEM},
  state <- IF gstate.block # NULL THEN (IF gstate.cli # NULL THEN "ready" ELSE "set up")
           ELSE IF mem.made["gstate"] = 0 THEN "none" ELSE "released",
  status <- status,
  outcome <- IF pc \in {"exited", "crashed"} THEN pc ELSE "running"

\* "These guarantee consistent cleanup and exit codes" (ENGINE_CONVENTIONS.md, of the
\* exit helpers): the program implements the lifecycle of its global state.
ImplementsLifecycle == Life!Spec

\* Text of the file that scanner_read_next never gets past.
Caught == pc = "scan" /\ Found = "ENDLESS"

\* Whatever its arguments and its memory, the program ends, unless its file catches the
\* scanner in a loop without an end.
Ends == <>(pc \in {"exited", "crashed"} \/ Caught)

=============================================================================
