----------------------------- MODULE PureCalls -----------------------------
(***************************************************************************)
(* The functions of the program that keep no state: each action is one     *)
(* call, with its argument and its result.  Their definitions are in the   *)
(* modules this one extends, which the modules with state use as well.     *)
(***************************************************************************)
EXTENDS Keywords, Numeric, Paths, Options, Trace

CONSTANTS
  Words,        \* words of a source, strings
  Numerals,     \* records: type, sign, digits, tail (sequences of bytes)
  PathNames,    \* paths, sequences of bytes
  Arguments,    \* arguments of the command line, strings
  Traces        \* records: frames, bufLen

\* A numeral is white space, a sign, digits, and what cannot be one of them; a trace
\* is the lengths of its lines.
ASSUME ArgumentsAssumption ==
  /\ \A n \in Numerals :
       /\ n.type \in IntegerTypes
       /\ n.sign \in Seq(Int) /\ n.digits \in Seq(48..57) /\ n.tail \in Seq(Int)
       /\ \A i \in DOMAIN n.sign :
            IsSpace(n.sign[i]) \/ (i = Len(n.sign) /\ n.sign[i] \in {PLUS_SIGN, MINUS_SIGN})
       /\ \A i \in DOMAIN n.tail : ~Numeral(n.tail[i])
  /\ PathNames \subseteq Seq(Int)
  /\ \A w \in Words \cup Arguments : w \in STRING
  /\ \A t \in Traces : t.frames \in Seq(Int) /\ t.bufLen \in Nat

VARIABLES function, argument, result

vars == <<function, argument, result>>

Init == function = "none" /\ argument = "none" /\ result = "none"

Call(f, arg, value) ==
  function = "none" /\ function' = f /\ argument' = arg /\ result' = value

GetIdentifierType == \E word \in Words : Call("get_identifier_type", word, IdentifierType(word))

StrToInt == \E n \in Numerals : Call("str_to_int", n, Convert(n.type, n.sign \o n.digits \o n.tail))

OsPathNormalize == \E path \in PathNames : Call("os_path_normalize", path, Normalize(path))

CliParseOptionType ==
  \E arg \in Arguments, build \in Builds :
    Call("parse_option_type", [arg |-> arg, build |-> build], ParseOptionType(build, arg))

TraceSprint == \E t \in Traces : Call("trace_sprint", t, Sprint(t.frames, t.bufLen))

Return ==
  function # "none" /\ function' = "none" /\ argument' = "none" /\ result' = "none"

Next ==
  GetIdentifierType \/ StrToInt \/ OsPathNormalize \/ CliParseOptionType \/ TraceSprint \/ Return

Spec == Init /\ [][Next]_vars

-----------------------------------------------------------------------------
(* Words *)

\* "Only an exact spelling match becomes a keyword token" (SCANNER.md).
OnlyExactSpellings ==
  function = "get_identifier_type" /\ result # IDENT => argument \in Spellings(result)

\* The trie reaches every spelling of the token table.
EverySpelling ==
  function = "get_identifier_type" =>
    \A t \in DOMAIN VALUE : argument \in Spellings(t) => result = t

\* The words that are taken for a keyword they only begin with, and the ones that differ
\* from "define" in the letter that no comparison reaches.
Misread(w) ==
  \/ Starts(w, "do") /\ w # "do"
  \/ Starts(w, "if") /\ w # "if"
  \/ Len(w) = 6 /\ Starts(w, "def") /\ From(w, 5) = "ne" /\ w # "define"

\* The prefixes that lead to a comparison, their lengths, and the keyword behind them.
Prefixes ==
  {<<"v", 1, "TOK_VARIABLE">>, <<"const", 5, "TOK_CONSTANT">>, <<"cont", 4, "TOK_CONTINUE">>,
   <<"def", 3, "TOK_DEFINE">>, <<"el", 2, "TOK_ELSE">>, <<"fa", 2, "TOK_FALSE">>,
   <<"fo", 2, "TOK_FOR">>, <<"fu", 2, "TOK_FUNC">>, <<"is", 2, "TOK_IS_SET">>}

\* The letters of the words written out in the trie.
ASSUME LettersAssumption ==
  /\ \A t \in DOMAIN VALUE : t # IDENT /\ \A spelling \in Spellings(t) : spelling \in STRING
  /\ \A l \in DOMAIN Straight :
       l \in STRING /\ Len(l) = 1 /\ Straight[l] \in DOMAIN VALUE /\ Starts(VALUE[Straight[l]], l)
  /\ \A p \in Prefixes :
       /\ p[1] \in STRING /\ Len(p[1]) = p[2] /\ p[3] \in DOMAIN VALUE
       /\ \A spelling \in Spellings(p[3]) : Starts(spelling, p[1])
  /\ From(VALUE["TOK_DEFINE"], 5) = "ne" /\ Len(VALUE["TOK_DEFINE"]) = 6

-----------------------------------------------------------------------------
(* Numbers *)

\* What a sign, behind white space or not, and digits denote.
Denoted(sign, digits) ==
  IF sign # <<>> /\ sign[Len(sign)] = MINUS_SIGN THEN -Spelled(digits) ELSE Spelled(digits)

\* A conversion yields the number that the text denotes exactly when the type can
\* hold it, and otherwise says which way it is out of range; without digits it is
\* invalid.  A negative number of an unsigned type is left out: its sign check never
\* fails, and the scanner makes no such token.
ConversionExact ==
  function = "str_to_int" =>
    LET t == argument.type
        n == Denoted(argument.sign, argument.digits)
    IN  /\ result.status = "INVALID" <=> argument.digits = <<>>
        /\ argument.digits # <<>> /\ (n >= 0 \/ t \in SignedTypes) =>
             /\ result.status = "OK" <=> n \in TypeMin(t) .. TypeMax(t)
             /\ result.status = "OK" => result.value = n
             /\ result.status = "EXCEEDS_MIN" => n < TypeMin(t)
             /\ result.status = "EXCEEDS_MAX" => n > TypeMax(t)

-----------------------------------------------------------------------------
(* Paths *)

\* It fits the working copy, is relative, and no component behind the first begins with a
\* dot but "." itself.
Plain(path) ==
  LET parts == Components(path)
  IN  /\ Len(path) < OS_MAX_PATH_LENGTH
      /\ path # <<>> => ~IsSeparator(path[1])
      /\ \A i \in 2 .. Len(parts) : IsDot(parts[i]) => parts[i] = <<PERIOD>>

\* The names that lead to the file from the root, or from the working directory.
NamesOf(components) ==
  LET names[i \in 0 .. Len(components)] ==
        IF i = 0 THEN <<>>
        ELSE IF components[i] # <<PERIOD>> THEN Append(names[i - 1], components[i])
        ELSE names[i - 1]
  IN  names[Len(components)]

Location(path) ==
  [absolute |-> path # <<>> /\ IsSeparator(path[1]), names |-> NamesOf(Components(path))]

\* The reader stores a normalized path, the checks before the opening normalize it
\* again, and fopen takes it as it is: all three look at one file, which for a plain
\* path is the file that the caller named.  The path fits the buffer it is rebuilt in,
\* with its NUL.
PathsAgree ==
  function = "os_path_normalize" =>
    /\ Normalize(result) = result
    /\ Len(result) < OS_MAX_PATH_LENGTH
    /\ Plain(argument) => Location(result) = Location(argument)

-----------------------------------------------------------------------------
(* Options *)

\* DEFINE_CLI_ARGS, the table behind the usage message, without "--interactive",
\* which the code does not recognise.
Documented ==
  {<<"-m", "TEST_MODE", {"debug"}>>, <<"--mode", "TEST_MODE", {"debug"}>>,
   <<"-i", "INPUT_FILE", {"debug"}>>, <<"--input-file", "INPUT_FILE", {"debug"}>>,
   <<"-i", "INTERACTIVE", {"full"}>>,
   <<"-h", "HELP", Builds>>, <<"--help", "HELP", Builds>>,
   <<"-v", "VERSION_SHORT", Builds>>, <<"--version", "VERSION_FULL", Builds>>,
   <<"--end-of-options", "END_OF_OPTIONS", Builds>>}

LongWords == {"end-of-options", "help", "version", "mode", "input-file"}

\* The characters of the words of the options.
ASSUME HyphensAssumption ==
  /\ \A c \in {"-", "h", "i", "m", "v"} : c \in STRING /\ Len(c) = 1
  /\ \A word \in LongWords :
       word \in STRING /\ Len(word) > 0 /\ \A w \in LongWords : BeginsWith(w, word) => w = word
  /\ "--" = "-" \o "-"
  /\ "-m" = "-" \o "m" /\ "-i" = "-" \o "i" /\ "-h" = "-" \o "h" /\ "-v" = "-" \o "v"
  /\ "--mode" = "--" \o "mode" /\ "--input-file" = "--" \o "input-file"
  /\ "--help" = "--" \o "help" /\ "--version" = "--" \o "version"
  /\ "--end-of-options" = "--" \o "end-of-options"

\* Every build recognises its own options by each documented spelling, and nothing
\* that does not begin with one; words without a hyphen are operands.  The
\* fall-through of -i in the builds without it is left out.
OptionsRecognised ==
  function = "parse_option_type" =>
    LET arg == argument.arg
        mine == {d \in Documented : argument.build \in d[3]}
    IN  /\ \A d \in mine : arg = d[1] => result = d[2]
        /\ result = "UNKNOWN" <=> arg = "-" \/ ~BeginsWith(arg, "-")
        /\ arg = "--" <=> result = "END_OF_OPTIONS" /\ ~BeginsWith(arg, "--end-of-options")
        /\ result \notin {"UNKNOWN", "INVALID", "END_OF_OPTIONS"} =>
             \/ \E d \in mine : d[2] = result /\ BeginsWith(arg, d[1])
             \/ argument.build \in {"compiler", "runner"} /\ BeginsWith(arg, "-i")

-----------------------------------------------------------------------------
(* Traces *)

\* The lines of the frames, one behind the other.
WholeTrace(frames) ==
  LET lines[i \in 0 .. Len(frames)] ==
        IF i = 0 THEN <<>>
        ELSE lines[i - 1] \o Text(i, IF frames[i] < 0 THEN 0 ELSE frames[i])
  IN  lines[Len(frames)]

\* The buffer holds the beginning of the whole trace, as much of it as leaves a byte
\* for the terminating NUL.  For frames whose line is not itself cut short.
TraceFits ==
  function = "trace_sprint" =>
    LET whole == WholeTrace(argument.frames)
        room == argument.bufLen
    IN  (\A i \in DOMAIN argument.frames : argument.frames[i] < LINE_LENGTH) =>
          result = SubSeq(whole, 1, IF Len(whole) < room THEN Len(whole)
                                    ELSE IF room = 0 THEN 0 ELSE room - 1)

=============================================================================
