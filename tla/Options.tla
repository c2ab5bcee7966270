------------------------------ MODULE Options ------------------------------
(***************************************************************************)
(* The words of the command line (src/state/cli.c): which option an        *)
(* argument is, in each of the four builds, and the text that an option's  *)
(* value becomes.  Arguments are strings.                                  *)
(***************************************************************************)
EXTENDS Integers, Sequences

Builds == {"debug", "full", "compiler", "runner"}

OptionTypes == {"UNKNOWN", "INVALID", "END_OF_OPTIONS", "HELP", "VERSION_SHORT",
                "VERSION_FULL", "TEST_MODE", "INPUT_FILE", "INTERACTIVE"}

\* The empty string stands for the terminating NUL.
ArgChar(arg, i) == IF i \in 1 .. Len(arg) THEN SubSeq(arg, i, i) ELSE ""
ArgFrom(arg, i) == SubSeq(arg, i, Len(arg))
BeginsWith(arg, prefix) == Len(arg) >= Len(prefix) /\ SubSeq(arg, 1, Len(prefix)) = prefix

\* Slip: the test for a mode is left in every build.
LongOptionEverywhere(build, word) ==
  CASE BeginsWith(word, "end-of-options") -> "END_OF_OPTIONS"
    [] BeginsWith(word, "help") -> "HELP"
    [] BeginsWith(word, "version") -> "VERSION_FULL"
    [] BeginsWith(word, "mode") -> "TEST_MODE"
    [] build = "debug" /\ BeginsWith(word, "input-file") -> "INPUT_FILE"
    [] OTHER -> "INVALID"

\* The word behind two hyphens.  str_equals_partial compares as many characters as
\* the option has, so whatever begins with an option is that option.
LongOption(build, word) ==
  CASE BeginsWith(word, "end-of-options") -> "END_OF_OPTIONS"
    [] BeginsWith(word, "help") -> "HELP"
    [] BeginsWith(word, "version") -> "VERSION_FULL"
    [] build = "debug" /\ BeginsWith(word, "mode") -> "TEST_MODE"
    [] build = "debug" /\ BeginsWith(word, "input-file") -> "INPUT_FILE"
    [] OTHER -> "INVALID"

\* The letter behind one hyphen; the rest of the argument is not looked at.  In the
\* builds where -i is no option its case falls through to that of -h.
ShortOption(build, letter) ==
  CASE letter = "i" /\ build = "full" -> "INTERACTIVE"
    [] letter = "i" /\ build = "debug" -> "INPUT_FILE"
    [] letter = "i" /\ build \notin {"full", "debug"} -> "HELP"
    [] letter = "m" /\ build = "debug" -> "TEST_MODE"
    [] letter = "h" -> "HELP"
    [] letter = "v" -> "VERSION_SHORT"
    [] OTHER -> "INVALID"

\* parse_option_type
ParseOptionType(build, arg) ==
  IF ArgChar(arg, 1) # "-" \/ Len(arg) < 2 THEN "UNKNOWN"
  ELSE IF arg = "--" THEN "END_OF_OPTIONS"
  ELSE IF ArgChar(arg, 2) = "-" THEN LongOption(build, ArgFrom(arg, 3))
  ELSE ShortOption(build, ArgChar(arg, 2))

-----------------------------------------------------------------------------
(* The value of an option *)

\* str_copy_safe: as many characters as fit in front of the terminating NUL.
CopySafe(source, size) ==
  IF size = 0 THEN "" ELSE SubSeq(source, 1, IF Len(source) < size THEN Len(source) ELSE size - 1)

Quotes == {"\"", "'"}
IsQuoted(arg) == ArgChar(arg, 1) \in Quotes /\ ArgChar(arg, Len(arg)) \in Quotes

\* str_len: the bytes allocated for the text of a file name.
Room(arg) == IF ~IsQuoted(arg) THEN Len(arg) + 1 ELSE IF Len(arg) > 2 THEN Len(arg) - 1 ELSE 1

\* The text of a file name, without the quotes around it.
FileName(arg) == CopySafe(IF IsQuoted(arg) THEN ArgFrom(arg, 2) ELSE arg, Room(arg))

\* DEFINE_TEST_MODES, compared over the length of the mode's own name.
Modes == {"version", "scanner", "parser"}
IsMode(arg) == \E mode \in Modes : BeginsWith(arg, mode)
ModeOf(arg) == CHOOSE mode \in Modes : BeginsWith(arg, mode)

=============================================================================
