---------------------------- MODULE CommandLine ----------------------------
(***************************************************************************)
(* cli_parse_args of src/state/cli.c: the arguments behind the program's   *)
(* name are consumed one option at a time into a configuration.            *)
(***************************************************************************)
EXTENDS Process, Options

CONSTANTS ArgumentLists    \* the command lines, without the program's name

ASSUME ArgumentsAssumption == ArgumentLists \subseteq Seq(STRING)

VARIABLES
  build,     \* which of the four executables this is
  argv,
  params     \* the tula_cli_params: its block and its index of argv

cliVars == <<build, argv, params>>

NoParams == [block |-> NULL, pointer |-> 0]

CommandLineInit ==
  /\ build \in Builds
  /\ argv \in ArgumentLists
  /\ params = NoParams

At(i) == argv[params.pointer + i]
HasNextArgument == params.pointer <= Len(argv)

\* consume_argument, which stays where it is at the end.
Consumed(n) ==
  [params EXCEPT !.pointer = IF @ + n <= Len(argv) + 1 THEN @ + n ELSE Len(argv) + 1]

Keep == UNCHANGED <<build, argv>>

-----------------------------------------------------------------------------
\* Without arguments the program prints its help and ends.
ParseArgs ==
  /\ pc = "cli"
  /\ IF argv = <<>> THEN ExitWith(GOOD) ELSE Goto("new_params")
  /\ Keep /\ UNCHANGED <<mem, gstate, config, params>>

NewParams ==
  /\ pc = "new_params"
  /\ \E o \in Malloc(mem, "params") :
       /\ mem' = o.mem
       /\ params' = [block |-> o.pointer, pointer |-> 1]
       /\ IF o.pointer = NULL THEN ExitWith(NO_MEM) ELSE Goto("new_config")
  /\ Keep /\ UNCHANGED <<gstate, config>>

\* The mode that a debug build runs by default is printing its version.
NewConfig ==
  /\ pc = "new_config"
  /\ \E o \in Malloc(mem, "config") :
       IF o.pointer = NULL
       THEN /\ mem' = Free(o.mem, params.block)
            /\ params' = NoParams
            /\ ExitWith(NO_MEM)
            /\ UNCHANGED config
       ELSE /\ mem' = o.mem
            /\ config' = [NoConfig EXCEPT !.block = o.pointer, !.mode = "version"]
            /\ Goto("options")
            /\ UNCHANGED params
  /\ Keep /\ UNCHANGED gstate

-----------------------------------------------------------------------------
(* consume_next_option *)

\* free(params), free(config): what the configuration holds is not freed.
Abandon(m) == Free(Free(m, params.block), config.block)
Abandoned == params' = NoParams /\ config' = NoConfig

\* The text of a file name: malloc and str_copy_safe.
StoreFile(arg, label, n) ==
  \E o \in Malloc(mem, "file") :
    IF o.pointer = NULL
    THEN mem' = Abandon(o.mem) /\ Abandoned /\ ExitWith(NO_MEM)
    ELSE /\ mem' = o.mem
         /\ config' = [config EXCEPT !.file = o.pointer, !.name = FileName(arg)]
         /\ params' = Consumed(n)
         /\ Goto(label)

\* The end of the options: an operand, the word --, or nothing left.
OptionsEnd(option) ==
  /\ option \in {"UNKNOWN", "END_OF_OPTIONS"}
  /\ params' = IF option = "UNKNOWN" THEN params ELSE Consumed(1)
  /\ Goto("operand")
  /\ UNCHANGED <<mem, config>>

\* Slip: the exit helper with the status of another.
OptionInvalidNoMem(option) ==
  option = "INVALID" /\ ExitWith(NO_MEM) /\ UNCHANGED <<mem, config, params>>

\* exit_err_bad_usage_f frees neither block.
OptionInvalid(option) ==
  option = "INVALID" /\ ExitWith(BAD_USAGE) /\ UNCHANGED <<mem, config, params>>

\* cleanup_exit_good
OptionHelp(option) ==
  /\ option \in {"HELP", "VERSION_SHORT", "VERSION_FULL"}
  /\ mem' = Abandon(mem)
  /\ Abandoned
  /\ ExitWith(GOOD)

OptionInputFile(option) ==
  /\ option = "INPUT_FILE"
  /\ IF Len(argv) > params.pointer THEN StoreFile(At(1), "options", 2)
     ELSE params' = Consumed(1) /\ Goto("options") /\ UNCHANGED <<mem, config>>

\* Slip: an unknown mode is stored as it is.
ModeUnchecked(arg) == IF IsMode(arg) THEN ModeOf(arg) ELSE arg

\* Slip: an unknown mode falls back to the default one.
ModeOrVersion(arg) == IF IsMode(arg) THEN ModeOf(arg) ELSE "version"

\* A value that is no mode, or no value at all, leaves the mode as it is.
ModeFrom(arg) == IF IsMode(arg) THEN ModeOf(arg) ELSE config.mode

OptionTestMode(option) ==
  /\ option = "TEST_MODE"
  /\ params' = Consumed(2)
  /\ config' = IF Len(argv) > params.pointer
               THEN [config EXCEPT !.mode = ModeFrom(At(1))] ELSE config
  /\ Goto("options")
  /\ UNCHANGED mem

\* Slip: the argument is looked at and not consumed.
OptionInteractiveStays(option) ==
  /\ option = "INTERACTIVE"
  /\ config' = [config EXCEPT !.interactive = TRUE]
  /\ Goto("options")
  /\ UNCHANGED <<mem, params>>

OptionInteractive(option) ==
  /\ option = "INTERACTIVE"
  /\ params' = Consumed(1)
  /\ config' = [config EXCEPT !.interactive = TRUE]
  /\ Goto("options")
  /\ UNCHANGED mem

ConsumeNextOption ==
  /\ pc = "options"
  /\ IF ~HasNextArgument THEN Goto("operand") /\ UNCHANGED <<mem, config, params>>
     ELSE LET option == ParseOptionType(build, At(0))
          IN  \/ OptionsEnd(option)
              \/ OptionInvalid(option)
              \/ OptionHelp(option)
              \/ OptionInputFile(option)
              \/ OptionTestMode(option)
              \/ OptionInteractive(option)
  /\ Keep /\ UNCHANGED gstate

-----------------------------------------------------------------------------
\* In the full build the next argument is the file to run.
Operand ==
  /\ pc = "operand"
  /\ IF build = "full" /\ HasNextArgument THEN StoreFile(At(0), "configured", 1)
     ELSE Goto("configured") /\ UNCHANGED <<mem, config, params>>
  /\ Keep /\ UNCHANGED gstate

\* The end of cli_parse_args, and of setup_global_state.
Configured ==
  /\ pc = "configured"
  /\ mem' = Free(mem, params.block)
  /\ params' = NoParams
  /\ gstate' = [gstate EXCEPT !.cli = config.block]
  /\ Goto("run")
  /\ Keep /\ UNCHANGED config

=============================================================================
