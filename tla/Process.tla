------------------------------ MODULE Process ------------------------------
(***************************************************************************)
(* What every part of the program shares: its heap, its one global state   *)
(* (src/state/gstate.c) with the configuration of the command line in it,  *)
(* and the way out of the program (src/common/exit.c).                     *)
(*                                                                         *)
(* A block of the heap is <<what it is for, its number>>; a pointer is the *)
(* block it points to, or NULL.  Any allocation may be refused.            *)
(***************************************************************************)
EXTENDS Integers, Sequences, FiniteSets

Roles == {"gstate", "params", "config", "file", "reader", "path", "temp", "stream",
          "scanner", "tokens", "values", "number", "shell", "content", "parser", "tree"}

NULL == <<"NULL", 0>>

Block == Roles \X Nat
Pointer == Block \cup {NULL}

\* TULA_EXIT_*; the program has not ended yet.
GOOD == 0
BAD_USAGE == 2
NO_MEM == 3
Running == -1

VARIABLES
  pc,        \* the place in the code
  status,    \* the exit status, once decided
  mem,       \* the heap: live blocks, blocks made per role, roles refused, misuse
  gstate,    \* GLOBAL_STATE: its block, and its field cli
  config     \* the tula_cli_config: its block and its fields

processVars == <<pc, status, mem, gstate, config>>

-----------------------------------------------------------------------------
(* The heap *)

Heap == [live : SUBSET Block, made : [Roles -> Nat], refused : SUBSET Roles, fault : BOOLEAN]

EmptyHeap == [live |-> {}, made |-> [role \in Roles |-> 0], refused |-> {}, fault |-> FALSE]

Granted(m, role) ==
  LET block == <<role, m.made[role] + 1>>
  IN  [pointer |-> block,
       mem |-> [m EXCEPT !.live = @ \cup {block}, !.made[role] = @ + 1]]

RefusedTo(m, role) == [pointer |-> NULL, mem |-> [m EXCEPT !.refused = @ \cup {role}]]

\* What malloc may return, and the heap after it.
Malloc(m, role) == {Granted(m, role), RefusedTo(m, role)}

\* The use of a block.
Touch(m, block) == [m EXCEPT !.fault = @ \/ block \notin m.live]

Free(m, block) ==
  IF block = NULL THEN m ELSE [Touch(m, block) EXCEPT !.live = @ \ {block}]

\* The blocks of a sequence, one after the other, without its NULLs.
FreeEach(m, blocks) ==
  LET freed == {i \in DOMAIN blocks : blocks[i] # NULL}
      bad == \E i \in freed : \/ blocks[i] \notin m.live
                              \/ \E j \in freed : j < i /\ blocks[j] = blocks[i]
  IN  [m EXCEPT !.live = @ \ {blocks[i] : i \in freed}, !.fault = @ \/ bad]

\* realloc: in place, moved, or refused, which leaves the old block.
Realloc(m, block, role) ==
  IF block = NULL THEN Malloc(m, role)
  ELSE {[pointer |-> block, mem |-> Touch(m, block)],
        Granted(Free(m, block), role),
        RefusedTo(m, role)}

-----------------------------------------------------------------------------
(* Set up, tear down, exit *)

NoState == [block |-> NULL, cli |-> NULL]
NoConfig == [block |-> NULL, mode |-> "none", file |-> NULL, name |-> "", interactive |-> FALSE]

ProcessInit ==
  /\ pc = "main"
  /\ status = Running
  /\ mem = EmptyHeap
  /\ gstate = NoState
  /\ config = NoConfig

Goto(label) == pc' = label /\ UNCHANGED status

\* The exit helpers on their way to teardown.
ExitWith(code) == pc' = "exit" /\ status' = code

\* setup_global_state, up to its call of cli_parse_args.
SetupGlobalState ==
  /\ pc = "main"
  /\ IF gstate.block # NULL THEN Goto("run") /\ UNCHANGED <<mem, gstate>>
     ELSE \E o \in Malloc(mem, "gstate") :
            /\ mem' = o.mem
            /\ gstate' = [block |-> o.pointer, cli |-> NULL]
            /\ IF o.pointer = NULL THEN ExitWith(NO_MEM) ELSE Goto("cli")
  /\ UNCHANGED config

\* cli_destroy
CliDestroy(m, cli) == IF cli = NULL THEN m ELSE Free(Free(m, config.file), cli)

\* teardown_global_state: nothing, when there is no state or no longer one.
TeardownGlobalState ==
  /\ mem' = IF gstate.block = NULL THEN mem ELSE Free(CliDestroy(mem, gstate.cli), gstate.block)
  /\ gstate' = NoState
  /\ config' = IF gstate.cli = NULL THEN config ELSE NoConfig

\* main's own teardown, in front of tula_exit(TULA_EXIT_GOOD).
MainTeardown == pc = "teardown" /\ TeardownGlobalState /\ ExitWith(GOOD)

\* Slip: exit without the teardown.
TulaExitAtOnce == pc = "exit" /\ pc' = "exited" /\ UNCHANGED <<status, mem, gstate, config>>

\* tula_exit and tula_exit_error
TulaExit == pc = "exit" /\ TeardownGlobalState /\ pc' = "exited" /\ UNCHANGED status

=============================================================================
