----------------------------- MODULE TokenArray -----------------------------
(***************************************************************************)
(* The tokens of src/engine/scanner/token.c in the heap: a token is made,  *)
(* copied into the scanner's array and handed to the caller of             *)
(* scanner_read_next, who keeps it while the array grows.  The text of a   *)
(* number goes through a buffer of scanner_consume_number on its way.      *)
(* Which tokens the scanner finds is module Scanner's matter; here it is   *)
(* any stream.                                                             *)
(***************************************************************************)
EXTENDS Process

CONSTANTS
  TokenStreams,              \* what a source holds before its end
  TULA_ARRAY_MIN_THRESHOLD,
  TULA_ARRAY_GROW_FACTOR

TokenType == {"LEXEME", "ERROR", "EOS"}

\* Numbers: one that fits the space of its type, one refused after it was copied
\* ("exceeds maximum characters"), and one longer than that space.
Numbers == {"NUMBER", "REJECTED", "OVERLONG"}

\* What scanner_read_next may come upon.  ENDLESS is text that it never gets past: a
\* block comment the file ends in, or a slash in front of a backslash.
Finding == TokenType \cup Numbers \cup {"ENDLESS"}

TypeOf(found) ==
  IF found \in {"ERROR", "REJECTED"} THEN "ERROR" ELSE IF found = "EOS" THEN "EOS" ELSE "LEXEME"

ASSUME StreamsAssumption == TokenStreams \subseteq Seq(Finding \ {"EOS"})
ASSUME GrowthAssumption ==
  TULA_ARRAY_MIN_THRESHOLD \in Nat \ {0} /\ TULA_ARRAY_GROW_FACTOR \in Nat \ {0, 1}

VARIABLES
  source,    \* what scanner_read_next finds; EOS for ever behind it
  tokens,    \* the arr_token_t, and the elements in its block `values`
  token,     \* the token_t being made, afterwards the one the caller holds
  buffer,    \* the working buffer of scanner_consume_number
  overrun,   \* history: a number was copied behind the end of its buffer
  caller     \* where scanner_read_next returns to

tokenVars == <<source, tokens, token, buffer, overrun, caller>>

NoToken == [type |-> "EOS", shell |-> NULL, content |-> NULL]

\* arr_token_init
NoTokens(block) == [block |-> block, count |-> 0, capacity |-> 0, values |-> NULL, elements |-> <<>>]

TokenArrayInit ==
  /\ source = <<>>
  /\ tokens = NoTokens(NULL)
  /\ token = NoToken
  /\ buffer = NULL
  /\ overrun = FALSE
  /\ caller = "none"

\* How a caller begins a scanner_read_next.
ReadToken(label) == pc' = "scan" /\ caller' = label /\ UNCHANGED status

Found == IF tokens.count < Len(source) THEN source[tokens.count + 1] ELSE "EOS"
NextType == TypeOf(Found)

-----------------------------------------------------------------------------
\* scanner_read_next up to the making of a token that is no number.
Scan ==
  /\ pc = "scan"
  /\ Found \notin Numbers \cup {"ENDLESS"}
  /\ Goto("token_new")
  /\ UNCHANGED <<mem, gstate, config, tokenVars>>

\* scanner_consume_number up to the making of its token: the number is copied into a
\* buffer of the space of its type.  The copy is bounded by the number and not by the
\* buffer; what it does behind its end may go unnoticed or end the program.
ScanNumber ==
  /\ pc = "scan"
  /\ Found \in Numbers
  /\ \E o \in Malloc(mem, "number") :
       \/ /\ o.pointer = NULL
          /\ mem' = o.mem /\ ExitWith(NO_MEM)
          /\ UNCHANGED <<buffer, overrun>>
       \/ /\ o.pointer # NULL
          /\ mem' = IF Found = "REJECTED" THEN Free(o.mem, o.pointer) ELSE o.mem
          /\ buffer' = IF Found = "REJECTED" THEN NULL ELSE o.pointer
          /\ overrun' = (overrun \/ Found = "OVERLONG")
          /\ \/ Goto("token_new")
             \/ Found = "OVERLONG" /\ Goto("crashed")
  /\ UNCHANGED <<gstate, config, source, tokens, token, caller>>

\* token_new: the struct.  The token of the end has no text.
TokenNew ==
  /\ pc = "token_new"
  /\ \E o \in Malloc(mem, "shell") :
       /\ mem' = o.mem
       /\ token' = [type |-> NextType, shell |-> o.pointer, content |-> NULL]
       /\ IF o.pointer = NULL THEN ExitWith(NO_MEM)
          ELSE Goto(IF NextType = "EOS" THEN "token_add" ELSE "token_content")
  /\ UNCHANGED <<gstate, config, source, tokens, buffer, overrun, caller>>

\* Slip: the buffer of a number is not freed.
BufferKept(m) == m

\* scanner_consume_number frees its buffer once token_new has returned.
BufferFreed(m) == Free(m, buffer)

\* token_new: its copy of the text.
TokenContent ==
  /\ pc = "token_content"
  /\ \E o \in Malloc(mem, "content") :
       IF o.pointer = NULL
       THEN /\ mem' = Free(o.mem, token.shell)
            /\ token' = NoToken
            /\ ExitWith(NO_MEM)
            /\ UNCHANGED buffer
       ELSE /\ mem' = BufferFreed(o.mem)
            /\ token' = [token EXCEPT !.content = o.pointer]
            /\ buffer' = NULL
            /\ Goto("token_add")
  /\ UNCHANGED <<gstate, config, source, tokens, overrun, caller>>

\* Slip: the array grows one element too late.
FullLate(t) == t.capacity < t.count

Full(t) == t.capacity < t.count + 1

GrowCapacity(capacity) ==
  IF capacity < TULA_ARRAY_MIN_THRESHOLD THEN TULA_ARRAY_MIN_THRESHOLD
  ELSE capacity * TULA_ARRAY_GROW_FACTOR

Nothing == [type |-> "EOS", content |-> NULL]

\* The array with room for more elements, in the block `values`.
Grown(t, values) ==
  LET capacity == GrowCapacity(t.capacity)
  IN  [t EXCEPT !.capacity = capacity,
                !.values = values,
                !.elements = [i \in 1..capacity |-> IF i <= t.capacity THEN @[i] ELSE Nothing]]

\* The element is a copy of the struct, and shares the text with it.
Put(t) == [t EXCEPT !.count = @ + 1,
                    !.elements[t.count + 1] = [type |-> token.type, content |-> token.content]]

\* A write behind the block is a misuse of the heap.
Written(m, t) == IF t.count < t.capacity THEN Touch(m, t.values) ELSE Touch(m, NULL)

\* Slip: CONSUME_TOKEN frees the token it has copied.
ReturnedFreed(m) == Free(Free(m, token.content), token.shell)

\* CONSUME_TOKEN keeps the token, for the caller.
Returned(m) == m

\* arr_token_add, and the return of scanner_read_next.
ArrTokenAdd ==
  /\ pc = "token_add"
  /\ IF ~Full(tokens)
     THEN mem' = Returned(Written(mem, tokens)) /\ tokens' = Put(tokens) /\ Goto(caller)
     ELSE \E o \in Realloc(mem, tokens.values, "values") :
            IF o.pointer = NULL
            THEN /\ mem' = o.mem
                 /\ tokens' = [tokens EXCEPT !.capacity = GrowCapacity(@)]
                 /\ ExitWith(NO_MEM)
            ELSE /\ mem' = Returned(Written(o.mem, Grown(tokens, o.pointer)))
                 /\ tokens' = Put(Grown(tokens, o.pointer))
                 /\ Goto(caller)
  /\ UNCHANGED <<gstate, config, source, token, buffer, overrun, caller>>

\* arr_token_destroy
ArrTokenDestroy(m) ==
  IF tokens.block = NULL THEN m
  ELSE LET contents == [i \in 1 .. tokens.count |-> tokens.elements[i].content]
       IN  Free(IF tokens.values = NULL THEN m
                ELSE Free(FreeEach(Touch(m, tokens.values), contents), tokens.values),
                tokens.block)

=============================================================================
