----------------------------- MODULE CharStream ------------------------------
(***************************************************************************)
(* What a buffered reader promises its caller, with no buffer in sight: a  *)
(* cursor over the characters of a text, which peeking does not move and   *)
(* consuming moves by one.  BufReader implements it for callers that keep  *)
(* to the discipline of its CleanSpec.                                     *)
(***************************************************************************)
EXTENDS Integers, Sequences

CONSTANTS
  Texts,   \* the texts that can be opened
  Reach    \* lookahead shows fewer characters than this

VARIABLES
  text,    \* the characters of the open text
  cursor,  \* how many of them have been consumed
  opened,
  failed,  \* an opening failed and the stream has not been closed since
  call     \* the last call and its result

vars == <<text, cursor, opened, failed, call>>

None == -1

Init ==
  /\ text = <<>> /\ cursor = 0
  /\ opened = FALSE /\ failed = FALSE
  /\ call = [op |-> "none", arg |-> 0, ret |-> 0]

Returns(op, arg, ret) == call' = [op |-> op, arg |-> arg, ret |-> ret]

\* Creating, closing and destroying leave no text and no error behind.
Reset ==
  /\ text' = <<>> /\ cursor' = 0
  /\ opened' = FALSE /\ failed' = FALSE
  /\ \/ Returns("new", 0, 1)
     \/ Returns("close", 0, 1)
     \/ Returns("destroy", 0, 0)

\* Opening an open stream replaces its text; an earlier failure of a stream that
\* is not open stays until it is closed.
Open ==
  /\ text' \in Texts /\ cursor' = 0
  /\ opened' = TRUE /\ failed' = (failed /\ ~opened)
  /\ Returns("open", 0, 1)

OpenFails ==
  /\ text' = <<>> /\ cursor' = 0
  /\ opened' = FALSE /\ failed' = TRUE
  /\ Returns("open", 0, 0)

\* The character n places after the cursor.
CharAt(n) ==
  IF failed \/ n >= Reach \/ cursor + n >= Len(text) THEN None ELSE text[cursor + n + 1]

Read ==
  /\ opened \/ failed
  /\ Returns("read", 0, CharAt(0))
  /\ cursor' = IF CharAt(0) = None THEN cursor ELSE cursor + 1
  /\ UNCHANGED <<text, opened, failed>>

Peek ==
  /\ opened \/ failed
  /\ Returns("peek", 0, CharAt(0))
  /\ UNCHANGED <<text, cursor, opened, failed>>

PeekN ==
  /\ opened \/ failed
  /\ \E n \in 0..Reach : Returns("peek_n", n, CharAt(n))
  /\ UNCHANGED <<text, cursor, opened, failed>>

Next == Reset \/ Open \/ OpenFails \/ Read \/ Peek \/ PeekN

Spec == Init /\ [][Next]_vars
=============================================================================
