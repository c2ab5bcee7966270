----------------------------- MODULE Lifecycle -----------------------------
(***************************************************************************)
(* What the program promises about its global state, whatever it does in   *)
(* between: the state comes to life once, is complete before anything uses *)
(* it, and is released before the program exits, by every way out.  Only a *)
(* crash leaves it behind.                                                 *)
(***************************************************************************)
EXTENDS Integers

CONSTANT Statuses      \* what the program may exit with

VARIABLES
  state,       \* none, set up (not complete yet), ready, released
  status,      \* the exit status, Undecided while there is none
  outcome      \* running, exited, crashed

lifecycleVars == <<state, status, outcome>>

Undecided == -1

Init == state = "none" /\ status = Undecided /\ outcome = "running"

Working == outcome = "running" /\ status = Undecided

SetUp == Working /\ state = "none" /\ state' = "set up" /\ UNCHANGED <<status, outcome>>

Ready == Working /\ state = "set up" /\ state' = "ready" /\ UNCHANGED <<status, outcome>>

\* The decision to exit is for good.  main releases the state itself with it.
Decide ==
  /\ Working
  /\ status' \in Statuses
  /\ state' \in IF state = "ready" THEN {"ready", "released"} ELSE {state}
  /\ UNCHANGED outcome

Exit ==
  /\ outcome = "running"
  /\ status # Undecided
  /\ outcome' = "exited"
  /\ state' = IF state = "none" THEN "none" ELSE "released"
  /\ UNCHANGED status

Crash == Working /\ state = "ready" /\ outcome' = "crashed" /\ UNCHANGED <<state, status>>

Next == SetUp \/ Ready \/ Decide \/ Exit \/ Crash

Spec == Init /\ [][Next]_lifecycleVars

=============================================================================
