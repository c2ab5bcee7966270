----------------------------- MODULE MCBufReader -----------------------------
(* Instances of BufReader for TLC. *)
EXTENDS BufReader

\* Files longer than, equal to and shorter than the buffer of three bytes, and
\* two spellings of one path.
MCNames == {"long", "./full", "full", "short"}
MCNormalize == [n \in MCNames |-> IF n = "./full" THEN "full" ELSE n]
MCContent == [n \in MCNames |->
  CASE n = "long" -> <<65, NL, 66, 67, NL>>
    [] n \in {"full", "./full"} -> <<97, 98, NL>>
    [] n = "short" -> <<97>>]

\* Fewer names, and a shorter long file, where the question does not turn on them.
TwoNames == {"long", "short"}
TwoNormalize == [n \in TwoNames |-> n]
TwoContent == [n \in TwoNames |-> IF n = "long" THEN <<65, NL, 66, 67>> ELSE <<97>>]
=============================================================================
