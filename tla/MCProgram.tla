----------------------------- MODULE MCProgram -----------------------------
(* Command lines and token streams for Program.                             *)
EXTENDS Program

Lists(S, n) == UNION {[1..k -> S] : k \in 0..n}

\* Every option, values with and without quotes, and words that are neither.
Arguments ==
  {"-m", "--mode", "scanner", "parser", "-i", "f", "'f'", "\"", "-h", "--version", "--", "-x"}

\* Longer ones: both options, in both orders, repeated, and cut off.
LongLists ==
  {<<"-m", m, "-i", f>> : m \in {"version", "scanner", "parser", "x"}, f \in {"f", "\"f\"", "''"}}
  \cup {<<"-i", f, "-m", m>> : m \in {"scanner", "parser"}, f \in {"f", "-h"}}
  \cup {<<"-m", m, "-i", "f", last>> : m \in {"scanner", "parser"}, last \in {"-i", "-m", "--", "-v"}}
  \cup {<<"-m", "parser", "-i", "f", "-i", "g">>, <<"-m", "scanner", "-m", "parser", "-i", "f">>,
        <<"-m", "parser", "-m", "f", "-i", "f">>,
        <<"-i", "-i", "--", "f">>, <<"--end-of-options", "'g'", "h">>, <<"-i", "f", "-v">>}

SmallLists == Lists(Arguments, 3) \cup LongLists

\* Tokens and numbers up to where the parser stops or the scanner does not; what follows
\* an error or an overlong number; and enough of them for the array to grow three times.
Streams ==
  Lists({"LEXEME", "NUMBER"}, 3)
  \cup {s \o <<last>> : s \in Lists({"LEXEME", "NUMBER"}, 1),
                         last \in {"ERROR", "REJECTED", "OVERLONG", "ENDLESS"}}
  \cup {<<"ERROR", "NUMBER">>, <<"REJECTED", "LEXEME">>, <<"OVERLONG", "NUMBER">>,
        [i \in 1..6 |-> "LEXEME"]}
=============================================================================
