------------------------------ MODULE MCParser ------------------------------
(* The parser on small token streams. *)
EXTENDS ParserCorrectness

Strings(alphabet, n) == UNION {[1 .. k -> alphabet] : k \in 0 .. n}

\* Every stream of a few tokens of an alphabet.
Operators == Strings({"ident", "+", "*", "^", "not", "(", ")"}, 5)
Tiered == Strings({"ident", "or", "and", "==", ">", "-"}, 5)
Postfixes == Strings({"ident", "int", "++", ".", "[", "]", "(", ")", ","}, 4)
Definitions == Strings({"define", "global", "variable", "constant", "set", "unset", "=", "ident"}, 4)
Pairs2 == Strings(Token \ {"EOS"}, 2)

\* Programs with one or more of each construct.
Texts == {
  <<"if", "(", "ident", ")", "{", "break", "}", "else", "if", "(", "true", ")", "{", "}",
    "else", "{", "continue", "ident", "}">>,
  <<"while", "(", "ident", ")", "{", "set", "variable", "ident", "=", "int", "}">>,
  <<"do", "{", "unset", "global", "variable", "ident", "}", "while", "(", "not", "ident", ")">>,
  <<"for", "(", "define", "variable", "ident", "=", "int", ",", "ident", "<", "int", ",",
    "ident", "++", ")", "{", "break", "}">>,
  <<"for", "(", ",", "ident", ",", "++", "ident", ".", "ident", ")", "{", "}">>,
  <<"for", "(", ",", "ident", ",", "set", "variable", "ident", "=", "ident", ")", "{", "}">>,
  <<"define", "global", "func", "ident", "(", "ident", ",", "ident", ")", "{", "return", "ident", "}">>,
  <<"define", "constant", "ident", "=", "func", "(", ")", "{", "ident", "(", "ident", ",", "int", ")", "}">>,
  <<"isSet", "(", "ident", ")", "ident", ".", "ident", "[", "int", "]", "(", ")", "(", ")", ".", "ident">>,
  <<"define", "variable", "ident", "=", "(", "ident", "+", "big", ")", "*", "isSet", "(", "ident", ")">>
  }

\* Programs of a block with a mistake in it, and of prefix operators alone.
Broken == {
  <<"while", "(", "ident", ")", "{", "set", "variable", "}">>,
  <<"if", "(", "ident", ")", "{", "break", "ident", "=", "}">>}
Prefixes == Strings({"not", "ident"}, 4)

\* The same programs with one token left out, put in or replaced.
Change == {"ident", "int", "}", ")", ",", "=", "ERROR", "variable", "return"}
Without(s, k) == SubSeq(s, 1, k - 1) \o SubSeq(s, k + 1, Len(s))
Near(s) ==
  {s} \cup {Without(s, k) : k \in DOMAIN s}
      \cup {[s EXCEPT ![k] = t] : k \in DOMAIN s, t \in Change}
      \cup {SubSeq(s, 1, k) \o <<t>> \o SubSeq(s, k + 1, Len(s)) : k \in DOMAIN s, t \in Change}
Mistaken == UNION {Near(s) : s \in Texts}

AllSources == Operators \cup Tiered \cup Postfixes \cup Definitions \cup Pairs2 \cup Mistaken
=============================================================================
