------------------------------ MODULE Keywords ------------------------------
(***************************************************************************)
(* get_identifier_type of src/engine/scanner/scanner.c: a word the scanner *)
(* has read is told from the keywords by a hand-written trie over its      *)
(* first letters, whose leaves compare the rest with a spelling of the     *)
(* token table.                                                            *)
(***************************************************************************)
EXTENDS Integers, Sequences

IDENT == "TOK_IDENT"

\* TOKENS_VALUE and TOKENS_VALUE_ALT, for the tokens that are keywords.
VALUE == [TOK_TRUE |-> "true", TOK_FALSE |-> "false", TOK_DEFINE |-> "define",
          TOK_VARIABLE |-> "variable", TOK_CONSTANT |-> "constant", TOK_FUNC |-> "function",
          TOK_GLOBAL |-> "global", TOK_SET |-> "set", TOK_UNSET |-> "unset",
          TOK_IS_SET |-> "isSet", TOK_IF |-> "if", TOK_ELSE |-> "else",
          TOK_WHILE |-> "while", TOK_DO |-> "do", TOK_FOR |-> "for",
          TOK_BREAK |-> "break", TOK_CONTINUE |-> "continue", TOK_RETURN |-> "return",
          TOK_AND |-> "and", TOK_OR |-> "or", TOK_NOT |-> "not"]
ALT == [TOK_DEFINE |-> "def", TOK_VARIABLE |-> "var",
        TOK_CONSTANT |-> "const", TOK_FUNC |-> "func"]

Letter(w, i) == SubSeq(w, i, i)
From(w, i) == SubSeq(w, i, Len(w))
Starts(w, prefix) == Len(w) >= Len(prefix) /\ SubSeq(w, 1, Len(prefix)) = prefix

\* Slip: the comparison stops where the spelling does (regression test 0001).
InferPrefix(w, offset, t, spelling) == IF Starts(w, spelling) THEN t ELSE IDENT

\* try_infer_identifier_type: equal lengths, and equal letters from offset on.
Infer(w, offset, t, spelling) ==
  IF Len(w) = Len(spelling) /\ From(w, offset + 1) = From(spelling, offset + 1)
  THEN t ELSE IDENT

Value(w, offset, t) == Infer(w, offset, t, VALUE[t])

\* The keyword's two spellings, the long one first.
Either(w, offset, t) ==
  IF Value(w, offset, t) = t THEN t ELSE Infer(w, offset, t, ALT[t])

\* The letters that lead straight to one keyword.
Straight == [a |-> "TOK_AND", b |-> "TOK_BREAK", g |-> "TOK_GLOBAL", n |-> "TOK_NOT",
             o |-> "TOK_OR", r |-> "TOK_RETURN", s |-> "TOK_SET", t |-> "TOK_TRUE",
             u |-> "TOK_UNSET", w |-> "TOK_WHILE"]

\* handle_c, handle_co, handle_con
HandleC(w) ==
  IF Starts(w, "const")
  THEN IF Len(w) = 5 THEN "TOK_CONSTANT" ELSE Value(w, 5, "TOK_CONSTANT")
  ELSE IF Starts(w, "cont") THEN Value(w, 4, "TOK_CONTINUE") ELSE IDENT

\* Slip: the short spelling "def" is forgotten.
HandleDLong(w) ==
  IF Starts(w, "def") THEN Value(w, 3, "TOK_DEFINE") ELSE Value(w, 2, "TOK_DO")

\* handle_d, handle_de
HandleD(w) ==
  IF Starts(w, "def")
  THEN IF Len(w) = 3 THEN "TOK_DEFINE" ELSE Value(w, 4, "TOK_DEFINE")
  ELSE IF Starts(w, "do") THEN "TOK_DO" ELSE IDENT

HandleE(w) == IF Starts(w, "el") THEN Value(w, 2, "TOK_ELSE") ELSE IDENT

HandleF(w) ==
  CASE Starts(w, "fa") -> Value(w, 2, "TOK_FALSE")
    [] Starts(w, "fo") -> Value(w, 2, "TOK_FOR")
    [] Starts(w, "fu") -> Either(w, 2, "TOK_FUNC")
    [] OTHER -> IDENT

HandleI(w) ==
  CASE Starts(w, "if") -> "TOK_IF"
    [] Starts(w, "is") -> Value(w, 2, "TOK_IS_SET")
    [] OTHER -> IDENT

IdentifierType(w) ==
  LET first == Letter(w, 1)
  IN  CASE Len(w) = 1 -> IDENT
        [] Len(w) > 1 /\ first \in DOMAIN Straight -> Value(w, 1, Straight[first])
        [] Len(w) > 1 /\ first = "v" -> Either(w, 1, "TOK_VARIABLE")
        [] Len(w) > 1 /\ first = "c" -> HandleC(w)
        [] Len(w) > 1 /\ first = "d" -> HandleD(w)
        [] Len(w) > 1 /\ first = "e" -> HandleE(w)
        [] Len(w) > 1 /\ first = "f" -> HandleF(w)
        [] Len(w) > 1 /\ first = "i" -> HandleI(w)
        [] OTHER -> IDENT

\* The spellings of a keyword in the token table.
Spellings(t) == {VALUE[t]} \cup (IF t \in DOMAIN ALT THEN {ALT[t]} ELSE {})

=============================================================================
