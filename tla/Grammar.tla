------------------------------- MODULE Grammar -------------------------------
(***************************************************************************)
(* The grammar of docs/language/EBNF.md as a set of derivations: G(i) is   *)
(* the set of pairs <<tree, j>> such that the tokens from i up to j - 1    *)
(* derive from the nonterminal and the tree is their structure.  It is the *)
(* reference the parser is checked against, and knows nothing of how the   *)
(* parser works: all alternatives are followed, nothing is preferred.      *)
(*                                                                         *)
(* The nonterminals the parser declares unimplemented are left out: array  *)
(* and table definitions, decimal literals and "%".                        *)
(***************************************************************************)
EXTENDS Parser

CONSTANT Begins   \* the tokens with which a statement behind another may begin

Derives(i, token) == i <= Len(source) /\ source[i] = token

\* The derivations of D followed by a token, with the tree unchanged.
Followed(D, token) == {<<d[1], d[2] + 1>> : d \in {e \in D : Derives(e[2], token)}}

\* Every derivation of D followed by one that F gives from there, their trees joined.
Joined(D, F(_), Tree(_, _)) == UNION {{<<Tree(d[1], e[1]), e[2]>> : e \in F(d[2])} : d \in D}

Rooted(D, Tree(_)) == {<<Tree(d[1]), d[2]>> : d \in D}

After(i, token, F(_)) == IF Derives(i, token) THEN F(i + 1) ELSE {}

RECURSIVE G(_, _), GTier(_, _), GFolds(_, _, _), GAccessors(_), GList(_), GComparison(_)

\* The nonterminals that derive themselves by way of others.
GStatements(i) == G("statements", i)
GExpression(i) == G("expression", i)
GUnary(i) == G("unary", i)
GBlock(i) == G("block", i)

GIdentifier(i) == IF Derives(i, "ident") THEN {<<Node("IDENTIFIER", "", i, <<>>), i + 1>>} ELSE {}

-----------------------------------------------------------------------------
GExpressionRule(i) == Rooted(GTier(1, i), LAMBDA t : Node("EXPR", "", i, <<t>>))

\* A left-associative tier; the exponent is written right-recursively.
GTier(tier, i) ==
  LET operands == IF tier = EXPO THEN GUnary(i) ELSE GTier(tier + 1, i)
      Power(l, r) == Node("EXPR_EXPO", "^", i, <<l, r>>)
  IN  IF tier = EXPO
      THEN operands \cup Joined(Followed(operands, "^"), LAMBDA j : GTier(EXPO, j), Power)
      ELSE GFolds(tier, i, operands)

GFolds(tier, i, D) ==
  LET longer == UNION {Joined(Followed(D, op), LAMBDA j : GTier(tier + 1, j),
                              LAMBDA l, r : Node(Tiers[tier].kind, op, i, <<l, r>>))
                         : op \in Tiers[tier].ops}
  IN  IF longer = {} THEN D ELSE D \cup GFolds(tier, i, longer)

\* A bracketed list of expressions, as a sequence of trees.
GList(i) ==
  LET one == Rooted(GExpression(i), LAMBDA t : <<t>>)
  IN  one \cup Joined(Followed(one, ","), GList, LAMBDA l, r : l \o r)

GMember(i) ==
  After(i, ".", LAMBDA j : Rooted(GIdentifier(j), LAMBDA t : Node("ACCESSOR_MEMBER", "", i, <<t>>)))
GIndex(i) ==
  After(i, "[", LAMBDA j : Followed(Rooted(GExpression(j),
                                           LAMBDA t : Node("ACCESSOR_INDEX", "", i, <<t>>)), "]"))
\* The arguments begin with an identifier, as in the parser.
GCall(i) ==
  LET Call(l) == Node("ACCESSOR_CALL", "", i, l)
      Arguments(j) == IF Derives(j, "ident") THEN Rooted(GList(j), Call) ELSE {}
  IN  After(i, "(", LAMBDA j : Followed({<<Call(<<>>), j>>} \cup Arguments(j), ")"))

\* {accessor}, as a sequence of trees.
GAccessors(i) ==
  {<< <<>>, i>>} \cup
  Joined(GMember(i) \cup GIndex(i) \cup GCall(i), GAccessors, LAMBDA a, l : <<a>> \o l)

\* The accessors up to the first call belong to the identifier; the rest, from
\* that call on, to a postfix expression around it.
FirstCall(l) ==
  CHOOSE k \in 1 .. Len(l) + 1 :
    /\ k <= Len(l) => l[k].kind = "ACCESSOR_CALL"
    /\ \A m \in 1 .. k - 1 : l[m].kind # "ACCESSOR_CALL"

Chain(i, id, l) ==
  LET k == FirstCall(l)
      location == Node("EXPR_IDENT", "", i, <<id>> \o SubSeq(l, 1, k - 1))
  IN  IF k > Len(l) THEN location
      ELSE Node("EXPR_POSTFIX", "", i, <<location>> \o SubSeq(l, k, Len(l)))

GIdentChain(i) == Joined(GIdentifier(i), GAccessors, LAMBDA id, l : Chain(i, id, l))

\* expression_identifier: no call among the accessors.
GLocation(i) == {d \in GIdentChain(i) : d[1].kind = "EXPR_IDENT"}

GFunctionBody(i, at) ==
  LET identifiers[j \in 1 .. Len(source) + 1] ==
        LET one == Rooted(GIdentifier(j), LAMBDA t : <<t>>)
        IN  one \cup Joined(Followed(one, ","),
                            LAMBDA k : IF k <= Len(source) THEN identifiers[k] ELSE {},
                            LAMBDA l, r : l \o r)
      Parameters2(j) == {<< <<>>, j>>} \cup (IF j <= Len(source) THEN identifiers[j] ELSE {})
  IN  After(i, "(", LAMBDA j :
        Joined(Followed(Parameters2(j), ")"), GBlock,
               LAMBDA l, b : Node("FUNC_DEF_VAL", "", at, <<b>> \o l)))

GIsSet(i) ==
  After(i, "isSet", LAMBDA j : After(j, "(", LAMBDA k :
    Followed(Rooted(GIdentifier(k), LAMBDA t : Node("STMT_IS_SET", "", i, <<t>>)), ")")))

\* expression_primary other than an identifier.
GPrimary(i) ==
  LET literal == IF i <= Len(source) /\ source[i] \in Literals
                 THEN {<<Node("LITERAL", source[i], i, <<>>), i + 1>>} ELSE {}
      grouping == After(i, "(", LAMBDA j : Followed(GExpression(j), ")"))
      function == After(i, "func", LAMBDA j : GFunctionBody(j, i))
  IN  Rooted(literal \cup grouping \cup function \cup GIsSet(i),
             LAMBDA t : Node("EXPR_PRIMARY", "", i, <<t>>))

Postfixed(i, t, l) == IF l = <<>> THEN t ELSE Node("EXPR_POSTFIX", "", i, <<t>> \o l)

GIncremented(i) ==
  UNION {Rooted(Followed(GLocation(i), op), LAMBDA t : Node("EXPR_POSTFIX", op, i, <<t>>))
           : op \in {"++", "--"}}
GIncrementing(i) ==
  UNION {After(i, op, LAMBDA j : Rooted(GLocation(j), LAMBDA t : Node("EXPR_UNARY", op, i, <<t>>)))
           : op \in {"++", "--"}}

GUnaryRule(i) ==
  After(i, "not", LAMBDA j : Rooted(GUnary(j), LAMBDA t : Node("EXPR_UNARY", "not", i, <<t>>)))
    \cup GIncrementing(i) \cup GIncremented(i) \cup GIdentChain(i)
    \cup Joined(GPrimary(i), GAccessors, LAMBDA t, l : Postfixed(i, t, l))

-----------------------------------------------------------------------------
\* [ "global" ], as the operator the tree carries.
GGlobal(i) == {<<"", i>>} \cup After(i, "global", LAMBDA j : {<<"global", j>>})

\* variable_base and the constant's: a keyword and an identifier.
GNamed(i, keyword, at, kind) ==
  Joined(Followed(GGlobal(i), keyword), GIdentifier, LAMBDA g, t : Node(kind, g, at, <<t>>))

GAssigned(D) == Joined(Followed(D, "="), GExpression, AddKid)
Unassigned(D) == Rooted(D, LAMBDA t : AddKid(t, Null))

GVariableDefinition(i) ==
  After(i, "define", LAMBDA j :
    LET D == GNamed(j, "variable", i, "STMT_VAR_DEF") IN GAssigned(D) \cup Unassigned(D))
GConstantDefinition(i) ==
  After(i, "define", LAMBDA j : GAssigned(GNamed(j, "constant", i, "STMT_CONST_DEF")))
GFunctionDefinition(i) ==
  After(i, "define", LAMBDA j :
    Joined(GNamed(j, "func", i, "FUNC_DEF"), LAMBDA k : GFunctionBody(k, k), AddKid))
GVariableSet(i) ==
  After(i, "set", LAMBDA j : GAssigned(GNamed(j, "variable", i, "STMT_VAR_SET")))
GVariableUnset(i) ==
  After(i, "unset", LAMBDA j : GNamed(j, "variable", i, "STMT_VAR_UNSET"))

GCondition(i) == After(i, "(", LAMBDA j : Followed(GExpression(j), ")"))

GWhile(i) ==
  After(i, "while", LAMBDA j : Joined(GCondition(j), GBlock,
                                      LAMBDA c, b : Node("STMT_COND_ITER", "while", i, <<c, b>>)))
GDo(i) ==
  After(i, "do", LAMBDA j : Joined(Followed(GBlock(j), "while"), GCondition,
                                   LAMBDA b, c : Node("STMT_COND_ITER", "do", i, <<c, b>>)))

\* The condition of a for loop is not optional here, as in the parser.
GFor(i) ==
  LET Nothing(j) == {<<Null, j>>}
      start == After(i, "for", LAMBDA j : After(j, "(", LAMBDA k :
                 Nothing(k) \cup {d \in GVariableDefinition(k) : d[1].op = ""}))
      Updates(j) == Nothing(j) \cup GVariableSet(j) \cup GIncrementing(j) \cup GIncremented(j)
      first == Joined(Followed(start, ","), GExpression, LAMBDA t, c : <<t, c>>)
      second == Joined(Followed(first, ","), Updates, LAMBDA l, u : l \o <<u>>)
  IN  Joined(Followed(second, ")"), GBlock,
             LAMBDA l, b : Node("STMT_NUM_ITER", "", i, l \o <<b>>))

GComparison(i) ==
  LET if == After(i, "if", LAMBDA j : Joined(GCondition(j), GBlock,
                                             LAMBDA c, b : Node("STMT_COMP", "", i, <<c, b>>)))
      Otherwise(j) == Rooted(GBlock(j), LAMBDA b :
                        Node("STMT_COMP", "", j, <<TrueCondition(j), b, Null>>))
  IN  Unassigned(if)
        \cup Joined(Followed(if, "else"), LAMBDA j : GComparison(j) \cup Otherwise(j), AddKid)

\* The expression of a return is not optional here, as in the parser.
GReturn(i) ==
  After(i, "return", LAMBDA j : Rooted(GExpression(j), LAMBDA t : Node("STMT_RETURN", "", i, <<t>>)))

GKeyword(i, keyword, kind) ==
  After(i, keyword, LAMBDA j : {<<Node(kind, "", i, <<>>), j>>})

\* An expression that begins with isSet is no statement, as in the parser.
GStatement(i) ==
  GKeyword(i, "break", "STMT_BREAK") \cup GKeyword(i, "continue", "STMT_CONTINUE")
    \cup GIsSet(i) \cup GFunctionDefinition(i) \cup GConstantDefinition(i)
    \cup GVariableDefinition(i) \cup GVariableSet(i) \cup GVariableUnset(i)
    \cup GWhile(i) \cup GDo(i) \cup GFor(i) \cup GComparison(i) \cup GReturn(i)
    \cup (IF Derives(i, "isSet") THEN {} ELSE GExpression(i))

\* {statement}, where each statement but the first begins with a token in Begins.
GStatementsRule(i) ==
  {<< <<>>, i>>} \cup
  UNION {LET rest == {r \in GStatements(d[2]) :
                        r[1] # <<>> => source[d[2]] \in Begins}
         IN  {<< <<d[1]>> \o r[1], r[2]>> : r \in rest} : d \in GStatement(i)}

GBlockRule(i) ==
  After(i, "{", LAMBDA j : Followed(Rooted(GStatements(j),
                                           LAMBDA l : Node("BLOCK", "", i, l)), "}"))

G(nonterminal, i) ==
  CASE nonterminal = "statements" -> GStatementsRule(i)
    [] nonterminal = "expression" -> GExpressionRule(i)
    [] nonterminal = "unary" -> GUnaryRule(i)
    [] nonterminal = "block" -> GBlockRule(i)

Programs ==
  {Node("PROGRAM", "", 1, d[1]) : d \in {e \in GStatements(1) : e[2] = Len(source) + 1}}
=============================================================================
