------------------------------- MODULE Parser -------------------------------
(***************************************************************************)
(* The recursive-descent parser of src/engine/parser/parser.c and the tree *)
(* it builds (src/engine/parser/ast.c).  The scanner behind it is a        *)
(* sequence of token types; an identifier, a literal or an operator is its *)
(* type and the position of its token, which stands for line and column.   *)
(*                                                                         *)
(* Each ast_* function is an operator from the parser's fields p to the    *)
(* status it returns, the node it leaves in *out and the fields after it.  *)
(* p.live counts the nodes allocated and not yet freed, so that a node     *)
(* dropped without ast_node_destroy, or destroyed twice, shows.            *)
(***************************************************************************)
EXTENDS Integers, Sequences, FiniteSets

CONSTANTS Sources   \* the token streams the scanner may deliver

Literals == {"true", "false", "char", "string", "int"}
Token == {"EOS", "ERROR", "break", "continue", "isSet", "define", "global", "constant",
          "variable", "func", "set", "unset", "if", "else", "do", "while", "for", "return",
          "=", "(", ")", "{", "}", "[", "]", ".", ",", "or", "and", "==", "!=", ">", "<",
          ">=", "<=", "+", "-", "*", "/", "%", "^", "not", "++", "--", "ident",
          "big",      \* an integer literal outside the range of its type
          "float"}    \* TOK_FLOAT and TOK_DOUBLE
         \cup Literals

ASSUME SourcesAssumption == Sources \subseteq Seq(Token)

VARIABLES
  source,   \* what the scanner delivers, before the end of the stream
  pc,       \* none, ready, parsed, destroyed
  parser,   \* the parser's cursor and flag, and the count of live nodes
  ast       \* the root of the tree

parserVars == <<source, pc, parser, ast>>

-----------------------------------------------------------------------------
(* The cursor *)

Current(p) == IF p.pos <= Len(source) THEN source[p.pos] ELSE "EOS"
Is(p, token) == Current(p) = token
AtEnd(p) == Current(p) \in {"EOS", "ERROR"}
Advance(p) == [p EXCEPT !.pos = @ + 1]

-----------------------------------------------------------------------------
(* Nodes.  `kids` are the owned children in order, NULL pointers included. *)

Node(kind, op, at, kids) == [kind |-> kind, op |-> op, at |-> at, kids |-> kids]
Null == Node("NULL", "", 0, <<>>)
IsErr(node) == node.kind = "ERROR"
AddKid(node, kid) == [node EXCEPT !.kids = Append(@, kid)]

RECURSIVE Count(_), CountAll(_), Freed(_), FreedAll(_), HasError(_), SomeError(_)

\* The nodes of a tree.
Count(node) == IF node = Null THEN 0 ELSE 1 + CountAll(node.kids)
CountAll(kids) == IF kids = <<>> THEN 0 ELSE Count(Head(kids)) + CountAll(Tail(kids))

HasError(node) == IsErr(node) \/ SomeError(node.kids)
SomeError(kids) == kids # <<>> /\ (HasError(Head(kids)) \/ SomeError(Tail(kids)))

\* Slip: the accessors of a postfix expression forgotten as well.
FreedLess(node) ==
  IF node = Null THEN 0
  ELSE IF node.kind \in {"FUNC_DEF_VAL", "EXPR_POSTFIX"} THEN 1
  ELSE 1 + FreedAll(node.kids)

\* The nodes ast_node_destroy frees: it has no case for AST_FUNC_DEF_VAL.
Freed(node) ==
  IF node = Null THEN 0
  ELSE IF node.kind = "FUNC_DEF_VAL" THEN 1
  ELSE 1 + FreedAll(node.kids)
FreedAll(kids) == IF kids = <<>> THEN 0 ELSE Freed(Head(kids)) + FreedAll(Tail(kids))

Alloc(p, n) == [p EXCEPT !.live = @ + n]
Destroy(p, node) == [p EXCEPT !.live = @ - Freed(node)]

Ok(node, p) == [ok |-> TRUE, node |-> node, p |-> p]
Fails(node, p) == [ok |-> FALSE, node |-> node, p |-> p]

\* Slip: the flag is not raised.
MakeErrorQuiet(p) == Fails(Node("ERROR", "", p.pos, <<>>), Alloc(p, 1))

\* parser_make_error, and a function that returns false with its result.
MakeError(p) == Fails(Node("ERROR", "", p.pos, <<>>), Alloc([p EXCEPT !.hadError = TRUE], 1))

\* "This ast becomes an error": the node is destroyed and replaced.
Becomes(node, p) == MakeError(Destroy(p, node))

\* What a caller makes of a callee: of a node it got, of an error, and of a node that
\* failed without being an error.
On(r, Good(_, _), Error(_, _), Bad(_, _)) ==
  IF r.ok THEN Good(r.node, r.p)
  ELSE IF IsErr(r.node) THEN Error(r.node, r.p)
  ELSE Bad(r.node, r.p)

\* The idiom after every child: a child that is an error stays in its parent, which is
\* returned as it is; any other that failed turns the parent into an error.
Then(r, Parent(_), Next(_, _)) ==
  On(r, Next, LAMBDA n, q : Fails(Parent(n), q), LAMBDA n, q : Becomes(Parent(n), q))

Last(r, Parent(_)) == Then(r, Parent, LAMBDA n, q : Ok(Parent(n), q))

Expect(token, p, Next(_), otherwise) ==
  IF Is(p, token) THEN Next(Advance(p)) ELSE otherwise

RECURSIVE Rule(_, _), Tier(_, _), Fold(_, _, _, _), UnaryLoop(_, _, _),
          IdentAccessors(_, _), PostfixAccessors(_, _), CallArguments(_, _, _),
          Parameters(_, _), Statements(_, _), Comparison(_)

\* The rules that contain themselves by way of others, and the first one.
Program(p) == Rule("program", p)
Expr(p) == Rule("expression", p)
Block(p) == Rule("block", p)
Unary(p) == Rule("unary", p)

-----------------------------------------------------------------------------
(* Leaves *)

Identifier(p) ==
  IF Is(p, "ident") THEN Ok(Node("IDENTIFIER", "", p.pos, <<>>), Alloc(Advance(p), 1))
  ELSE MakeError(p)

\* Slip: a token that is no literal is consumed all the same.
LiteralSkips(p) ==
  LET node == Node("LITERAL", Current(p), p.pos, <<>>)
      q == Advance(Alloc(p, 1))
  IN  IF Current(p) \in Literals THEN Ok(node, q) ELSE Fails(node, q)

Literal(p) ==
  LET node == Node("LITERAL", Current(p), p.pos, <<>>)
      q == Alloc(p, 1)
      e == Becomes(node, q)
  IN  IF Current(p) \in Literals THEN Ok(node, Advance(q))
      ELSE IF Is(p, "big") THEN Fails(e.node, Advance(e.p))
      ELSE Fails(node, q)

-----------------------------------------------------------------------------
(* Accessors *)

AccessorMember(p) ==
  Last(Identifier(Alloc(Advance(p), 1)), LAMBDA n : Node("ACCESSOR_MEMBER", "", p.pos, <<n>>))

\* Without its ']' the accessor is overwritten by the error, not destroyed.
AccessorIndex(p) ==
  LET Index(n) == Node("ACCESSOR_INDEX", "", p.pos, <<n>>)
  IN  Then(Expr(Alloc(Advance(p), 1)), Index,
           LAMBDA n, q : Expect("]", q, LAMBDA s : Ok(Index(n), s), MakeError(q)))

\* The end of ast_accessor_call; `errors` are the arguments that failed.
CallClose(at, errors, p) ==
  Expect(")", p,
         LAMBDA q : [ok |-> errors = <<>>, node |-> Node("ACCESSOR_CALL", "", at, errors), p |-> q],
         MakeError(p))

MoreArguments(at, errors, p) ==
  IF Is(p, ",") THEN CallArguments(at, errors, Advance(p)) ELSE CallClose(at, errors, p)

\* An argument that was parsed is kept by nobody.
CallArguments(at, errors, p) ==
  LET Kept(n, q) == MoreArguments(at, Append(errors, n), q)
      Dropped(n, q) == MoreArguments(at, errors, q)
      Replaced(n, q) == On(Becomes(n, q), Kept, Kept, Kept)
  IN  On(Expr(p), Dropped, Kept, Replaced)

AccessorCall(p) ==
  LET q == Alloc(Advance(p), 1)
  IN  IF Is(q, "ident") THEN CallArguments(p.pos, <<>>, q) ELSE CallClose(p.pos, <<>>, q)

Accessor(p) ==
  CASE Is(p, ".") -> AccessorMember(p)
    [] Is(p, "[") -> AccessorIndex(p)
    [] Is(p, "(") -> AccessorCall(p)

\* The loop of ast_expr_ident.
IdentAccessors(node, p) ==
  IF Current(p) \notin {".", "["} THEN Ok(node, p)
  ELSE On(Accessor(p),
          LAMBDA n, q : IdentAccessors(AddKid(node, n), q),
          LAMBDA n, q : Fails(n, Destroy(q, node)),
          LAMBDA n, q : Becomes(node, q))

ExprIdent(p) ==
  LET Location(n) == Node("EXPR_IDENT", "", p.pos, <<n>>)
  IN  Then(Identifier(Alloc(p, 1)), Location, LAMBDA n, q : IdentAccessors(Location(n), q))

-----------------------------------------------------------------------------
(* Functions *)

\* The loop over the parameters; one that is no identifier is an error node.
Parameters(list, p) ==
  LET r == Identifier(p)
      longer == Append(list, r.node)
  IN  IF Is(r.p, ",") THEN Parameters(longer, Advance(r.p)) ELSE [list |-> longer, p |-> r.p]

FuncDefBody(at, parameters) ==
  LET Value(body) == Node("FUNC_DEF_VAL", "", at, <<body>> \o parameters.list)
      Done(n, q) == [ok |-> ~SomeError(parameters.list), node |-> Value(n), p |-> q]
  IN  Expect(")", parameters.p, LAMBDA q : Then(Block(q), Value, Done),
             Becomes(Value(Null), parameters.p))

FuncDefValue(at, p) ==
  LET q == Alloc(Advance(p), 1)
  IN  IF ~Is(p, "(") THEN MakeError(p)
      ELSE FuncDefBody(at, IF Is(q, "ident") THEN Parameters(<<>>, q)
                           ELSE [list |-> <<>>, p |-> q])

\* A definition that failed without being an error itself counts as parsed.
FuncDef(at, global, p) ==
  LET Definition(id, d) == Node("FUNC_DEF", global, at, <<id, d>>)
      Parsed(id, d, q) == Ok(Definition(id, d), q)
      NoIdentifier(id, q) == Becomes(Definition(id, Null), q)
  IN  On(Identifier(Alloc(p, 1)),
         LAMBDA id, q : On(FuncDefValue(q.pos, q),
                           LAMBDA d, r : Parsed(id, d, r),
                           LAMBDA d, r : Fails(Definition(id, d), r),
                           LAMBDA d, r : Parsed(id, d, r)),
         NoIdentifier, NoIdentifier)

\* The isSet expression; without its ')' the node is overwritten by the error.
IsSet(p) ==
  LET Query(n) == Node("STMT_IS_SET", "", p.pos, <<n>>)
  IN  Expect("(", Advance(p),
             LAMBDA q : Then(Identifier(Alloc(q, 1)), Query,
                             LAMBDA n, s : Expect(")", s, LAMBDA t : Ok(Query(n), t), MakeError(s))),
             MakeError(Advance(p)))

-----------------------------------------------------------------------------
(* Expressions *)

\* Table and array definitions are not implemented: they are errors.
Primary(p) ==
  LET q == Alloc(p, 1)
      Operand(n) == Node("EXPR_PRIMARY", "", p.pos, <<n>>)
      Grouped(n, s) == Expect(")", s, LAMBDA t : Ok(Operand(n), t), Becomes(Operand(n), s))
  IN  CASE Is(p, "(") -> Then(Expr(Advance(q)), Operand, Grouped)
        [] Current(p) \in {"{", "["} -> Last(MakeError(q), Operand)
        [] Is(p, "func") -> Last(FuncDefValue(p.pos, Advance(q)), Operand)
        [] Is(p, "isSet") -> Last(IsSet(q), Operand)
        [] Is(p, "ident") -> Last(Identifier(q), Operand)
        [] OTHER -> Last(Literal(q), Operand)

\* The loop of ast_expr_postfix and the check behind it.
PostfixAccessors(node, p) ==
  IF Current(p) \in {".", "[", "("}
  THEN On(Accessor(p),
          LAMBDA n, q : PostfixAccessors(AddKid(node, n), q),
          LAMBDA n, q : Fails(n, Destroy(q, node)),
          LAMBDA n, q : Becomes(n, Destroy(q, node)))
  ELSE IF Current(p) \in {"++", "--"} THEN Becomes(node, p)
  ELSE Ok(node, p)

\* What may follow the operand that begins at p.
Suffixed(p, operand, q) ==
  LET Postfixed(op) == Node("EXPR_POSTFIX", op, p.pos, <<operand>>)
  IN  IF Current(q) \in {"++", "--"}
      THEN IF Is(p, "ident") THEN Ok(Postfixed(Current(q)), Alloc(Advance(q), 1))
           ELSE Becomes(operand, q)
      ELSE IF Current(q) \in {".", "[", "("} THEN PostfixAccessors(Postfixed(""), Alloc(q, 1))
      ELSE Ok(operand, q)

Postfix(p) ==
  On(IF Is(p, "ident") THEN ExprIdent(p) ELSE Primary(p),
     LAMBDA n, q : Suffixed(p, n, q), Fails, Becomes)

\* The loop of ast_expr_unary.  Each turn overwrites rhs; the error of a failed
\* operand or postfix expression is left behind, with *out as it was.
UnaryLoop(at, rhs, p) ==
  LET op == Current(p)
      Operator(n, q) == UnaryLoop(at, Node("EXPR_UNARY", op, at, <<n>>), Alloc(q, 1))
      LeftBehind(n, q) == Fails(rhs, q)
  IN  IF op \in {"not", "++", "--"}
      THEN On(IF op = "not" THEN Unary(Advance(p)) ELSE ExprIdent(Advance(p)),
              Operator, LeftBehind, LAMBDA n, q : MakeError(Destroy(Destroy(q, rhs), n)))
      ELSE IF rhs # Null THEN Ok(rhs, p)
      ELSE On(Postfix(p), Ok, LeftBehind, LAMBDA n, q : MakeError(q))

UnaryRule(p) == UnaryLoop(p.pos, Null, p)

\* The binary tiers, loosest first; ast_expr_expo is the last.
Tiers == <<
  [kind |-> "EXPR_LOGI_OR",  ops |-> {"or"}],
  [kind |-> "EXPR_LOGI_AND", ops |-> {"and"}],
  [kind |-> "EXPR_EQU",      ops |-> {"==", "!="}],
  [kind |-> "EXPR_COMP",     ops |-> {">", "<", ">=", "<="}],
  [kind |-> "EXPR_ADD",      ops |-> {"+", "-"}],
  [kind |-> "EXPR_MULT",     ops |-> {"*", "/"}],
  [kind |-> "EXPR_EXPO",     ops |-> {"^"}] >>
EXPO == Len(Tiers)

Tighter(tier, p) == IF tier = EXPO THEN Unary(p) ELSE Tier(tier + 1, p)

\* Slip: an exponent takes one tighter operand on its right, as the others do.
RightOperandTight(tier, p) == Tighter(tier, p)

RightOperand(tier, p) == IF tier = EXPO THEN Tier(EXPO, p) ELSE Tighter(tier, p)

\* The fold-left loop: an error on the right is passed on and lhs left behind.
Fold(tier, at, lhs, p) ==
  LET Folded(n) == Node(Tiers[tier].kind, Current(p), at, <<lhs, n>>)
  IN  IF Current(p) \notin Tiers[tier].ops THEN Ok(lhs, p)
      ELSE On(RightOperand(tier, Advance(p)),
              LAMBDA n, q : Fold(tier, at, Folded(n), Alloc(q, 1)),
              Fails, LAMBDA n, q : MakeError(Destroy(Destroy(q, lhs), n)))

Tier(tier, p) ==
  On(Tighter(tier, p), LAMBDA n, q : Fold(tier, p.pos, n, q), Fails, Becomes)

ExprRule(p) == Last(Tier(1, Alloc(p, 1)), LAMBDA n : Node("EXPR", "", p.pos, <<n>>))

Condition(p) == Expr(p)

-----------------------------------------------------------------------------
(* Statements *)

\* A missing expression makes the whole statement fail.
Return(p) ==
  LET Returned(n) == Node("STMT_RETURN", "", p.pos, <<n>>)
  IN  On(Expr(Alloc(Advance(p), 1)),
         LAMBDA n, q : Ok(Returned(n), q),
         LAMBDA n, q : Ok(Returned(Null), q),
         LAMBDA n, q : Becomes(Returned(n), q))

Assigned(p, Definition(_)) == Last(Expr(Advance(p)), Definition)

ConstDef(at, global, p) ==
  LET Definition(id, e) == Node("STMT_CONST_DEF", global, at, <<id, e>>)
      NoEqual(id, q) == LET e == MakeError(q) IN Fails(Definition(id, e.node), e.p)
  IN  Then(Identifier(Alloc(p, 1)), LAMBDA id : Definition(id, Null),
           LAMBDA id, q : IF Is(q, "=") THEN Assigned(q, LAMBDA e : Definition(id, e))
                          ELSE NoEqual(id, q))

VarDef(at, global, p) ==
  LET Definition(id, e) == Node("STMT_VAR_DEF", global, at, <<id, e>>)
  IN  Then(Identifier(Alloc(p, 1)), LAMBDA id : Definition(id, Null),
           LAMBDA id, q : IF Is(q, "=") THEN Assigned(q, LAMBDA e : Definition(id, e))
                          ELSE Ok(Definition(id, Null), q))

\* The definition of a for loop.
LocalDef(p) ==
  Expect("define", p,
         LAMBDA q : Expect("variable", q, LAMBDA s : VarDef(p.pos, "", s), MakeError(q)),
         MakeError(p))

Global(p) == IF Is(p, "global") THEN "global" ELSE ""
AfterGlobal(p) == IF Is(p, "global") THEN Advance(p) ELSE p

VarConstFuncDef(p) ==
  LET g == Global(Advance(p))
      q == AfterGlobal(Advance(p))
  IN  CASE Is(q, "constant") -> ConstDef(p.pos, g, Advance(q))
        [] Is(q, "variable") -> VarDef(p.pos, g, Advance(q))
        [] Is(q, "func") -> FuncDef(p.pos, g, Advance(q))
        [] OTHER -> MakeError(q)

\* Slip: the '=' is optional.
VarSetLoose(p) ==
  LET g == Global(Advance(p))
      q == AfterGlobal(Advance(p))
      Set(id, e) == Node("STMT_VAR_SET", g, p.pos, <<id, e>>)
  IN  Expect("variable", q,
             LAMBDA s : Then(Identifier(Alloc(s, 1)), LAMBDA id : Set(id, Null),
                             LAMBDA id, t : IF Is(t, "=") THEN Assigned(t, LAMBDA e : Set(id, e))
                                            ELSE Ok(Set(id, Null), t)),
             MakeError(q))

\* Slip: without the '=' the identifier is destroyed, and again with its statement.
VarSetTwice(p) ==
  LET g == Global(Advance(p))
      q == AfterGlobal(Advance(p))
      Set(id, e) == Node("STMT_VAR_SET", g, p.pos, <<id, e>>)
  IN  Expect("variable", q,
             LAMBDA s : Then(Identifier(Alloc(s, 1)), LAMBDA id : Set(id, Null),
                             LAMBDA id, t : IF Is(t, "=") THEN Assigned(t, LAMBDA e : Set(id, e))
                                            ELSE Becomes(Set(id, Null), Destroy(t, id))),
             MakeError(q))

VarSet(p) ==
  LET g == Global(Advance(p))
      q == AfterGlobal(Advance(p))
      Set(id, e) == Node("STMT_VAR_SET", g, p.pos, <<id, e>>)
  IN  Expect("variable", q,
             LAMBDA s : Then(Identifier(Alloc(s, 1)), LAMBDA id : Set(id, Null),
                             LAMBDA id, t : IF Is(t, "=") THEN Assigned(t, LAMBDA e : Set(id, e))
                                            ELSE Becomes(Set(id, Null), t)),
             MakeError(q))

VarUnset(p) ==
  LET q == AfterGlobal(Alloc(Advance(p), 1))
      Unset(id) == Node("STMT_VAR_UNSET", Global(Advance(p)), p.pos, <<id>>)
  IN  Expect("variable", q, LAMBDA s : Last(Identifier(s), Unset), Becomes(Unset(Null), q))

\* make_bool_conditional_ast(true), four nodes.
TrueCondition(at) ==
  Node("CONDITION", "", at,
       << Node("EXPR", "", at,
               << Node("EXPR_PRIMARY", "", at, << Node("LITERAL", "true", at, <<>>) >>) >>) >>)

\* What follows the block of an if: nothing, another if, or the last block.
Else(Statement1(_), p) ==
  LET q == Advance(p)
      Otherwise(b) == Node("STMT_COMP", "", q.pos, <<TrueCondition(q.pos), b, Null>>)
  IN  IF ~Is(p, "else") THEN Ok(Statement1(Null), p)
      ELSE IF Is(q, "if") THEN Last(Comparison(q), Statement1)
      ELSE Last(Block(Alloc(q, 5)), LAMBDA b : Statement1(Otherwise(b)))

Comparison(p) ==
  LET q == Advance(p)
      If(c, b, e) == Node("STMT_COMP", "", p.pos, <<c, b, e>>)
      Body(c, s) == Then(Block(s), LAMBDA b : If(c, b, Null),
                         LAMBDA b, t : Else(LAMBDA e : If(c, b, e), t))
  IN  Expect("(", q,
             LAMBDA s : Then(Condition(Alloc(s, 1)), LAMBDA c : If(c, Null, Null),
                             LAMBDA c, t : Expect(")", t, LAMBDA u : Body(c, u),
                                                  Becomes(If(c, Null, Null), t))),
             MakeError(q))

CondIter(p) ==
  LET q == Alloc(Advance(p), 1)
      Loop(c, b) == Node("STMT_COND_ITER", Current(p), p.pos, <<c, b>>)
      Test(b, s, Next(_, _)) ==
        Expect("(", s,
               LAMBDA t : Then(Condition(t), LAMBDA c : Loop(c, b),
                               LAMBDA c, u : Expect(")", u, LAMBDA v : Next(c, v),
                                                    Becomes(Loop(c, b), u))),
               Becomes(Loop(Null, b), s))
  IN  IF Is(p, "while")
      THEN Test(Null, q, LAMBDA c, s : Last(Block(s), LAMBDA b : Loop(c, b)))
      ELSE Then(Block(q), LAMBDA b : Loop(Null, b),
                LAMBDA b, s : Expect("while", s,
                                     LAMBDA t : Test(b, t, LAMBDA c, u : Ok(Loop(c, b), u)),
                                     Becomes(Loop(Null, b), s)))

\* The update of a for loop: a set, an increment behind or before an identifier,
\* or nothing.
IsIncrement(node) ==
  node.kind \in {"EXPR_POSTFIX", "EXPR_UNARY"} /\ node.op \in {"++", "--"}

Update(p, Loop(_), Next(_, _)) ==
  LET Checked(n, q) ==
        LET e == Becomes(Loop(n), q)
        IN  IF IsIncrement(n) THEN Next(n, q) ELSE Fails([e.node EXCEPT !.at = p.pos], e.p)
  IN  CASE Is(p, "set") -> Then(VarSet(p), Loop, Next)
        [] Is(p, "ident") -> Then(Postfix(p), Loop, Checked)
        [] Current(p) \in {"++", "--"} -> Then(Unary(p), Loop, Checked)
        [] OTHER -> Next(Null, p)

NumIter(p) ==
  LET q == Advance(p)
      For(i, c, u, b) == Node("STMT_NUM_ITER", "", p.pos, <<i, c, u, b>>)
      Body(i, c, u, s) ==
        Expect(")", s, LAMBDA t : Last(Block(t), LAMBDA b : For(i, c, u, b)),
               Becomes(For(i, c, u, Null), s))
      Last2(i, s) ==
        Then(Expr(s), LAMBDA c : For(i, c, Null, Null),
             LAMBDA c, t : Expect(",", t,
               LAMBDA v : Update(v, LAMBDA u : For(i, c, u, Null), LAMBDA u, w : Body(i, c, u, w)),
               Becomes(For(i, c, Null, Null), t)))
      First(i, s) == Expect(",", s, LAMBDA t : Last2(i, t), Becomes(For(i, Null, Null, Null), s))
  IN  IF ~Is(q, "(") THEN MakeError(q)
      ELSE IF ~Is(Advance(q), "define") THEN First(Null, Alloc(Advance(q), 1))
      ELSE On(LocalDef(Alloc(Advance(q), 1)), First, LAMBDA n, s : First(Null, s),
              LAMBDA n, s : Becomes(For(n, Null, Null, Null), s))

\* A failed statement that is no error itself is left behind for a new error.
Statement(p) ==
  LET Simple(kind) == Ok(Node(kind, "", p.pos, <<>>), Alloc(Advance(p), 1))
  IN  On(CASE Is(p, "break") -> Simple("STMT_BREAK")
           [] Is(p, "continue") -> Simple("STMT_CONTINUE")
           [] Is(p, "isSet") -> IsSet(p)
           [] Is(p, "define") -> VarConstFuncDef(p)
           [] Is(p, "set") -> VarSet(p)
           [] Is(p, "unset") -> VarUnset(p)
           [] Is(p, "if") -> Comparison(p)
           [] Current(p) \in {"do", "while"} -> CondIter(p)
           [] Is(p, "for") -> NumIter(p)
           [] Is(p, "return") -> Return(p)
           [] OTHER -> Expr(p),
         Ok, Fails, LAMBDA n, q : MakeError(q))

\* The loop shared by a program and a block, up to the end of the stream or the
\* first failure; `error` is the failed statement.
Statements(list, p) ==
  LET Ended(n, q) == [list |-> list, error |-> n, p |-> q]
  IN  IF AtEnd(p) THEN Ended(Null, p)
      ELSE On(Statement(p), LAMBDA n, q : Statements(Append(list, n), q), Ended, Ended)

\* "Surface a trailing scanner error as data in the tree."
Trailing(s) ==
  LET e == MakeError(s.p)
  IN  IF ~s.p.hadError /\ Is(s.p, "ERROR")
      THEN [s EXCEPT !.list = Append(@, e.node), !.p = e.p]
      ELSE s

\* A block ends where a statement fails: the closing brace is one such place.  The
\* error is dropped, and the status is whether there was one.
BlockEnd(at, s) ==
  LET block == Node("BLOCK", "", at, s.list)
  IN  Expect("}", s.p, LAMBDA q : [ok |-> s.error # Null, node |-> block, p |-> q],
             Becomes(block, s.p))

BlockRule(p) ==
  IF Is(p, "{") THEN BlockEnd(p.pos, Trailing(Statements(<<>>, Alloc(Advance(p), 1))))
  ELSE MakeError(p)

\* A program ends with the failed statement in it.
ProgramEnd(at, s) ==
  [ok |-> s.error = Null, p |-> IF s.error = Null THEN Trailing(s).p ELSE s.p,
   node |-> Node("PROGRAM", "", at, IF s.error = Null THEN Trailing(s).list
                                    ELSE Append(s.list, s.error))]

ProgramRule(p) == ProgramEnd(p.pos, Statements(<<>>, Alloc(p, 1)))

Rule(rule, p) ==
  CASE rule = "program" -> ProgramRule(p)
    [] rule = "expression" -> ExprRule(p)
    [] rule = "block" -> BlockRule(p)
    [] rule = "unary" -> UnaryRule(p)

-----------------------------------------------------------------------------
(* The life of a parser *)

ParserInit ==
  /\ source = <<>>
  /\ pc = "none"
  /\ parser = [pos |-> 1, hadError |-> FALSE, live |-> 0]
  /\ ast = Null

ParserNew ==
  /\ pc = "none"
  /\ source' \in Sources
  /\ pc' = "ready"
  /\ UNCHANGED <<parser, ast>>

\* A second call returns the tree the first one built.
ParserParse ==
  /\ pc \in {"ready", "parsed"}
  /\ IF ast = Null
     THEN LET r == Program(parser) IN ast' = r.node /\ parser' = r.p
     ELSE UNCHANGED <<ast, parser>>
  /\ pc' = "parsed"
  /\ UNCHANGED source

ParserDestroy ==
  /\ pc \in {"ready", "parsed"}
  /\ parser' = Destroy(parser, ast)
  /\ ast' = Null
  /\ pc' = "destroyed"
  /\ UNCHANGED source

ParserNext == ParserNew \/ ParserParse \/ ParserDestroy

ParserSpec == ParserInit /\ [][ParserNext]_parserVars

=============================================================================
