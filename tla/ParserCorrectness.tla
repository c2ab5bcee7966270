-------------------------- MODULE ParserCorrectness --------------------------
(***************************************************************************)
(* What parser.c promises, over the derivations of Grammar.                *)
(***************************************************************************)
EXTENDS Parser

\* The tokens that cannot carry on the statement before them.
Fresh == Token \ {"(", "[", ".", "++", "--", "not", "=", ","}

\* All programs of the grammar; and those where a statement behind another begins
\* with a fresh token, so that the text has no second reading.
Any == INSTANCE Grammar WITH Begins <- Token
Plain == INSTANCE Grammar WITH Begins <- Fresh

RECURSIVE Bare(_)
\* The tree without the arguments of its calls.
Bare(tree) ==
  [tree EXCEPT !.kids = IF tree.kind = "ACCESSOR_CALL" THEN <<>>
                        ELSE [k \in DOMAIN tree.kids |-> Bare(tree.kids[k])]]

Parsed == pc = "parsed"
Blocks == \E k \in DOMAIN source : source[k] = "{"
Arguments == \E k \in DOMAIN source : k > 2 /\ source[k - 1] = "(" /\ source[k] = "ident"

\* A prefix operator behind an operand, after an earlier prefix operator: the
\* loop of ast_expr_unary takes it for its own.
Prefix == {"not", "++", "--"}
Overwritten ==
  \E k, m \in DOMAIN source :
    k < m /\ source[k] \in Prefix /\ source[m] \in Prefix
          /\ source[m - 1] \in {"ident", ")", "]"} \cup Literals

\* Type correctness: the node that ends the recursion is a node, the cursor stays
\* in the stream or at its end, and the count of live nodes is a count.
ParserTypeOK ==
  /\ source \in Seq(Token)
  /\ pc \in {"none", "ready", "parsed", "destroyed"}
  /\ parser.pos \in 1 .. Len(source) + 1
  /\ parser.hadError \in BOOLEAN
  /\ parser.live \in Nat
  /\ ast.kind \in {"NULL", "PROGRAM"}

\* "Decide whether the tokens form a valid program and, if so, capture that
\* program's structure": a program of the grammar, none of whose statements can
\* be read as a continuation of the one before, is parsed without an error into
\* its structure: precedence, associativity, nesting and positions.  Up to the
\* arguments of calls.
ValidIsParsed ==
  Parsed => LET trees == Plain!Programs
            IN  trees # {} => Bare(ast) \in {Bare(t) : t \in trees}

\* The other half of it: a tree without errors is a structure of its source.  Up to the
\* arguments of calls, and for sources without blocks and overwritten operators.
ParsedIsValid ==
  Parsed /\ ~Blocks /\ ~Overwritten /\ ~HasError(ast) =>
    Bare(ast) \in {Bare(t) : t \in Any!Programs}

\* An error in the tree is never without the parser's flag.
ErrorsFlagged == Parsed /\ HasError(ast) => parser.hadError

\* Every node of the tree is alive: none of the many failure paths destroys a node
\* that stays in the tree, or destroys one twice.
NodesAlive == parser.live >= Count(ast)

\* A program of the grammar without blocks and arguments leaves nothing behind:
\* destroying the parser frees every node.
NothingLeft ==
  pc = "destroyed" /\ ~Blocks /\ ~Arguments /\ Plain!Programs # {} => parser.live = 0

\* "A malformed program is reported as AST_ERROR nodes within the tree."
MalformedReported == Parsed /\ Any!Programs = {} => HasError(ast)

\* "Capture that program's structure": nothing of the source is missing in a
\* tree without errors.
StructureKept == Parsed /\ ~HasError(ast) /\ ~Blocks => ast \in Any!Programs

\* hadError is "whether a syntax error has been encountered".
FlagIsSyntaxError == Parsed /\ parser.hadError => Plain!Programs = {}

=============================================================================
