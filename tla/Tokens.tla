------------------------------- MODULE Tokens -------------------------------
(***************************************************************************)
(* The tokens that augmentAst adds to an AST.  A scanner needs the parser's*)
(* help at some tokens: it scans `>' where the operator is `>>', a slash   *)
(* where a regular expression starts, and a brace where a template goes on.*)
(* augmentAst first collects the positions of such tokens from the tree,   *)
(* then scans the text and has the scanner scan again at these positions.  *)
(*                                                                         *)
(* Layout is left out: between tokens there is neither space nor comment.  *)
(***************************************************************************)
EXTENDS Naturals, Sequences, SequencesExt

CONSTANTS
  Asts,       \* syntax trees: see Placed
  Infinity

VARIABLES
  ast, parseDiagnostics,
  reScanEventPos,     \* the positions, and Infinity after them
  rescanEventIndex,
  pos,                \* where the scanner is
  tokens              \* ast.$tokens

vars == <<ast, parseDiagnostics, reScanEventPos, rescanEventIndex, pos, tokens>>

-----------------------------------------------------------------------------
(* Syntax trees.  An expression is a leaf, a binary expression of two      *)
(* operands, or a template with an expression inside.                      *)

GreaterOperator == "GreaterThanGreaterThanToken"

Width(kind) ==
  CASE kind = "Identifier" -> 1
    [] kind = "PlusToken" -> 1
    [] kind = GreaterOperator -> 2
    [] OTHER -> 3

\* The tree of an expression whose text starts at p: its nodes have a start and
\* an end, and the operator of a binary expression is one of its children.
RECURSIVE Placed(_, _)
Placed(node, p) ==
  IF node.children = <<>>
    THEN [kind |-> node.kind, start |-> p, end |-> p + Width(node.kind), children |-> <<>>]
    ELSE LET place(placed, child) ==
               Append(placed, Placed(child, IF placed = <<>> THEN p ELSE Last(placed).end))
             children == FoldLeft(place, <<>>, node.children)
         IN  [kind |-> node.kind, start |-> p, end |-> Last(children).end, children |-> children]

\* The tokens of a tree in the order of the text.
RECURSIVE Leaves(_)
Leaves(node) ==
  IF node.children = <<>>
    THEN <<node>>
    ELSE FlattenSeq([i \in DOMAIN node.children |-> Leaves(node.children[i])])

\* scan() at p.  Inside of a token that it did not recognise it goes on character
\* by character; the backquote at the end of a template opens another one, which
\* does not end.
Scanned(p) ==
  LET at == {t \in ToSet(Leaves(ast)) : t.start <= p /\ p < t.end}
      t == CHOOSE t \in at : TRUE
  IN  CASE at = {} -> p
        [] t.kind = "TemplateTail" /\ p + 1 = t.end -> ast.end
        [] t.start = p /\ t.kind \in {"Identifier", "PlusToken", "TemplateHead"} -> t.end
        [] OTHER -> p + 1

\* reScanSlashToken, reScanGreaterToken or reScanTemplateToken at p.
Rescanned(p) == (CHOOSE t \in ToSet(Leaves(ast)) : t.start = p).end

-----------------------------------------------------------------------------
(* augmentAst.                                                             *)

\* What the callback pushes for one node.
EventOf(node) ==
  CASE node.kind \in {"RegularExpressionLiteral", "TemplateTail"} -> <<node.start>>
    [] node.kind = "BinaryExpression" /\ node.children[2].kind = GreaterOperator ->
         <<node.children[2].start>>
    [] OTHER -> <<>>

\* forEachNode: the callback is called for the children of a node first.
RECURSIVE EventsOf(_)
EventsOf(node) ==
  FlattenSeq([i \in DOMAIN node.children |-> EventsOf(node.children[i])]) \o EventOf(node)

nextRescanPosition == reScanEventPos[rescanEventIndex + 1]

Init ==
  /\ ast \in {Placed(a, 0) : a \in Asts} /\ parseDiagnostics \in BOOLEAN
  /\ reScanEventPos = <<>> /\ rescanEventIndex = 0
  /\ pos = 0 /\ tokens = <<>>

\* Nothing is collected from the tree of a file with errors.
Collect ==
  /\ reScanEventPos = <<>>
  /\ reScanEventPos' = Append(IF parseDiagnostics THEN <<>> ELSE EventsOf(ast), Infinity)
  /\ UNCHANGED <<ast, parseDiagnostics, rescanEventIndex, pos, tokens>>

AtEnd == tokens # <<>> /\ Last(tokens).start = ast.end

\* One round of the loop; the last token is the end of the file.
Scan ==
  /\ reScanEventPos # <<>> /\ ~AtEnd
  /\ LET again == pos = nextRescanPosition
         end == IF again THEN Rescanned(pos) ELSE Scanned(pos)
     IN  /\ rescanEventIndex' = IF again THEN rescanEventIndex + 1 ELSE rescanEventIndex
         /\ tokens' = Append(tokens, [start |-> pos, end |-> end])
         /\ pos' = end
  /\ UNCHANGED <<ast, parseDiagnostics, reScanEventPos>>

Next == Collect \/ Scan

Spec == Init /\ [][Next]_vars

-----------------------------------------------------------------------------
\* "At these offsets, a call to `scanner.reScanX` is required": when the file is
\* scanned, there was one at each.
EveryRescanHappens == AtEnd => nextRescanPosition = Infinity
=============================================================================
