------------------------------- MODULE MCTokens -------------------------------
(* Expressions of one or two binary operators or templates.                *)
EXTENDS Tokens

Node(kind, children) == [kind |-> kind, children |-> children]

Simple == {Node("Identifier", <<>>), Node("RegularExpressionLiteral", <<>>)}
Compound(operands) ==
  {Node("BinaryExpression", <<l, Node(op, <<>>), r>>) :
     l \in operands, r \in operands, op \in {"PlusToken", GreaterOperator}}
  \cup {Node("TemplateExpression", <<Node("TemplateHead", <<>>), e, Node("TemplateTail", <<>>)>>) :
          e \in operands}

Operands == Simple \cup Compound(Simple)
Trees == Compound(Operands)
=============================================================================
