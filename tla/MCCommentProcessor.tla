------------------------ MODULE MCCommentProcessor ------------------------
(* A class with two methods, the first with a statement, in a file between *)
(* two others with one element each; lines are eight characters long.      *)
EXTENDS CommentProcessor, FiniteSets

At(tree, from, to) == [tree |-> tree, start |-> from, end |-> to]
Element(l, label, key) == [location |-> l, label |-> label, key |-> key]
Comment(l, type) == [location |-> l, type |-> type]

class     == At(2, 8, 63)
method    == At(2, 17, 40)
statement == At(2, 20, 23)
second    == At(2, 42, 46)
earlier   == At(1, 0, 30)
later     == At(3, 4, 20)

ElementCalls ==
  {Element(class, "class", "k"), Element(method, "method", "k"), Element(second, "second", None),
   Element(statement, "statement", None), Element(earlier, "part", None),
   Element(later, "class", None), Element(None, "part", "k")}

\* Above the class, after its opening brace (so that the block of the two may
\* go on inside), after the statement, across the end of the first method (two
\* comments on one line), above and below the second, and at the end.
CommentCalls ==
  {Comment(At(2, 2, 5), "Singleline"), Comment(At(2, 24, 28), "Multiline"),
   Comment(At(2, 32, 36), "MultilineContinuation"), Comment(At(2, 40, 41), "Multiline"),
   Comment(At(2, 48, 52), "XmlDoc"), Comment(At(2, 64, 70), "Singleline")}

Elements_ == {c.location : c \in ElementCalls} \ {None}
Comments_ == {c.location : c \in CommentCalls}
Labels == {c.label : c \in ElementCalls}

\* The second line of a comment comes with the first.
Calls ==
  [elements : {S \in SUBSET ElementCalls : Cardinality(S) <= 4},
   comments : {S \in SUBSET CommentCalls :
                 /\ Cardinality(S) <= 3
                 /\ At(2, 32, 36) \in {c.location : c \in S}
                      => At(2, 24, 28) \in {c.location : c \in S}}]

Row(tree, p) == p \div 8
Column(tree, p) == p % 8
=============================================================================
