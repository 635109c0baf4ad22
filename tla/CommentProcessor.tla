-------------------------- MODULE CommentProcessor --------------------------
(***************************************************************************)
(* The comment processor of the C# extractor.  While a file is extracted,  *)
(* the locations of its program elements and comment lines are registered, *)
(* in any order.  GenerateBindings then merges the two sorted dictionaries *)
(* in one pass: comment lines are joined to blocks, and each block is bound*)
(* to the elements before, after and around it.                            *)
(*                                                                         *)
(* A span of text is a record of the rank of its file's path, its start    *)
(* and its end, which is exclusive.                                        *)
(***************************************************************************)
EXTENDS Naturals, Sequences, FiniteSetsExt

CONSTANTS
  ElementAt,         \* locations at which elements may be registered
  CommentAt,         \* locations of comment lines
  Label,             \* labels of elements in the trap file
  Key,               \* duplication guard keys
  Programs,          \* what an extraction registers: sets of elements and of comment lines
  LineAt(_, _),      \* line and column of a position in a file
  ColumnAt(_, _),
  None

Span == [tree : Nat, start : Nat, end : Nat]
Location == ElementAt \cup CommentAt

CommentLineType == {"Singleline", "XmlDoc", "Multiline", "MultilineContinuation"}

\* The arguments of AddElement and AddComment.
ElementCall == [location : ElementAt \cup {None}, label : Label, key : Key \cup {None}]
CommentCall == [location : CommentAt, type : CommentLineType]

ASSUME CommentAssumption ==
  /\ ElementAt \subseteq Span /\ CommentAt \subseteq Span
  /\ Programs \subseteq [elements : SUBSET ElementCall, comments : SUBSET CommentCall]
  /\ None \notin Span /\ None \notin Label /\ None \notin CommentLineType /\ None \notin Key

\* One span begins and ends inside of another, and does not begin with it.
Inside(inner, outer) == outer.start < inner.start /\ inner.end <= outer.end

\* The locations are those of a text: elements nest, comment lines are on one line
\* of one file, the one that the context extracts, and no element starts with one.
ASSUME TextAssumption ==
  /\ \A e \in ElementAt : e.start < e.end
  /\ \A e, f \in ElementAt : e.tree = f.tree /\ e # f =>
       e.end <= f.start \/ f.end <= e.start \/ Inside(e, f) \/ Inside(f, e)
  /\ \A c \in CommentAt : c.start <= c.end /\ LineAt(c.tree, c.start) = LineAt(c.tree, c.end)
  /\ \A c, d \in CommentAt : c.tree = d.tree
  /\ \A c \in CommentAt, e \in ElementAt : c.tree = e.tree => c.start # e.start

VARIABLES
  phase,         \* "register", "merge", "done"
  elementCalls,  \* calls of AddElement and AddComment that are still to come
  commentCalls,
  elements,      \* dictionary: the label at a location, or None
  guardKeys,     \* duplicationGuardKeys: the key of a label, or None
  comments,      \* dictionary: the type of the comment line at a location, or None
  nextElement,   \* Current of the enumerator of elements, None when it is at the end
  comment,       \* Current of the enumerator of comments
  elementStack,  \* bottom first
  lines,         \* of the current block; empty if there is none
  blocks         \* what the callback was given, block by block (history)

dictionaries == <<elements, guardKeys, comments>>
vars == <<phase, elementCalls, commentCalls, dictionaries, nextElement, comment,
          elementStack, lines, blocks>>

Elements == {l \in ElementAt : elements[l] # None}
Comments == {l \in CommentAt : comments[l] # None}

\* A block and the locations and callbacks that it gave rise to.
Block ==
  [lines : Seq(CommentAt), previous : ElementAt \cup {None}, next : ElementAt \cup {None},
   parent : ElementAt \cup {None},
   bindings : SUBSET ({"Before", "After", "Parent", "Best"} \X Label \X (Key \cup {None}))]

TypeOK ==
  /\ phase \in {"register", "merge", "done"}
  /\ elementCalls \in SUBSET ElementCall /\ commentCalls \in SUBSET CommentCall
  /\ elements \in [ElementAt -> Label \cup {None}]
  /\ guardKeys \in [Label -> Key \cup {None}]
  /\ comments \in [CommentAt -> CommentLineType \cup {None}]
  /\ nextElement \in Elements \cup {None} /\ comment \in Comments \cup {None}
  /\ elementStack \in Seq(ElementAt)
  /\ lines \in Seq(CommentAt)
  /\ blocks \in Seq(Block)

Init ==
  /\ phase = "register"
  /\ \E p \in Programs : elementCalls = p.elements /\ commentCalls = p.comments
  /\ elements = [l \in ElementAt |-> None]
  /\ guardKeys = [l \in Label |-> None]
  /\ comments = [l \in CommentAt |-> None]
  /\ nextElement = None /\ comment = None
  /\ elementStack = <<>> /\ lines = <<>> /\ blocks = <<>>

-----------------------------------------------------------------------------
(* Locations.                                                              *)

StartLine(l) == LineAt(l.tree, l.start)
EndLine(l) == LineAt(l.tree, l.end)
StartColumn(l) == ColumnAt(l.tree, l.start)

Contains(outer, inner) ==
  outer.tree = inner.tree /\ outer.start <= inner.start /\ outer.end >= inner.end

Before(before, after) == before.tree = after.tree /\ before.end <= after.start

\* Compare(l1, l2) < 0, the order of both dictionaries.
Less(l1, l2) ==
  \/ l1.tree < l2.tree
  \/ l1.tree = l2.tree /\ l1.start < l2.start
  \/ l1.tree = l2.tree /\ l1.start = l2.start /\ l1.end < l2.end

\* MoveNext of an enumerator that still has to deliver S: it goes to m.
MovesTo(S, m) ==
  \/ S = {} /\ m = None
  \/ m \in S /\ \A l \in S : l = m \/ Less(m, l)

-----------------------------------------------------------------------------
(* Registration.                                                           *)

\* The last registration at a location counts; one outside of any source file
\* only has its key noted.
AddElement(c) ==
  /\ phase = "register" /\ c \in elementCalls
  /\ elementCalls' = elementCalls \ {c}
  /\ elements' = IF c.location # None THEN [elements EXCEPT ![c.location] = c.label] ELSE elements
  /\ guardKeys' = IF c.key # None THEN [guardKeys EXCEPT ![c.label] = c.key] ELSE guardKeys
  /\ UNCHANGED <<phase, commentCalls, comments, nextElement, comment, elementStack, lines, blocks>>

AddComment(c) ==
  /\ phase = "register" /\ c \in commentCalls
  /\ commentCalls' = commentCalls \ {c}
  /\ comments' = [comments EXCEPT ![c.location] = c.type]
  /\ UNCHANGED <<phase, elementCalls, elements, guardKeys, nextElement, comment, elementStack,
                 lines, blocks>>

-----------------------------------------------------------------------------
(* The stack of elements.                                                  *)

\* Mutant: nothing is popped.
Push_NoPop(v) == elementStack' = Append(elementStack, v)

\* Elements are popped until one contains the new one.
Push(v) ==
  LET containing == {i \in DOMAIN elementStack : Contains(elementStack[i], v)}
      kept == IF containing = {} THEN 0 ELSE Max(containing)
  IN elementStack' = Append(SubSeq(elementStack, 1, kept), v)

\* The first element from the top that contains l.
FindParent(l) ==
  LET containing == {i \in DOMAIN elementStack : Contains(elementStack[i], l)}
  IN  IF containing = {} THEN None ELSE elementStack[Max(containing)]

\* Mutant: the first from the top instead of the last.
FindBefore_First(l) ==
  LET ended == {i \in DOMAIN elementStack : elementStack[i].end < l.start}
  IN  IF ended = {} THEN None ELSE elementStack[Max(ended)]

\* The last element from the top that ends before l; the file is not compared.
FindBefore(l) ==
  LET ended == {i \in DOMAIN elementStack : elementStack[i].end < l.start}
  IN  IF ended = {} THEN None ELSE elementStack[Min(ended)]

FindAfter(l) ==
  LET p == FindParent(l) IN
  IF nextElement # None /\ p # None /\ Before(p, nextElement) THEN None ELSE nextElement

-----------------------------------------------------------------------------
(* Blocks.                                                                 *)

BlockLocation(ls) ==
  [tree |-> ls[Len(ls)].tree, start |-> ls[1].start, end |-> ls[Len(ls)].end]

CombinesWith(ls, newLine) ==
  LET l == BlockLocation(ls) IN
  \/ comments[newLine] = "MultilineContinuation"
  \/ /\ l.tree = newLine.tree
     /\ \/ EndLine(l) = StartLine(newLine)
        \/ EndLine(l) + 1 = StartLine(newLine) /\ StartColumn(l) = StartColumn(newLine)

InFileOf(l, e) == IF e # None /\ e.tree # l.tree THEN None ELSE e

\* The element associated with a comment most likely, of its three candidates.
BestElement(l, previous, next, parent) ==
  CASE previous # None /\ EndLine(previous) = StartLine(l)       -> previous
    [] next # None /\ StartLine(next) = EndLine(l)
         /\ ~(previous # None /\ EndLine(previous) = StartLine(l)) -> next
    [] OTHER ->
         LET noGapBefore == previous # None /\ EndLine(previous) + 1 = StartLine(l)
             noGapAfter  == next # None /\ StartLine(next) = EndLine(l) + 1
         IN  IF noGapAfter /\ ~noGapBefore THEN next
             ELSE IF noGapBefore /\ ~noGapAfter THEN previous
             ELSE parent

\* Binding e to a block: the arguments of the callback.
Bound(binding, e) ==
  IF e = None THEN {} ELSE {<<binding, elements[e], guardKeys[elements[e]]>>}

\* GenerateBindings for one block.
Generate(ls) ==
  LET l == BlockLocation(ls)
      previous == InFileOf(l, FindBefore(l))
      next == InFileOf(l, FindAfter(l))
      parent == InFileOf(l, FindParent(l))
  IN  [lines |-> ls, previous |-> previous, next |-> next, parent |-> parent,
       bindings |-> Bound("Before", previous) \cup Bound("After", next)
                      \cup Bound("Parent", parent)
                      \cup Bound("Best", BestElement(l, previous, next, parent))]

-----------------------------------------------------------------------------
(* The merge.                                                              *)

Start ==
  /\ phase = "register" /\ elementCalls = {} /\ commentCalls = {}
  /\ phase' = IF Comments = {} THEN "done" ELSE "merge"
  /\ \E c \in Comments \cup {None} : MovesTo(Comments, c) /\ comment' = c
  /\ IF Comments = {}
       THEN UNCHANGED nextElement
       ELSE \E e \in Elements \cup {None} : MovesTo(Elements, e) /\ nextElement' = e
  /\ UNCHANGED <<elementCalls, commentCalls, dictionaries, elementStack, lines, blocks>>

CommentIsNext == nextElement # None => Less(comment, nextElement)

\* Mutant: the last block is left out.
TakeComment_NoLast ==
  /\ phase = "merge" /\ CommentIsNext
  /\ LET block == IF lines = <<>> THEN <<comment>> ELSE lines IN
     IF CombinesWith(block, comment)
       THEN lines' = Append(block, comment) /\ UNCHANGED blocks
       ELSE lines' = <<comment>> /\ blocks' = Append(blocks, Generate(block))
  /\ \E c \in Comments \cup {None} :
       /\ MovesTo({l \in Comments : Less(comment, l)}, c) /\ comment' = c
       /\ phase' = IF c = None THEN "done" ELSE "merge"
  /\ UNCHANGED <<elementCalls, commentCalls, dictionaries, nextElement, elementStack>>

\* The comment joins the current block, or ends it and starts another.  A line
\* that starts a block where there was none is added to it as well, so that it
\* is in the block twice.  When there are no more comments, the block is done.
TakeComment ==
  /\ phase = "merge" /\ CommentIsNext
  /\ LET block == IF lines = <<>> THEN <<comment>> ELSE lines
         joins == CombinesWith(block, comment)
         now == IF joins THEN Append(block, comment) ELSE <<comment>>
         done == IF joins THEN blocks ELSE Append(blocks, Generate(block))
     IN \E c \in Comments \cup {None} :
          /\ MovesTo({l \in Comments : Less(comment, l)}, c) /\ comment' = c
          /\ IF c = None
               THEN phase' = "done" /\ lines' = <<>> /\ blocks' = Append(done, Generate(now))
               ELSE phase' = "merge" /\ lines' = now /\ blocks' = done
  /\ UNCHANGED <<elementCalls, commentCalls, dictionaries, nextElement, elementStack>>

\* The comments have gone past the next element: the block before it is done.
PassElement ==
  /\ phase = "merge" /\ ~CommentIsNext
  /\ blocks' = IF lines = <<>> THEN blocks ELSE Append(blocks, Generate(lines))
  /\ lines' = <<>>
  /\ Push(nextElement)
  /\ \E e \in Elements \cup {None} :
       MovesTo({l \in Elements : Less(nextElement, l)}, e) /\ nextElement' = e
  /\ UNCHANGED <<phase, elementCalls, commentCalls, dictionaries, comment>>

Next ==
  \/ \E c \in ElementCall : AddElement(c)
  \/ \E c \in CommentCall : AddComment(c)
  \/ Start \/ TakeComment \/ PassElement

Spec == Init /\ [][Next]_vars

-----------------------------------------------------------------------------
(* Properties.                                                             *)

\* "Invariant: the top of the stack must be contained by items below it."
StackIsNested ==
  \A i, j \in DOMAIN elementStack : i < j => Contains(elementStack[i], elementStack[j])

\* The elements around a comment are what the text says, whatever the stack was
\* when it was reached.  The parent is the innermost element that contains it.
IsParent(e, l) ==
  /\ e = None => \A f \in Elements : ~Contains(f, l)
  /\ e # None => /\ e \in Elements /\ Contains(e, l)
                 /\ \A f \in Elements : Contains(f, l) => Contains(f, e)

\* The element that starts last before the comment, in the file of the comment.
IsLatest(p, l) ==
  /\ p \in Elements /\ p.tree = l.tree /\ Less(p, l)
  /\ \A f \in Elements : Less(f, l) => f = p \/ Less(f, p)

\* Before it is the outermost element around the latest one that has ended.
IsPrevious(e, l) ==
  /\ e = None => \A p, f \in Elements : IsLatest(p, l) /\ Contains(f, p) => f.end >= l.start
  /\ e # None => /\ e \in Elements /\ e.end < l.start
                 /\ \E p \in Elements :
                      /\ IsLatest(p, l) /\ Contains(e, p)
                      /\ \A f \in Elements :
                           Contains(f, p) /\ f.end < l.start => Contains(e, f)

\* After it is the first element that starts after it, inside of its parent.
Following(l, parent) ==
  {f \in Elements : f.tree = l.tree /\ Less(l, f) /\ (parent # None => ~Before(parent, f))}

IsNext(e, l, parent) == MovesTo(Following(l, parent), e)

BoundAsInText(b) ==
  LET l == BlockLocation(b.lines)
  IN  IsParent(b.parent, l) /\ IsPrevious(b.previous, l) /\ IsNext(b.next, l, b.parent)

BindingsAreRight == \A i \in DOMAIN blocks : BoundAsInText(blocks[i])

\* At the end each comment line is in one block, and the blocks are in the order
\* of the text: none is lost where an element or the file ends.  A block has each
\* of its lines once, but for the one that starts it, which may be there twice.
LinesOf(s) == {s[i] : i \in DOMAIN s}

LinesInOneBlock ==
  phase = "done" =>
    /\ \A c \in Comments : \E i \in DOMAIN blocks : c \in LinesOf(blocks[i].lines)
    /\ \A i, j \in DOMAIN blocks : i < j =>
         \A c \in LinesOf(blocks[i].lines), d \in LinesOf(blocks[j].lines) : Less(c, d)
    /\ \A k \in DOMAIN blocks :
         LET ls == blocks[k].lines
         IN  \A i, j \in DOMAIN ls : i < j /\ ls[i] = ls[j] => i = 1 /\ j = 2

-----------------------------------------------------------------------------
(* The inductive invariant.                                                *)

\* The elements that the enumerator has left behind.
Passed == {e \in Elements : nextElement # None => Less(e, nextElement)}

Top == elementStack[Len(elementStack)]

\* On the stack is the last element passed and whatever contains it.
StackIsAncestors ==
  /\ elementStack = <<>> => Passed = {}
  /\ \A i \in DOMAIN elementStack : elementStack[i] \in Passed
  /\ \A e \in Passed : /\ e = Top \/ Less(e, Top)
                       /\ Contains(e, Top) => \E i \in DOMAIN elementStack : e = elementStack[i]

\* Lines of a block are in order, after what has been passed and before the rest.
IsBlock(ls) ==
  /\ ls # <<>> /\ \A i \in DOMAIN ls : ls[i] \in Comments
  /\ \A i, j \in DOMAIN ls :
       i < j => Less(ls[i], ls[j]) \/ (i = 1 /\ j = 2 /\ ls[i] = ls[j])

IsBetween(c) == (\A e \in Passed : Less(e, c)) /\ (nextElement # None => Less(c, nextElement))

LinesAreBetween ==
  /\ lines # <<>> => IsBlock(lines)
  /\ \A i \in DOMAIN lines : IsBetween(lines[i]) /\ Less(lines[i], comment)
  /\ phase = "merge" => comment # None /\ \A e \in Passed : Less(e, comment)

\* Where the comments are that have been read: in the blocks, in order, or in the
\* block that is being built.
InBlocks(c) == \E i \in DOMAIN blocks : c \in LinesOf(blocks[i].lines)

CommentsAreKept ==
  /\ \A i \in DOMAIN blocks : IsBlock(blocks[i].lines)
  /\ \A c \in Comments : phase = "done" \/ Less(c, comment) => InBlocks(c) \/ c \in LinesOf(lines)
  /\ phase = "done" => lines = <<>>
  /\ phase = "merge" => \A i \in DOMAIN blocks : \A c \in LinesOf(blocks[i].lines) :
                         /\ Less(c, comment)
                         /\ \A d \in LinesOf(lines) : Less(c, d)
  /\ \A i, j \in DOMAIN blocks : i < j =>
       \A c \in LinesOf(blocks[i].lines), d \in LinesOf(blocks[j].lines) : Less(c, d)

NothingYet ==
  /\ elementStack = <<>> /\ lines = <<>> /\ blocks = <<>>
  /\ nextElement = None /\ comment = None

MergeInv ==
  /\ TypeOK
  /\ phase = "register" => NothingYet
  /\ StackIsNested
  /\ phase # "register" => /\ phase = "merge" => StackIsAncestors
                           /\ LinesAreBetween /\ CommentsAreKept
  /\ BindingsAreRight
=============================================================================
