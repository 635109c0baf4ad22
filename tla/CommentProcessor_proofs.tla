----------------------- MODULE CommentProcessor_proofs -----------------------
(***************************************************************************)
(* The stack of the comment processor holds the element passed last and all*)
(* that contain it; therefore the elements it finds around a comment are   *)
(* the ones that the text says, and no comment line is lost.               *)
(***************************************************************************)
EXTENDS CommentProcessor, WellFoundedInduction, TLAPS

-----------------------------------------------------------------------------
(* Numbers.                                                                *)

LEMMA LeastNatural ==
  ASSUME NEW S \in SUBSET Nat, S # {}
  PROVE  \E m \in S : \A k \in S : m <= k
<1>1. PICK m \in S : \A k \in S : <<k, m>> \notin OpToRel(<, Nat)
  BY WFMin, NatLessThanWellFounded, Zenon
<1>2. \A k \in S : ~ (k < m)
  BY <1>1, Zenon DEF OpToRel
<1>. QED
  BY <1>2

LEMMA MinOfRange ==
  ASSUME NEW n \in Nat, NEW S \in SUBSET (1 .. n), S # {}
  PROVE  Min(S) \in S /\ \A k \in S : Min(S) <= k
<1>1. \E m \in S : \A k \in S : m <= k
  BY LeastNatural
<1>. QED
  BY <1>1 DEF Min

LEMMA MaxOfRange ==
  ASSUME NEW n \in Nat, NEW S \in SUBSET (1 .. n), S # {}
  PROVE  Max(S) \in S /\ \A k \in S : k <= Max(S)
<1>. DEFINE T == {n - k : k \in S}
<1>0. \A k \in S : k \in 1 .. n /\ n - k \in Nat
  OBVIOUS
<1>1. T \in SUBSET Nat /\ T # {}
  BY <1>0
<1>2. PICK m \in T : \A k \in T : m <= k
  BY <1>1, LeastNatural
<1>3. PICK j \in S : m = n - j
  BY <1>2
<1>4. \A k \in S : k <= j
  <2>1. ASSUME NEW k \in S
        PROVE  k <= j
    <3>1. n - k \in T
      OBVIOUS
    <3>2. n - j <= n - k
      BY <1>2, <1>3, <3>1
    <3>. QED
      BY <1>0, <3>2
  <2>. QED
    BY <2>1
<1>5. \E x \in S : \A y \in S : x >= y
  BY <1>4
<1>6. Max(S) \in S /\ \A y \in S : Max(S) >= y
  BY <1>5 DEF Max
<1>. QED
  BY <1>6

-----------------------------------------------------------------------------
(* Spans.                                                                  *)

\* The order of the dictionaries is strict.
LEMMA Order ==
  ASSUME NEW a \in Span, NEW b \in Span, NEW c \in Span
  PROVE  /\ Less(a, b) /\ Less(b, c) => Less(a, c)
         /\ ~ (Less(a, b) /\ Less(b, a)) /\ ~Less(a, a)
         /\ Less(a, b) \/ Less(b, a) \/ a = b
<1>1. /\ a.tree \in Nat /\ a.start \in Nat /\ a.end \in Nat
      /\ b.tree \in Nat /\ b.start \in Nat /\ b.end \in Nat
      /\ c.tree \in Nat /\ c.start \in Nat /\ c.end \in Nat
  BY DEF Span
<1>2. a.tree = b.tree /\ a.start = b.start /\ a.end = b.end => a = b
  BY DEF Span
<1>. QED
  BY <1>1, <1>2 DEF Less

LEMMA Nesting ==
  ASSUME NEW a \in Span, NEW b \in Span, NEW c \in Span
  PROVE  /\ Contains(a, b) /\ Contains(b, c) => Contains(a, c)
         /\ Contains(a, a)
  BY DEF Span, Contains

\* Of two elements of which the first begins no later and reaches into the
\* second, the first contains the second.
LEMMA ElementsNest ==
  ASSUME NEW e \in ElementAt, NEW f \in ElementAt,
         e = f \/ Less(e, f), e.tree = f.tree, f.start < e.end
  PROVE  Contains(e, f)
<1>1. e \in Span /\ f \in Span
  BY CommentAssumption
<1>2. CASE e = f
  BY <1>1, <1>2, Nesting
<1>3. CASE e # f
  <2>1. \/ e.end <= f.start \/ f.end <= e.start \/ Inside(e, f) \/ Inside(f, e)
    BY <1>3, TextAssumption
  <2>2. e.start < e.end /\ f.start < f.end
    BY TextAssumption
  <2>3. e.start <= f.start
    BY <1>1, <1>3 DEF Less, Span
  <2>. QED
    BY <1>1, <2>1, <2>2, <2>3 DEF Contains, Inside, Span
<1>. QED
  BY <1>2, <1>3

LEMMA Locations ==
  /\ ElementAt \subseteq Span /\ CommentAt \subseteq Span
  /\ Elements \subseteq ElementAt /\ Comments \subseteq CommentAt
  /\ None \notin Span /\ None \notin Elements /\ None \notin Comments
BY CommentAssumption DEF Elements, Comments

-----------------------------------------------------------------------------
(* What is on the stack.                                                   *)

LEMMA StackFacts ==
  ASSUME TypeOK, StackIsAncestors
  PROVE  /\ Len(elementStack) \in Nat /\ DOMAIN elementStack = 1 .. Len(elementStack)
         /\ \A i \in DOMAIN elementStack :
              elementStack[i] \in Passed /\ elementStack[i] \in Elements
              /\ elementStack[i] \in ElementAt
         /\ elementStack # <<>> => Len(elementStack) \in DOMAIN elementStack /\ Top \in Passed
         /\ Passed \subseteq Elements
<1>1. elementStack \in Seq(ElementAt)
  BY DEF TypeOK
<1>2. Passed \subseteq Elements
  BY DEF Passed
<1>3. Len(elementStack) \in Nat /\ DOMAIN elementStack = 1 .. Len(elementStack)
  BY <1>1
<1>4. \A i \in DOMAIN elementStack : elementStack[i] \in Passed
  BY DEF StackIsAncestors
<1>5. elementStack # <<>> => Len(elementStack) \in DOMAIN elementStack
  BY <1>1, <1>3
<1>. QED
  BY <1>2, <1>3, <1>4, <1>5, Locations DEF Top

\* An element that contains the last one passed is on the stack.
LEMMA AncestorOnStack ==
  ASSUME TypeOK, StackIsAncestors, elementStack # <<>>,
         NEW f \in Elements, Contains(f, Top)
  PROVE  \E i \in DOMAIN elementStack : f = elementStack[i]
<1>1. Top \in Passed /\ Top \in Elements
  BY StackFacts
<1>2. f \in ElementAt /\ Top \in ElementAt /\ f \in Span /\ Top \in Span
  BY <1>1, Locations
<1>3. CASE f = Top
  BY <1>3, StackFacts DEF Top
<1>4. CASE f # Top
  <2>1. \/ f.end <= Top.start \/ Top.end <= f.start \/ Inside(f, Top) \/ Inside(Top, f)
    BY <1>2, <1>4, TextAssumption DEF Contains
  <2>2. Less(f, Top)
    <3>1. f.start < f.end /\ Top.start < Top.end
      BY <1>2, TextAssumption
    <3>. HIDE DEF Top
    <3>. QED
      BY <1>2, <2>1, <3>1 DEF Contains, Inside, Less, Span
  <2>3. nextElement # None => Less(Top, nextElement) /\ nextElement \in Span
    BY <1>1, Locations DEF Passed, TypeOK
  <2>4. f \in Passed
    BY <1>2, <2>2, <2>3, Order DEF Passed
  <2>. QED
    BY <2>4 DEF StackIsAncestors
<1>. QED
  BY <1>3, <1>4

\* A span between the elements passed and the others.
Placed(l) ==
  /\ l \in Span /\ l.start <= l.end
  /\ \A e \in ElementAt : e.tree = l.tree => e.start # l.start
  /\ \A e \in Elements : (e \in Passed => Less(e, l)) /\ (e \notin Passed => Less(l, e))

\* An element that contains such a span contains the last element passed.
LEMMA ContainerOnStack ==
  ASSUME TypeOK, StackIsAncestors, NEW l, Placed(l),
         NEW f \in Elements, Contains(f, l)
  PROVE  \E i \in DOMAIN elementStack : f = elementStack[i]
<1>1. f \in ElementAt /\ f \in Span /\ l \in Span /\ f.start # l.start
  BY Locations DEF Placed, Contains
<1>2. Less(f, l)
  BY <1>1 DEF Contains, Less, Span
<1>3. f \in Passed
  BY <1>1, <1>2, Order DEF Placed
<1>4. elementStack # <<>> /\ Top \in Passed /\ Top \in Elements
  BY <1>3, StackFacts DEF StackIsAncestors
<1>5. Top \in ElementAt /\ Top \in Span /\ Less(Top, l)
  BY <1>4, Locations DEF Placed
<1>6. f = Top \/ Less(f, Top)
  BY <1>3 DEF StackIsAncestors
<1>7. f.tree = Top.tree /\ Top.start < f.end
  <2>1. Top.tree = l.tree => Top.start # l.start
    BY <1>5 DEF Placed
  <2>2. l.start <= l.end
    BY DEF Placed
  <2>. HIDE DEF Top
  <2>. QED
    BY <1>1, <1>2, <1>5, <1>6, <2>1, <2>2 DEF Less, Contains, Span
<1>8. Contains(f, Top)
  BY <1>1, <1>5, <1>6, <1>7, ElementsNest
<1>. QED
  BY <1>4, <1>8, AncestorOnStack

\* The last element passed is the latest of the file, if it is of the file.
LEMMA TopIsLatest ==
  ASSUME TypeOK, StackIsAncestors, NEW l, Placed(l)
  PROVE  /\ elementStack # <<>> /\ Top.tree = l.tree => IsLatest(Top, l)
         /\ \A p : IsLatest(p, l) => elementStack # <<>> /\ p = Top
<1>1. ASSUME elementStack # <<>>, Top.tree = l.tree
      PROVE  IsLatest(Top, l)
  <2>1. Top \in Elements /\ Top \in Passed
    BY <1>1, StackFacts
  <2>2. \A f \in Elements : Less(f, l) => f \in Passed
    BY Locations, Order DEF Placed
  <2>3. \A f \in Passed : f = Top \/ Less(f, Top)
    BY DEF StackIsAncestors
  <2>4. Less(Top, l)
    BY <2>1 DEF Placed
  <2>. QED
    BY <1>1, <2>1, <2>2, <2>3, <2>4 DEF IsLatest
<1>2. ASSUME NEW p, IsLatest(p, l)
      PROVE  elementStack # <<>> /\ p = Top
  <2>1. p \in Elements /\ Less(p, l) /\ p \in Span /\ l \in Span
    BY <1>2, Locations DEF IsLatest, Placed
  <2>2. p \in Passed
    BY <2>1, Order DEF Placed
  <2>3. elementStack # <<>> /\ (p = Top \/ Less(p, Top))
    BY <2>2 DEF StackIsAncestors
  <2>4. Top \in Elements /\ Top \in Passed /\ Top \in Span
    BY <2>3, StackFacts, Locations
  <2>5. Less(Top, l)
    BY <2>4 DEF Placed
  <2>6. Top = p \/ Less(Top, p)
    BY <1>2, <2>4, <2>5 DEF IsLatest
  <2>. QED
    BY <2>1, <2>3, <2>4, <2>6, Order
<1>. QED
  BY <1>1, <1>2

-----------------------------------------------------------------------------
(* What is found on the stack.                                             *)

LEMMA ParentIsRight ==
  ASSUME TypeOK, StackIsAncestors, StackIsNested, NEW l, Placed(l)
  PROVE  /\ IsParent(FindParent(l), l)
         /\ InFileOf(l, FindParent(l)) = FindParent(l)
<1>. DEFINE containing == {i \in DOMAIN elementStack : Contains(elementStack[i], l)}
<1>1. /\ Len(elementStack) \in Nat /\ DOMAIN elementStack = 1 .. Len(elementStack)
      /\ \A i \in DOMAIN elementStack : elementStack[i] \in Elements /\ elementStack[i] \in Span
  BY StackFacts, Locations
<1>2. ASSUME NEW f \in Elements, Contains(f, l)
      PROVE  \E i \in containing : f = elementStack[i]
  BY <1>2, ContainerOnStack
<1>3. CASE containing = {}
  <2>1. FindParent(l) = None
    BY <1>3 DEF FindParent
  <2>2. \A f \in Elements : ~Contains(f, l)
    BY <1>2, <1>3
  <2>. QED
    BY <2>1, <2>2 DEF IsParent, InFileOf
<1>4. CASE containing # {}
  <2>. DEFINE m == Max(containing)
  <2>1. m \in containing /\ \A k \in containing : k <= m
    BY <1>1, <1>4, MaxOfRange
  <2>2. FindParent(l) = elementStack[m]
    BY <1>4 DEF FindParent
  <2>. HIDE DEF m
  <2>3. elementStack[m] \in Elements /\ Contains(elementStack[m], l)
    BY <1>1, <2>1
  <2>4. elementStack[m] # None
    BY <2>3, Locations
  <2>5. ASSUME NEW f \in Elements, Contains(f, l)
        PROVE  Contains(f, elementStack[m])
    <3>1. PICK i \in containing : f = elementStack[i]
      BY <1>2, <2>5
    <3>2. i <= m /\ i \in DOMAIN elementStack /\ m \in DOMAIN elementStack
      BY <2>1
    <3>3. i = m \/ i < m
      BY <1>1, <3>2
    <3>. QED
      BY <1>1, <3>1, <3>2, <3>3, Nesting DEF StackIsNested
  <2>6. InFileOf(l, elementStack[m]) = elementStack[m]
    BY <2>3 DEF InFileOf, Contains
  <2>. QED
    BY <2>2, <2>3, <2>4, <2>5, <2>6 DEF IsParent
<1>. QED
  BY <1>3, <1>4

LEMMA PreviousIsRight ==
  ASSUME TypeOK, StackIsAncestors, StackIsNested, NEW l, Placed(l)
  PROVE  IsPrevious(InFileOf(l, FindBefore(l)), l)
<1>. DEFINE ended == {i \in DOMAIN elementStack : elementStack[i].end < l.start}
            n == Len(elementStack)
<1>1. /\ n \in Nat /\ DOMAIN elementStack = 1 .. n
      /\ \A i \in DOMAIN elementStack : elementStack[i] \in Elements /\ elementStack[i] \in Span
      /\ elementStack # <<>> => n \in DOMAIN elementStack /\ Top = elementStack[n]
  BY StackFacts, Locations DEF Top
<1>2. \A i \in DOMAIN elementStack : Contains(elementStack[i], Top)
  <2>1. ASSUME NEW i \in DOMAIN elementStack
        PROVE  Contains(elementStack[i], elementStack[n])
    <3>1. elementStack # <<>> /\ n \in DOMAIN elementStack /\ (i = n \/ i < n)
      BY <1>1
    <3>. QED
      BY <1>1, <3>1, Nesting DEF StackIsNested
  <2>. QED
    BY <2>1 DEF Top
<1>3. ASSUME NEW p, IsLatest(p, l), NEW f \in Elements, Contains(f, p)
      PROVE  /\ p = Top /\ elementStack # <<>>
             /\ \E i \in DOMAIN elementStack : f = elementStack[i]
  <2>1. p = Top /\ elementStack # <<>>
    BY <1>3, TopIsLatest
  <2>. QED
    BY <1>3, <2>1, AncestorOnStack
<1>4. CASE ended = {}
  <2>1. FindBefore(l) = None
    BY <1>4 DEF FindBefore
  <2>2. ASSUME NEW p \in Elements, NEW f \in Elements, IsLatest(p, l), Contains(f, p)
        PROVE  f.end >= l.start
    <3>1. PICK i \in DOMAIN elementStack : f = elementStack[i]
      BY <1>3, <2>2
    <3>2. ~ (f.end < l.start)
      BY <1>4, <3>1
    <3>3. f.end \in Nat /\ l.start \in Nat
      BY Locations DEF Placed, Span
    <3>. QED
      BY <3>2, <3>3
  <2>. QED
    BY <2>1, <2>2 DEF IsPrevious, InFileOf
<1>5. CASE ended # {}
  <2>. DEFINE m == Min(ended)
              e == elementStack[m]
  <2>1. m \in ended /\ \A k \in ended : m <= k
    BY <1>1, <1>5, MinOfRange
  <2>2. FindBefore(l) = e
    BY <1>5 DEF FindBefore
  <2>. HIDE DEF m
  <2>3. /\ m \in DOMAIN elementStack /\ e \in Elements /\ e \in Span /\ e.end < l.start
        /\ e # None /\ Contains(e, Top) /\ elementStack # <<>>
    BY <1>1, <1>2, <2>1, Locations
  <2>4. CASE Top.tree = l.tree
    <3>1. InFileOf(l, e) = e
      BY <2>3, <2>4 DEF InFileOf, Contains
    <3>2. IsLatest(Top, l) /\ Top \in Elements
      BY <2>3, <2>4, TopIsLatest DEF IsLatest
    <3>3. ASSUME NEW f \in Elements, Contains(f, Top), f.end < l.start
          PROVE  Contains(e, f)
      <4>1. PICK i \in DOMAIN elementStack : f = elementStack[i]
        BY <1>3, <3>2, <3>3
      <4>2. i \in ended /\ m <= i
        BY <2>1, <3>3, <4>1
      <4>3. m = i \/ m < i
        BY <1>1, <2>3, <4>2
      <4>. QED
        BY <1>1, <2>3, <4>1, <4>3, Nesting DEF StackIsNested
    <3>. QED
      BY <2>2, <2>3, <3>1, <3>2, <3>3 DEF IsPrevious
  <2>5. CASE Top.tree # l.tree
    <3>1. InFileOf(l, e) = None
      BY <2>3, <2>5 DEF InFileOf, Contains
    <3>2. \A p : ~IsLatest(p, l)
      BY <2>5, TopIsLatest DEF IsLatest
    <3>. QED
      BY <2>2, <3>1, <3>2 DEF IsPrevious
  <2>. QED
    BY <2>4, <2>5
<1>. QED
  BY <1>4, <1>5

LEMMA NextIsRight ==
  ASSUME TypeOK, NEW l, Placed(l), NEW p \in ElementAt \cup {None}, FindParent(l) = p,
         p # None => p.tree = l.tree
  PROVE  IsNext(InFileOf(l, FindAfter(l)), l, p)
<1>. DEFINE following == Following(l, p)
            next == InFileOf(l, FindAfter(l))
<1>0. \A f : f \in following <=> /\ f \in Elements /\ f.tree = l.tree /\ Less(l, f)
                                 /\ p # None => ~Before(p, f)
  BY Zenon DEF Following
<1>. HIDE DEF following
<1>1. l \in Span /\ (p # None => p \in Span) /\ \A f \in Elements : f \in Span
  BY Locations DEF Placed
<1>2. nextElement # None => /\ nextElement \in Elements /\ nextElement \in Span
                            /\ nextElement \notin Passed
  BY <1>1, Locations, Order DEF TypeOK, Passed
<1>3. nextElement # None => Less(l, nextElement)
  BY <1>2 DEF Placed
<1>4. \A f \in following : nextElement # None /\ (f = nextElement \/ Less(nextElement, f))
  <2>1. ASSUME NEW f \in following
        PROVE  nextElement # None /\ (f = nextElement \/ Less(nextElement, f))
    <3>1. f \in Elements /\ f \in Span /\ Less(l, f)
      BY <1>0, <1>1
    <3>2. f \notin Passed
      BY <1>1, <3>1, Order DEF Placed
    <3>. QED
      BY <1>2, <3>1, <3>2, Order DEF Passed
  <2>. QED
    BY <2>1
<1>5. CASE nextElement = None
  <2>1. FindAfter(l) = None
    BY <1>5 DEF FindAfter
  <2>2. following = {}
    BY <1>4, <1>5
  <2>. QED
    BY <2>1, <2>2 DEF IsNext, MovesTo, InFileOf, following
<1>6. CASE nextElement # None /\ (nextElement.tree # l.tree \/ (p # None /\ Before(p, nextElement)))
  <2>1. next = None
    BY <1>6 DEF FindAfter, InFileOf
  <2>2. following = {}
    <3>1. ASSUME NEW f \in following
          PROVE  FALSE
      <4>1. f \in Elements /\ f \in Span /\ f.tree = l.tree /\ (p # None => ~Before(p, f))
        BY <1>0, <1>1
      <4>2. f = nextElement \/ Less(nextElement, f)
        BY <1>4
      <4>. QED
        BY <1>1, <1>2, <1>3, <1>6, <4>1, <4>2 DEF Less, Before, Span
    <3>. QED
      BY <3>1
  <2>. QED
    BY <2>1, <2>2 DEF IsNext, MovesTo, following
<1>7. CASE nextElement # None /\ nextElement.tree = l.tree /\ ~ (p # None /\ Before(p, nextElement))
  <2>1. next = nextElement
    BY <1>7 DEF FindAfter, InFileOf
  <2>2. nextElement \in following
    BY <1>0, <1>2, <1>3, <1>7
  <2>. QED
    BY <1>4, <2>1, <2>2 DEF IsNext, MovesTo, following
<1>. QED
  BY <1>5, <1>6, <1>7

-----------------------------------------------------------------------------
(* Blocks.                                                                 *)

\* Lines between the elements passed and the others make up a block that is, too.
LEMMA BlockPlaced ==
  ASSUME TypeOK, NEW ls \in Seq(CommentAt), IsBlock(ls),
         \A i \in DOMAIN ls : IsBetween(ls[i])
  PROVE  Placed(BlockLocation(ls))
<1>. DEFINE first == ls[1]
            last == ls[Len(ls)]
            l == BlockLocation(ls)
<1>1. Len(ls) \in Nat /\ 1 \in DOMAIN ls /\ Len(ls) \in DOMAIN ls /\ 1 <= Len(ls)
  BY DEF IsBlock
<1>2. /\ first \in CommentAt /\ last \in CommentAt /\ first \in Span /\ last \in Span
      /\ IsBetween(first) /\ IsBetween(last)
      /\ first = last \/ Less(first, last)
  BY <1>1, Locations DEF IsBlock
<1>3. l.tree = last.tree /\ l.start = first.start /\ l.end = last.end
  BY DEF BlockLocation
<1>4. l \in [tree : {last.tree}, start : {first.start}, end : {last.end}]
  BY DEF BlockLocation
<1>. HIDE DEF first, last, l
<1>5. /\ first.tree = last.tree /\ last.start <= last.end
      /\ \A e \in ElementAt : /\ e.tree = first.tree => e.start # first.start
                              /\ e.tree = last.tree => e.start # last.start
  BY <1>2, TextAssumption
<1>6. l \in Span
  BY <1>2, <1>4 DEF Span
<1>7. first.start <= last.start /\ l.start <= l.end
  BY <1>2, <1>3, <1>5 DEF Less, Span
<1>8. \A e \in ElementAt : e.tree = l.tree => e.start # l.start
  BY <1>3, <1>5
<1>9. ASSUME NEW e \in Elements, e \in Passed
      PROVE  Less(e, l)
  <2>1. e \in ElementAt /\ e \in Span /\ Less(e, first)
    BY <1>2, <1>9, Locations DEF IsBetween
  <2>. QED
    BY <1>2, <1>3, <1>5, <2>1 DEF Less, Span
<1>10. ASSUME NEW e \in Elements, e \notin Passed
       PROVE  Less(l, e)
  <2>1. e \in ElementAt /\ e \in Span
    BY Locations
  <2>2. nextElement # None /\ nextElement \in Span /\ Less(last, nextElement)
    BY <1>2, <1>10, Locations DEF Passed, IsBetween, TypeOK
  <2>3. Less(last, e)
    BY <1>2, <1>10, <2>1, <2>2, Order DEF Passed
  <2>. QED
    BY <1>2, <1>3, <1>5, <1>7, <2>1, <2>3 DEF Less, Span
<1>. QED
  BY <1>6, <1>7, <1>8, <1>9, <1>10 DEF Placed, l

\* A block is given to the callback with the elements of the text around it.
LEMMA GenerateIsRight ==
  ASSUME TypeOK, StackIsNested, StackIsAncestors, NEW ls \in Seq(CommentAt), IsBlock(ls),
         \A i \in DOMAIN ls : IsBetween(ls[i])
  PROVE  Generate(ls) \in Block /\ Generate(ls).lines = ls /\ BoundAsInText(Generate(ls))
<1>. DEFINE l == BlockLocation(ls)
            previous == InFileOf(l, FindBefore(l))
            next == InFileOf(l, FindAfter(l))
            parent == InFileOf(l, FindParent(l))
            best == BestElement(l, previous, next, parent)
<1>1. Placed(l)
  BY BlockPlaced
<1>. HIDE DEF l
<1>2. IsParent(parent, l) /\ parent = FindParent(l)
  BY <1>1, ParentIsRight
<1>3. IsPrevious(previous, l)
  BY <1>1, PreviousIsRight
<1>4. parent \in Elements \cup {None} /\ (parent # None => parent.tree = l.tree)
  BY <1>2 DEF IsParent, Contains
<1>5. IsNext(next, l, parent)
  BY <1>1, <1>2, <1>4, NextIsRight, Locations
<1>6. previous \in Elements \cup {None} /\ next \in Elements \cup {None}
  BY <1>3, <1>5 DEF IsPrevious, IsNext, MovesTo, Following
<1>. HIDE DEF previous, next, parent
<1>7. best \in {previous, next, parent}
  BY DEF BestElement
<1>. HIDE DEF best
<1>8. ASSUME NEW e \in Elements \cup {None}, NEW b \in {"Before", "After", "Parent", "Best"}
      PROVE  Bound(b, e) \subseteq
               {"Before", "After", "Parent", "Best"} \X Label \X (Key \cup {None})
  <2>1. e # None => elements[e] \in Label
    BY DEF TypeOK, Elements
  <2>2. e # None => guardKeys[elements[e]] \in Key \cup {None}
    BY <2>1 DEF TypeOK
  <2>. QED
    BY <2>1, <2>2 DEF Bound
<1>9. Generate(ls) = [lines |-> ls, previous |-> previous, next |-> next, parent |-> parent,
                      bindings |-> Bound("Before", previous) \cup Bound("After", next)
                                     \cup Bound("Parent", parent) \cup Bound("Best", best)]
  BY DEF Generate, l, previous, next, parent, best
<1>10. Generate(ls) \in Block
  <2>1. Bound("Before", previous) \cup Bound("After", next) \cup Bound("Parent", parent)
          \cup Bound("Best", best)
        \in SUBSET ({"Before", "After", "Parent", "Best"} \X Label \X (Key \cup {None}))
    BY <1>4, <1>6, <1>7, <1>8
  <2>2. previous \in ElementAt \cup {None} /\ next \in ElementAt \cup {None}
        /\ parent \in ElementAt \cup {None}
    BY <1>4, <1>6, Locations
  <2>. QED
    BY <1>9, <2>1, <2>2 DEF Block
<1>. QED
  BY <1>2, <1>3, <1>5, <1>9, <1>10 DEF BoundAsInText, l

\* Blocks that were given to the callback: right, and in the order of the text.
Kept(s) ==
  /\ s \in Seq(Block)
  /\ \A i \in DOMAIN s : IsBlock(s[i].lines) /\ BoundAsInText(s[i])
  /\ \A i, j \in DOMAIN s : i < j =>
       \A c \in LinesOf(s[i].lines), d \in LinesOf(s[j].lines) : Less(c, d)

In(s, c) == \E i \in DOMAIN s : c \in LinesOf(s[i].lines)

LEMMA AppendGenerate ==
  ASSUME TypeOK, StackIsNested, StackIsAncestors, NEW s, Kept(s),
         NEW ls \in Seq(CommentAt), IsBlock(ls), \A i \in DOMAIN ls : IsBetween(ls[i]),
         \A c : In(s, c) => \A d \in LinesOf(ls) : Less(c, d)
  PROVE  /\ Kept(Append(s, Generate(ls)))
         /\ \A c : In(Append(s, Generate(ls)), c) <=> In(s, c) \/ c \in LinesOf(ls)
<1>. DEFINE b == Generate(ls)
            t == Append(s, b)
            n == Len(s)
<1>1. b \in Block /\ b.lines = ls /\ BoundAsInText(b)
  BY GenerateIsRight
<1>. HIDE DEF b
<1>2. s \in Seq(Block)
  BY DEF Kept
<1>3. /\ t \in Seq(Block) /\ n \in Nat /\ DOMAIN s = 1 .. n /\ DOMAIN t = 1 .. (n + 1)
      /\ \A i \in DOMAIN s : t[i] = s[i]
      /\ t[n + 1] = b
  BY <1>1, <1>2
<1>. HIDE DEF t, n
<1>4. \A i \in DOMAIN t : i \in DOMAIN s \/ i = n + 1
  BY <1>3
<1>5. \A i \in DOMAIN t : IsBlock(t[i].lines) /\ BoundAsInText(t[i])
  BY <1>1, <1>3, <1>4 DEF Kept
<1>6. ASSUME NEW i \in DOMAIN t, NEW j \in DOMAIN t, i < j,
             NEW c \in LinesOf(t[i].lines), NEW d \in LinesOf(t[j].lines)
      PROVE  Less(c, d)
  <2>1. i \in DOMAIN s
    BY <1>3, <1>6
  <2>2. CASE j \in DOMAIN s
    BY <1>3, <1>6, <2>1, <2>2 DEF Kept
  <2>3. CASE j = n + 1
    <3>1. In(s, c)
      BY <1>3, <2>1 DEF In
    <3>2. d \in LinesOf(ls)
      BY <1>1, <1>3, <2>3
    <3>. QED
      BY <3>1, <3>2
  <2>. QED
    BY <1>4, <2>2, <2>3
<1>7. \A c : In(t, c) <=> In(s, c) \/ c \in LinesOf(ls)
  <2>1. ASSUME NEW c
        PROVE  In(t, c) <=> In(s, c) \/ c \in LinesOf(ls)
    <3>1. In(s, c) => In(t, c)
      BY <1>3 DEF In
    <3>2. n + 1 \in DOMAIN t /\ t[n + 1].lines = ls
      BY <1>1, <1>3
    <3>3. c \in LinesOf(ls) => In(t, c)
      BY <3>2 DEF In
    <3>4. In(t, c) => In(s, c) \/ c \in LinesOf(ls)
      BY <1>1, <1>3, <1>4 DEF In
    <3>. QED
      BY <3>1, <3>3, <3>4
  <2>. QED
    BY <2>1
<1>. QED
  BY <1>3, <1>5, <1>6, <1>7 DEF Kept, t, b

-----------------------------------------------------------------------------
(* The steps.                                                              *)

LEMMA KeptBlocks ==
  /\ MergeInv /\ phase # "register" => Kept(blocks)
  /\ \A c : InBlocks(c) <=> In(blocks, c)
<1>1. ASSUME MergeInv, phase # "register"
      PROVE  Kept(blocks)
  BY <1>1 DEF MergeInv, Kept, TypeOK, CommentsAreKept, BindingsAreRight
<1>. QED
  BY <1>1 DEF InBlocks, In

LEMMA InitMerge == Init => MergeInv
<1>. SUFFICES ASSUME Init PROVE MergeInv
  OBVIOUS
<1>1. \A p \in Programs : p.elements \in SUBSET ElementCall /\ p.comments \in SUBSET CommentCall
  BY CommentAssumption
<1>2. TypeOK
  <2>1. elementCalls \in SUBSET ElementCall /\ commentCalls \in SUBSET CommentCall
    BY <1>1 DEF Init
  <2>. QED
    BY <2>1 DEF Init, TypeOK
<1>3. NothingYet /\ StackIsNested /\ BindingsAreRight /\ phase = "register"
  BY DEF Init, NothingYet, StackIsNested, BindingsAreRight
<1>. QED
  BY <1>2, <1>3 DEF MergeInv

LEMMA AddElementMerge ==
  ASSUME MergeInv, NEW c \in ElementCall, AddElement(c)
  PROVE  MergeInv'
<1>1. TypeOK /\ NothingYet /\ phase = "register"
  BY DEF MergeInv, AddElement
<1>2. c.location \in ElementAt \cup {None} /\ c.label \in Label /\ c.key \in Key \cup {None}
  BY DEF ElementCall
<1>3. NothingYet' /\ phase' = "register"
  BY <1>1 DEF NothingYet, AddElement
<1>4. TypeOK'
  <2>1. elements' \in [ElementAt -> Label \cup {None}]
    BY <1>1, <1>2 DEF TypeOK, AddElement
  <2>2. guardKeys' \in [Label -> Key \cup {None}]
    BY <1>1, <1>2 DEF TypeOK, AddElement
  <2>3. elementCalls' \in SUBSET ElementCall
    BY <1>1 DEF TypeOK, AddElement
  <2>. QED
    BY <1>1, <1>3, <2>1, <2>2, <2>3 DEF TypeOK, AddElement, NothingYet
<1>5. StackIsNested' /\ BindingsAreRight'
  BY <1>3 DEF NothingYet, StackIsNested, BindingsAreRight
<1>. QED
  BY <1>3, <1>4, <1>5 DEF MergeInv

LEMMA AddCommentMerge ==
  ASSUME MergeInv, NEW c \in CommentCall, AddComment(c)
  PROVE  MergeInv'
<1>1. TypeOK /\ NothingYet /\ phase = "register"
  BY DEF MergeInv, AddComment
<1>2. c.location \in CommentAt /\ c.type \in CommentLineType
  BY DEF CommentCall
<1>3. NothingYet' /\ phase' = "register"
  BY <1>1 DEF NothingYet, AddComment
<1>4. TypeOK'
  <2>1. comments' \in [CommentAt -> CommentLineType \cup {None}]
    BY <1>1, <1>2 DEF TypeOK, AddComment
  <2>2. commentCalls' \in SUBSET CommentCall
    BY <1>1 DEF TypeOK, AddComment
  <2>. QED
    BY <1>1, <1>3, <2>1, <2>2 DEF TypeOK, AddComment, NothingYet
<1>5. StackIsNested' /\ BindingsAreRight'
  BY <1>3 DEF NothingYet, StackIsNested, BindingsAreRight
<1>. QED
  BY <1>3, <1>4, <1>5 DEF MergeInv

LEMMA StartMerge ==
  ASSUME MergeInv, Start
  PROVE  MergeInv'
<1>1. TypeOK /\ NothingYet /\ phase = "register"
  BY DEF MergeInv, Start
<1>2. Elements' = Elements /\ Comments' = Comments
  BY DEF Start, Elements, Comments, dictionaries
<1>3. elementStack' = <<>> /\ lines' = <<>> /\ blocks' = <<>> /\ phase' \in {"merge", "done"}
  BY <1>1 DEF NothingYet, Start
<1>4. /\ comment' \in Comments \cup {None} /\ MovesTo(Comments, comment')
      /\ nextElement' \in Elements \cup {None}
      /\ Comments # {} => MovesTo(Elements, nextElement')
      /\ phase' = IF Comments = {} THEN "done" ELSE "merge"
  BY <1>1 DEF Start, NothingYet
<1>5. TypeOK'
  BY <1>1, <1>2, <1>3, <1>4 DEF TypeOK, Start, dictionaries
<1>6. StackIsNested' /\ BindingsAreRight'
  BY <1>3 DEF StackIsNested, BindingsAreRight
<1>7. ASSUME phase' = "merge"
      PROVE  Passed' = {} /\ comment' # None
  <2>1. Comments # {} /\ comment' \in Comments /\ MovesTo(Elements, nextElement')
    BY <1>4, <1>7 DEF MovesTo
  <2>2. \A e \in Elements : nextElement' # None /\ (e = nextElement' \/ Less(nextElement', e))
    BY <1>4, <2>1, Locations DEF MovesTo
  <2>3. \A e \in Elements : ~Less(e, nextElement')
    BY <1>4, <2>2, Locations, Order
  <2>. QED
    BY <1>2, <2>1, <2>2, <2>3, Locations DEF Passed
<1>8. phase' = "merge" => StackIsAncestors'
  BY <1>3, <1>7 DEF StackIsAncestors
<1>9. LinesAreBetween'
  BY <1>3, <1>7 DEF LinesAreBetween
<1>10. CommentsAreKept'
  <2>1. \A c \in Comments : phase' = "merge" /\ ~Less(c, comment')
    BY <1>4, Locations, Order DEF MovesTo
  <2>2. LinesOf(lines') = {} /\ DOMAIN blocks' = {}
    BY <1>3 DEF LinesOf
  <2>. QED
    BY <1>2, <1>3, <2>1, <2>2 DEF CommentsAreKept
<1>. QED
  BY <1>3, <1>5, <1>6, <1>8, <1>9, <1>10 DEF MergeInv

\* In the merge, the invariant says:
LEMMA MergeFacts ==
  ASSUME MergeInv, phase = "merge"
  PROVE  /\ TypeOK /\ StackIsNested /\ StackIsAncestors /\ LinesAreBetween /\ CommentsAreKept
         /\ Kept(blocks) /\ \A c : InBlocks(c) <=> In(blocks, c)
         /\ comment \in Comments /\ comment \in CommentAt /\ comment \in Span /\ comment # None
         /\ lines \in Seq(CommentAt)
         /\ \A i \in DOMAIN lines : lines[i] \in CommentAt /\ lines[i] \in Span
                                    /\ IsBetween(lines[i]) /\ Less(lines[i], comment)
         /\ \A c : In(blocks, c) => Less(c, comment) /\ \A d \in LinesOf(lines) : Less(c, d)
<1>1. /\ TypeOK /\ StackIsNested /\ StackIsAncestors /\ LinesAreBetween /\ CommentsAreKept
      /\ Kept(blocks) /\ \A c : InBlocks(c) <=> In(blocks, c)
  BY KeptBlocks DEF MergeInv
<1>2. comment \in Comments /\ comment \in CommentAt /\ comment \in Span /\ comment # None
  BY <1>1, Locations DEF LinesAreBetween, TypeOK
<1>3. lines \in Seq(CommentAt)
  BY <1>1 DEF TypeOK
<1>4. \A i \in DOMAIN lines : lines[i] \in CommentAt /\ lines[i] \in Span
                              /\ IsBetween(lines[i]) /\ Less(lines[i], comment)
  BY <1>1, <1>3, Locations DEF LinesAreBetween
<1>5. \A c : In(blocks, c) => Less(c, comment) /\ \A d \in LinesOf(lines) : Less(c, d)
  BY <1>1 DEF CommentsAreKept, In
<1>. QED
  BY <1>1, <1>2, <1>3, <1>4, <1>5

LEMMA PassElementMerge ==
  ASSUME MergeInv, PassElement
  PROVE  MergeInv'
<1>1. phase = "merge" /\ phase' = "merge"
  BY DEF PassElement
<1>2. /\ TypeOK /\ StackIsNested /\ StackIsAncestors /\ LinesAreBetween /\ CommentsAreKept
      /\ Kept(blocks) /\ \A c : InBlocks(c) <=> In(blocks, c)
      /\ comment \in Comments /\ comment \in CommentAt /\ comment \in Span /\ comment # None
      /\ lines \in Seq(CommentAt)
      /\ \A i \in DOMAIN lines : lines[i] \in CommentAt /\ lines[i] \in Span
                                 /\ IsBetween(lines[i]) /\ Less(lines[i], comment)
      /\ \A c : In(blocks, c) => Less(c, comment) /\ \A d \in LinesOf(lines) : Less(c, d)
  BY <1>1, MergeFacts
<1>. DEFINE v == nextElement
            containing == {i \in DOMAIN elementStack : Contains(elementStack[i], v)}
            kept == IF containing = {} THEN 0 ELSE Max(containing)
            n == Len(elementStack)
<1>3. v # None /\ v \in Elements /\ v \in ElementAt /\ v \in Span /\ ~Less(comment, v)
  BY <1>2, Locations DEF PassElement, CommentIsNext, TypeOK
<1>4. /\ Elements' = Elements /\ Comments' = Comments /\ comment' = comment
      /\ elements' = elements /\ guardKeys' = guardKeys /\ comments' = comments
      /\ elementCalls' = elementCalls /\ commentCalls' = commentCalls /\ lines' = <<>>
  BY DEF PassElement, Elements, Comments, dictionaries
<1>5. /\ nextElement' \in Elements \cup {None}
      /\ MovesTo({l \in Elements : Less(v, l)}, nextElement')
  BY DEF PassElement
<1>6. /\ n \in Nat /\ DOMAIN elementStack = 1 .. n
      /\ \A i \in DOMAIN elementStack : /\ elementStack[i] \in Elements /\ elementStack[i] \in Span
                                        /\ elementStack[i] \in ElementAt /\ elementStack[i] \in Passed
      /\ elementStack # <<>> => n \in DOMAIN elementStack /\ Top \in Passed
      /\ elementStack \in Seq(ElementAt)
  BY <1>2, StackFacts, Locations DEF TypeOK
<1>7. /\ kept \in 0 .. n
      /\ \A i \in containing : i <= kept
      /\ kept # 0 => kept \in DOMAIN elementStack /\ Contains(elementStack[kept], v)
  <2>1. CASE containing = {}
    BY <1>6, <2>1
  <2>2. CASE containing # {}
    <3>1. Max(containing) \in containing /\ \A i \in containing : i <= Max(containing)
      BY <1>6, <2>2, MaxOfRange
    <3>. QED
      BY <1>6, <2>2, <3>1
  <2>. QED
    BY <2>1, <2>2
<1>8. elementStack' = Append(SubSeq(elementStack, 1, kept), v)
  BY DEF PassElement, Push
<1>. HIDE DEF kept, n
<1>9. /\ DOMAIN elementStack' = 1 .. (kept + 1) /\ Len(elementStack') = kept + 1
      /\ \A i \in 1 .. kept : elementStack'[i] = elementStack[i] /\ i \in DOMAIN elementStack
      /\ elementStack'[kept + 1] = v
      /\ elementStack' \in Seq(ElementAt)
  <2>1. SubSeq(elementStack, 1, kept) \in Seq(ElementAt)
    BY <1>6, <1>7
  <2>2. /\ Len(SubSeq(elementStack, 1, kept)) = kept
        /\ \A i \in 1 .. kept : SubSeq(elementStack, 1, kept)[i] = elementStack[i]
    BY <1>6, <1>7
  <2>. QED
    BY <1>3, <1>6, <1>7, <1>8, <2>1, <2>2
<1>. HIDE DEF v, containing
<1>10. Passed' = Passed \cup {v}
  <2>1. ASSUME NEW e \in Elements
        PROVE  (nextElement' # None => Less(e, nextElement')) <=> (e = v \/ Less(e, v))
    <3>1. e \in Span /\ (nextElement' # None => nextElement' \in Span)
      BY <1>5, Locations
    <3>2. CASE nextElement' = None
      <4>1. {l \in Elements : Less(v, l)} = {}
        BY <1>5, <3>2, Locations DEF MovesTo
      <4>2. ~Less(v, e)
        BY <4>1
      <4>. QED
        BY <1>3, <3>1, <3>2, <4>2, Order
    <3>3. CASE nextElement' # None
      <4>1. /\ Less(v, nextElement')
            /\ Less(v, e) => e = nextElement' \/ Less(nextElement', e)
        BY <1>5, <3>3 DEF MovesTo
      <4>. QED
        BY <1>3, <3>1, <3>3, <4>1, Order
    <3>. QED
      BY <3>2, <3>3
  <2>2. Passed = {e \in Elements : Less(e, v)}
    BY <1>3 DEF Passed, v
  <2>3. Passed' = {e \in Elements : nextElement' # None => Less(e, nextElement')}
    BY <1>4 DEF Passed
  <2>. QED
    BY <1>3, <2>1, <2>2, <2>3
<1>11. StackIsNested'
  <2>1. ASSUME NEW i \in DOMAIN elementStack', NEW j \in DOMAIN elementStack', i < j
        PROVE  Contains(elementStack'[i], elementStack'[j])
    <3>1. i \in 1 .. kept /\ i \in DOMAIN elementStack /\ elementStack'[i] = elementStack[i]
          /\ kept # 0
      BY <1>7, <1>9, <2>1
    <3>2. CASE j \in 1 .. kept
      BY <1>2, <1>9, <2>1, <3>1, <3>2 DEF StackIsNested
    <3>3. CASE j = kept + 1
      <4>1. kept \in DOMAIN elementStack /\ Contains(elementStack[kept], v)
        BY <1>7, <3>1
      <4>2. i = kept \/ i < kept
        BY <1>7, <3>1
      <4>3. i = kept \/ Contains(elementStack[i], elementStack[kept])
        BY <1>2, <3>1, <4>1, <4>2 DEF StackIsNested
      <4>. QED
        BY <1>3, <1>6, <1>9, <3>1, <3>3, <4>1, <4>3, Nesting
    <3>. QED
      BY <1>7, <1>9, <3>2, <3>3
  <2>. QED
    BY <2>1 DEF StackIsNested
<1>12. StackIsAncestors'
  <2>1. elementStack' # <<>> /\ Top' = v
    BY <1>7, <1>9 DEF Top
  <2>2. \A i \in DOMAIN elementStack' : elementStack'[i] \in Passed'
    BY <1>6, <1>7, <1>9, <1>10
  <2>3. ASSUME NEW e \in Passed'
        PROVE  /\ e = v \/ Less(e, v)
               /\ Contains(e, v) => \E i \in DOMAIN elementStack' : e = elementStack'[i]
    <3>1. e = v \/ (e \in Passed /\ Less(e, v))
      BY <1>3, <1>10 DEF Passed, v
    <3>2. CASE e = v
      BY <1>7, <1>9, <3>2
    <3>3. CASE e \in Passed /\ Less(e, v) /\ Contains(e, v)
      <4>1. /\ elementStack # <<>> /\ Top \in Passed
            /\ e = Top \/ Less(e, Top)
        BY <1>2, <1>6, <3>3 DEF StackIsAncestors
      <4>2. e \in Elements /\ e \in ElementAt /\ e \in Span
            /\ Top \in Elements /\ Top \in ElementAt /\ Top \in Span /\ Less(Top, v)
        BY <1>3, <3>3, <4>1, Locations DEF Passed, v
      <4>3. v.start < v.end
        BY <1>3, TextAssumption
      <4>4. e.tree = Top.tree /\ Top.start < e.end
        <5>. HIDE DEF Top
        <5>. QED
          BY <1>3, <3>3, <4>1, <4>2, <4>3 DEF Less, Contains, Span
      <4>5. Contains(e, Top)
        BY <4>1, <4>2, <4>4, ElementsNest
      <4>6. PICK i \in DOMAIN elementStack : e = elementStack[i]
        BY <1>2, <3>3, <4>5 DEF StackIsAncestors
      <4>7. i <= kept
        BY <1>7, <3>3, <4>6 DEF containing
      <4>8. i \in 1 .. kept
        BY <1>6, <1>7, <4>7
      <4>. QED
        BY <1>7, <1>9, <3>3, <4>6, <4>8
    <3>. QED
      BY <3>1, <3>2, <3>3
  <2>. QED
    BY <2>1, <2>2, <2>3 DEF StackIsAncestors
<1>13. \A e \in Passed' : Less(e, comment)
  <2>1. \A e \in Passed : Less(e, comment)
    BY <1>1, <1>2 DEF LinesAreBetween
  <2>2. v # comment
    BY <1>2, <1>3, TextAssumption
  <2>3. Less(v, comment)
    BY <1>2, <1>3, <2>2, Order
  <2>. QED
    BY <1>10, <2>1, <2>3
<1>14. LinesAreBetween'
  BY <1>2, <1>4, <1>13 DEF LinesAreBetween
<1>15. /\ Kept(blocks')
       /\ \A c : In(blocks', c) <=> In(blocks, c) \/ c \in LinesOf(lines)
  <2>1. CASE lines = <<>>
    BY <1>2, <2>1 DEF PassElement, LinesOf
  <2>2. CASE lines # <<>>
    <3>1. blocks' = Append(blocks, Generate(lines))
      BY <2>2 DEF PassElement
    <3>2. IsBlock(lines)
      BY <1>2, <2>2 DEF LinesAreBetween
    <3>. QED
      BY <1>2, <3>1, <3>2, AppendGenerate
  <2>. QED
    BY <2>1, <2>2
<1>16. /\ blocks' \in Seq(Block) /\ BindingsAreRight'
       /\ (\A i \in DOMAIN blocks : IsBlock(blocks[i].lines))'
  <2>1. \A i \in DOMAIN blocks' : BoundAsInText(blocks'[i]) /\ IsBlock(blocks'[i].lines)
    BY <1>15 DEF Kept
  <2>2. BindingsAreRight'
    BY <1>4, <2>1 DEF BindingsAreRight, BoundAsInText, IsParent, IsPrevious, IsNext, IsLatest,
                      Following
  <2>3. (\A i \in DOMAIN blocks : IsBlock(blocks[i].lines))'
    BY <1>4, <2>1 DEF IsBlock
  <2>. QED
    BY <1>15, <2>2, <2>3 DEF Kept
<1>17. TypeOK'
  BY <1>1, <1>2, <1>4, <1>5, <1>9, <1>16 DEF TypeOK
<1>18. CommentsAreKept'
  <2>1. LinesOf(lines') = {}
    BY <1>4 DEF LinesOf
  <2>2. ASSUME NEW c \in Comments, Less(c, comment)
        PROVE  InBlocks(c)'
    BY <1>2, <1>15, <2>2 DEF CommentsAreKept, InBlocks, In
  <2>3. ASSUME NEW i \in DOMAIN blocks', NEW c \in LinesOf(blocks'[i].lines)
        PROVE  Less(c, comment)
    <3>1. In(blocks, c) \/ c \in LinesOf(lines)
      BY <1>15, <2>3 DEF In
    <3>. QED
      BY <1>2, <3>1 DEF LinesOf
  <2>. QED
    BY <1>1, <1>4, <1>15, <1>16, <2>1, <2>2, <2>3 DEF CommentsAreKept, Kept
<1>. QED
  BY <1>1, <1>11, <1>12, <1>14, <1>16, <1>17, <1>18 DEF MergeInv

\* The blocks that are done and the one being built, when the comment was taken.
Taken(done, now) ==
  /\ Kept(done)
  /\ now \in Seq(CommentAt) /\ IsBlock(now)
  /\ \A i \in DOMAIN now : IsBetween(now[i]) /\ (now[i] = comment \/ Less(now[i], comment))
  /\ \A c \in Comments : c = comment \/ Less(c, comment) => In(done, c) \/ c \in LinesOf(now)
  /\ \A c : In(done, c) => Less(c, comment) /\ \A d \in LinesOf(now) : Less(c, d)

LEMMA CommentTaken ==
  ASSUME MergeInv, phase = "merge", CommentIsNext,
         NEW block, block = (IF lines = <<>> THEN <<comment>> ELSE lines),
         NEW joins, joins = CombinesWith(block, comment)
  PROVE  Taken(IF joins THEN blocks ELSE Append(blocks, Generate(block)),
               IF joins THEN Append(block, comment) ELSE <<comment>>)
<1>2. /\ TypeOK /\ StackIsNested /\ StackIsAncestors /\ LinesAreBetween /\ CommentsAreKept
      /\ Kept(blocks) /\ \A c : InBlocks(c) <=> In(blocks, c)
      /\ comment \in Comments /\ comment \in CommentAt /\ comment \in Span /\ comment # None
      /\ lines \in Seq(CommentAt)
      /\ \A i \in DOMAIN lines : lines[i] \in CommentAt /\ lines[i] \in Span
                                 /\ IsBetween(lines[i]) /\ Less(lines[i], comment)
      /\ \A c : In(blocks, c) => Less(c, comment) /\ \A d \in LinesOf(lines) : Less(c, d)
  BY MergeFacts
<1>3. IsBetween(comment)
  BY <1>2 DEF IsBetween, CommentIsNext, LinesAreBetween
<1>4. /\ <<comment>> \in Seq(CommentAt) /\ IsBlock(<<comment>>)
      /\ DOMAIN <<comment>> = {1} /\ <<comment>>[1] = comment
      /\ LinesOf(<<comment>>) = {comment}
  <2>1. DOMAIN <<comment>> = {1} /\ <<comment>>[1] = comment /\ <<comment>> # <<>>
    OBVIOUS
  <2>2. LinesOf(<<comment>>) = {comment}
    BY <2>1 DEF LinesOf
  <2>. QED
    BY <1>2, <2>1, <2>2 DEF IsBlock
<1>5. \A c \in Comments : c = comment \/ Less(c, comment) =>
        c = comment \/ In(blocks, c) \/ c \in LinesOf(lines)
  BY <1>2 DEF CommentsAreKept
<1>6. CASE lines = <<>>
  <2>1. block = <<comment>>
    BY <1>6
  <2>2. joins = TRUE
    <3>1. BlockLocation(block) = [tree |-> comment.tree, start |-> comment.start,
                                  end |-> comment.end]
      BY <2>1 DEF BlockLocation
    <3>2. LineAt(comment.tree, comment.start) = LineAt(comment.tree, comment.end)
      BY <1>2, TextAssumption
    <3>. QED
      BY <3>1, <3>2 DEF CombinesWith, StartLine, EndLine
  <2>. DEFINE now == Append(block, comment)
  <2>3. now \in Seq(CommentAt) /\ DOMAIN now = {1, 2} /\ now[1] = comment /\ now[2] = comment
    BY <1>2, <2>1
  <2>. HIDE DEF now
  <2>4. IsBlock(now) /\ LinesOf(now) = {comment}
    <3>1. now # <<>>
      BY <2>3
    <3>. QED
      BY <1>2, <2>3, <3>1 DEF IsBlock, LinesOf
  <2>5. LinesOf(lines) = {}
    BY <1>6 DEF LinesOf
  <2>6. Taken(blocks, now)
    BY <1>2, <1>3, <1>5, <2>3, <2>4, <2>5 DEF Taken
  <2>. QED
    BY <2>2, <2>6 DEF now
<1>7. CASE lines # <<>> /\ joins
  <2>. DEFINE now == Append(lines, comment)
              n == Len(lines)
  <2>1. block = lines
    BY <1>7
  <2>2. /\ n \in Nat /\ DOMAIN lines = 1 .. n /\ DOMAIN now = 1 .. (n + 1)
        /\ \A i \in DOMAIN lines : now[i] = lines[i]
        /\ now[n + 1] = comment /\ now \in Seq(CommentAt)
    BY <1>2
  <2>. HIDE DEF now, n
  <2>3. \A i \in DOMAIN now : i \in DOMAIN lines \/ i = n + 1
    BY <2>2
  <2>4. IsBlock(lines)
    BY <1>2, <1>7 DEF LinesAreBetween
  <2>5. IsBlock(now)
    <3>1. now # <<>> /\ \A i \in DOMAIN now : now[i] \in Comments
      BY <1>2, <2>2, <2>3, <2>4 DEF IsBlock
    <3>2. ASSUME NEW i \in DOMAIN now, NEW j \in DOMAIN now, i < j
          PROVE  Less(now[i], now[j]) \/ (i = 1 /\ j = 2 /\ now[i] = now[j])
      <4>1. i \in DOMAIN lines
        BY <2>2, <3>2
      <4>2. CASE j \in DOMAIN lines
        BY <2>2, <2>4, <3>2, <4>1, <4>2 DEF IsBlock
      <4>3. CASE j = n + 1
        BY <1>2, <2>2, <4>1, <4>3
      <4>. QED
        BY <2>3, <4>2, <4>3
    <3>. QED
      BY <3>1, <3>2 DEF IsBlock
  <2>6. LinesOf(now) = LinesOf(lines) \cup {comment}
    <3>1. n + 1 \in DOMAIN now
      BY <2>2
    <3>2. \A i \in DOMAIN lines : i \in DOMAIN now
      BY <2>2
    <3>. QED
      BY <2>2, <2>3, <3>1, <3>2 DEF LinesOf
  <2>7. \A i \in DOMAIN now : IsBetween(now[i]) /\ (now[i] = comment \/ Less(now[i], comment))
    BY <1>2, <1>3, <2>2, <2>3
  <2>8. Taken(blocks, now)
    BY <1>2, <1>5, <2>2, <2>5, <2>6, <2>7 DEF Taken
  <2>. QED
    BY <1>7, <2>1, <2>8 DEF now
<1>8. CASE lines # <<>> /\ ~joins
  <2>. DEFINE done == Append(blocks, Generate(lines))
  <2>1. block = lines /\ IsBlock(lines)
    BY <1>2, <1>8 DEF LinesAreBetween
  <2>2. Kept(done) /\ \A c : In(done, c) <=> In(blocks, c) \/ c \in LinesOf(lines)
    BY <1>2, <2>1, AppendGenerate
  <2>. HIDE DEF done
  <2>3. \A c : In(done, c) => Less(c, comment)
    BY <1>2, <2>2 DEF LinesOf
  <2>4. Taken(done, <<comment>>)
    BY <1>3, <1>4, <1>5, <2>2, <2>3 DEF Taken
  <2>. QED
    BY <1>8, <2>1, <2>4 DEF done
<1>. QED
  BY <1>6, <1>7, <1>8

LEMMA TakeCommentMerge ==
  ASSUME MergeInv, TakeComment
  PROVE  MergeInv'
<1>. DEFINE block == IF lines = <<>> THEN <<comment>> ELSE lines
            joins == CombinesWith(block, comment)
            now == IF joins THEN Append(block, comment) ELSE <<comment>>
            done == IF joins THEN blocks ELSE Append(blocks, Generate(block))
<1>1. phase = "merge" /\ CommentIsNext
  BY DEF TakeComment
<1>2. /\ TypeOK /\ StackIsNested /\ StackIsAncestors
      /\ comment \in Comments /\ comment \in Span
      /\ \A e \in Passed : Less(e, comment)
  BY <1>1, MergeFacts DEF LinesAreBetween
<1>3. Taken(done, now)
  BY <1>1, CommentTaken
<1>4. /\ Elements' = Elements /\ Comments' = Comments /\ Passed' = Passed
      /\ elements' = elements /\ guardKeys' = guardKeys /\ comments' = comments
      /\ elementCalls' = elementCalls /\ commentCalls' = commentCalls
      /\ nextElement' = nextElement /\ elementStack' = elementStack
  BY DEF TakeComment, Elements, Comments, Passed, dictionaries
<1>5. /\ comment' \in Comments \cup {None}
      /\ MovesTo({l \in Comments : Less(comment, l)}, comment')
      /\ comment' = None => phase' = "done" /\ lines' = <<>>
                            /\ blocks' = Append(done, Generate(now))
      /\ comment' # None => phase' = "merge" /\ lines' = now /\ blocks' = done
  BY Zenon DEF TakeComment
<1>. HIDE DEF now, done
<1>6. /\ Kept(done) /\ now \in Seq(CommentAt) /\ IsBlock(now)
      /\ \A i \in DOMAIN now : IsBetween(now[i]) /\ (now[i] = comment \/ Less(now[i], comment))
      /\ \A c \in Comments : c = comment \/ Less(c, comment) => In(done, c) \/ c \in LinesOf(now)
      /\ \A c : In(done, c) => Less(c, comment) /\ \A d \in LinesOf(now) : Less(c, d)
  BY <1>3 DEF Taken
<1>7. /\ Kept(blocks')
      /\ lines' \in Seq(CommentAt) /\ (lines' # <<>> => IsBlock(lines')) /\ phase' \in {"merge", "done"}
      /\ \A c : c \in LinesOf(now) \/ In(done, c) => c \in LinesOf(lines') \/ In(blocks', c)
      /\ phase' = "merge" => blocks' = done /\ lines' = now /\ comment' \in Comments
      /\ phase' = "done" => lines' = <<>> /\ \A c \in Comments : ~Less(comment, c)
  <2>1. CASE comment' = None
    <3>1. Kept(blocks') /\ \A c : In(blocks', c) <=> In(done, c) \/ c \in LinesOf(now)
      BY <1>2, <1>5, <1>6, <2>1, AppendGenerate
    <3>2. {l \in Comments : Less(comment, l)} = {}
      BY <1>5, <2>1, Locations DEF MovesTo
    <3>3. \A c \in Comments : ~Less(comment, c)
      BY <3>2
    <3>. QED
      BY <1>5, <2>1, <3>1, <3>3
  <2>2. CASE comment' # None
    BY <1>5, <1>6, <2>2
  <2>. QED
    BY <2>1, <2>2
<1>8. ASSUME phase' = "merge"
      PROVE  /\ comment' \in Comments /\ comment' \in Span /\ comment' # None /\ Less(comment, comment')
             /\ \A c \in Comments : Less(c, comment') => c = comment \/ Less(c, comment)
  <2>1. comment' \in Comments /\ comment' # None /\ comment' \in Span
    BY <1>7, <1>8, Locations
  <2>2. Less(comment, comment')
    BY <1>5, <2>1 DEF MovesTo
  <2>3. ASSUME NEW c \in Comments, Less(c, comment')
        PROVE  c = comment \/ Less(c, comment)
    <3>1. c \in Span
      BY Locations
    <3>2. Less(comment, c) => c = comment' \/ Less(comment', c)
      BY <1>5, <2>1 DEF MovesTo
    <3>. QED
      BY <1>2, <2>1, <2>3, <3>1, <3>2, Order
  <2>. QED
    BY <2>1, <2>2, <2>3
<1>9. StackIsNested' /\ StackIsAncestors'
  <2>1. Top' = Top
    BY <1>4 DEF Top
  <2>. QED
    BY <1>2, <1>4, <2>1 DEF StackIsNested, StackIsAncestors
<1>10. BindingsAreRight' /\ (\A i \in DOMAIN blocks : IsBlock(blocks[i].lines))'
       /\ (lines' # <<>> => IsBlock(lines)')
  <2>1. \A i \in DOMAIN blocks' : BoundAsInText(blocks'[i]) /\ IsBlock(blocks'[i].lines)
    BY <1>7 DEF Kept
  <2>2. BindingsAreRight'
    BY <1>4, <2>1 DEF BindingsAreRight, BoundAsInText, IsParent, IsPrevious, IsNext, IsLatest,
                      Following
  <2>. QED
    BY <1>4, <1>7, <2>1, <2>2 DEF IsBlock
<1>11. TypeOK'
  <2>1. blocks' \in Seq(Block)
    BY <1>7 DEF Kept
  <2>. QED
    BY <1>2, <1>4, <1>5, <1>7, <2>1 DEF TypeOK
<1>12. ASSUME phase' = "merge", NEW c, c = comment \/ Less(c, comment), c \in Span
       PROVE  Less(c, comment')
  BY <1>2, <1>8, <1>12, Order
<1>13. \A c : In(done, c) \/ c \in LinesOf(now) => c \in Comments
  <2>1. \A c : In(done, c) => c \in Comments
    BY <1>6 DEF Kept, In, IsBlock, LinesOf
  <2>2. \A c \in LinesOf(now) : c \in Comments
    BY <1>6 DEF IsBlock, LinesOf
  <2>. QED
    BY <2>1, <2>2
<1>14. LinesAreBetween'
  <2>1. CASE phase' = "merge"
    <3>1. \A i \in DOMAIN lines' : IsBetween(lines'[i]) /\ Less(lines'[i], comment')
      <4>1. \A i \in DOMAIN now : now[i] \in LinesOf(now)
        BY DEF LinesOf
      <4>. QED
        BY <1>6, <1>7, <1>12, <1>13, <2>1, <4>1, Locations
    <3>2. \A i \in DOMAIN lines' : (\A e \in Passed : Less(e, lines'[i]))
                                   /\ (nextElement # None => Less(lines'[i], nextElement))
      BY <3>1 DEF IsBetween
    <3>3. \A e \in Passed : Less(e, comment')
      <4>1. \A e \in Passed : e \in Span
        BY Locations DEF Passed
      <4>. QED
        BY <1>2, <1>12, <2>1, <4>1
    <3>. QED
      BY <1>4, <1>8, <1>10, <2>1, <3>1, <3>2, <3>3 DEF LinesAreBetween, IsBetween
  <2>2. CASE phase' = "done"
    BY <1>7, <1>10, <2>2 DEF LinesAreBetween
  <2>. QED
    BY <1>7, <2>1, <2>2
<1>15. CommentsAreKept'
  <2>1. ASSUME NEW c \in Comments, phase' = "done" \/ Less(c, comment')
        PROVE  InBlocks(c)' \/ c \in LinesOf(lines')
    <3>1. c \in Span
      BY Locations
    <3>2. c = comment \/ Less(c, comment)
      BY <1>2, <1>7, <1>8, <2>1, <3>1, Order
    <3>3. In(done, c) \/ c \in LinesOf(now)
      BY <1>6, <3>2
    <3>. QED
      BY <1>7, <3>3 DEF InBlocks, In
  <2>2. ASSUME phase' = "merge", NEW i \in DOMAIN blocks', NEW c \in LinesOf(blocks'[i].lines)
        PROVE  Less(c, comment') /\ \A d \in LinesOf(lines') : Less(c, d)
    <3>1. In(done, c)
      BY <1>7, <2>2 DEF In
    <3>2. Less(c, comment) /\ c \in Span
      BY <1>6, <1>13, <3>1, Locations
    <3>. QED
      BY <1>6, <1>7, <1>12, <2>2, <3>1, <3>2
  <2>. QED
    BY <1>4, <1>7, <1>10, <2>1, <2>2 DEF CommentsAreKept, Kept
<1>. QED
  BY <1>7, <1>9, <1>10, <1>11, <1>14, <1>15 DEF MergeInv

-----------------------------------------------------------------------------
(* Theorems.                                                               *)

LEMMA Merge == Spec => []MergeInv
<1>1. Init => MergeInv
  BY InitMerge
<1>2. MergeInv /\ [Next]_vars => MergeInv'
  <2>. SUFFICES ASSUME MergeInv, [Next]_vars PROVE MergeInv'
    OBVIOUS
  <2>1. CASE Next
    <3>1. ASSUME NEW c \in ElementCall, AddElement(c) PROVE MergeInv'
      BY <3>1, AddElementMerge
    <3>2. ASSUME NEW c \in CommentCall, AddComment(c) PROVE MergeInv'
      BY <3>2, AddCommentMerge
    <3>3. CASE Start
      BY <3>3, StartMerge
    <3>4. CASE TakeComment
      BY <3>4, TakeCommentMerge
    <3>5. CASE PassElement
      BY <3>5, PassElementMerge
    <3>. QED
      BY <2>1, <3>1, <3>2, <3>3, <3>4, <3>5 DEF Next
  <2>2. CASE UNCHANGED vars
    <3>1. Elements' = Elements /\ Comments' = Comments /\ Passed' = Passed /\ Top' = Top
      BY <2>2 DEF vars, dictionaries, Elements, Comments, Passed, Top
    <3>2. TypeOK' /\ (phase = "register" => NothingYet)' /\ StackIsNested' /\ BindingsAreRight'
      BY <2>2, <3>1 DEF vars, dictionaries, MergeInv, TypeOK, NothingYet, StackIsNested, Following,
                        BindingsAreRight, BoundAsInText, IsParent, IsPrevious, IsLatest, IsNext
    <3>3. (phase = "merge" => StackIsAncestors)'
      BY <2>2, <3>1 DEF vars, MergeInv, StackIsAncestors
    <3>4. (phase # "register" => LinesAreBetween /\ CommentsAreKept)'
      BY <2>2, <3>1 DEF vars, MergeInv, LinesAreBetween, IsBlock, IsBetween, CommentsAreKept, InBlocks
    <3>. QED
      BY <3>2, <3>3, <3>4 DEF MergeInv
  <2>. QED
    BY <2>1, <2>2
<1>. QED
  BY <1>1, <1>2, PTL DEF Spec

\* The dictionaries, the stack and the blocks are of the kinds the merge relies on.
THEOREM TypeCorrect == Spec => []TypeOK
<1>1. MergeInv => TypeOK
  BY DEF MergeInv
<1>. QED
  BY <1>1, Merge, PTL

\* An item of the element stack contains those above it.
THEOREM StackNested == Spec => []StackIsNested
<1>1. MergeInv => StackIsNested
  BY DEF MergeInv
<1>. QED
  BY <1>1, Merge, PTL

\* The elements that the callback gets for a block are those around it in the text,
\* whatever the text and the order of registration.
THEOREM BindingsCorrect == Spec => []BindingsAreRight
<1>1. MergeInv => BindingsAreRight
  BY DEF MergeInv
<1>. QED
  BY <1>1, Merge, PTL

\* GenerateBindings neither loses a comment line nor puts it in two blocks, nor
\* twice in one unless it is its first.
THEOREM NoLineLost == Spec => []LinesInOneBlock
<1>1. MergeInv => LinesInOneBlock
  <2>. SUFFICES ASSUME MergeInv, phase = "done" PROVE LinesInOneBlock
    BY DEF LinesInOneBlock
  <2>1. CommentsAreKept
    BY DEF MergeInv
  <2>2. lines = <<>>
    BY <2>1 DEF CommentsAreKept
  <2>3. \A c \in Comments : \E i \in DOMAIN blocks : c \in LinesOf(blocks[i].lines)
    BY <2>1, <2>2 DEF CommentsAreKept, InBlocks, LinesOf
  <2>4. ASSUME NEW k \in DOMAIN blocks, NEW i \in DOMAIN blocks[k].lines,
               NEW j \in DOMAIN blocks[k].lines, i < j, blocks[k].lines[i] = blocks[k].lines[j]
        PROVE  i = 1 /\ j = 2
    <3>1. IsBlock(blocks[k].lines)
      BY <2>1 DEF CommentsAreKept
    <3>2. blocks[k].lines[i] \in Comments /\ blocks[k].lines[j] \in Comments
      BY <3>1 DEF IsBlock
    <3>3. ~Less(blocks[k].lines[i], blocks[k].lines[j])
      BY <2>4, <3>2, Locations, Order
    <3>. QED
      BY <2>4, <3>1, <3>3 DEF IsBlock
  <2>. QED
    BY <2>1, <2>3, <2>4 DEF LinesInOneBlock, CommentsAreKept
<1>. QED
  BY <1>1, Merge, PTL
=============================================================================
